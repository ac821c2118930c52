----------------------------- MODULE MuxStreams -----------------------------
(***************************************************************************)
(* The streams of one MuxTransport channel: how descriptors are delegated   *)
(* one after another, which streams each end has registered under which id, *)
(* how many live at once, and how a stand-in that is read and written comes *)
(* to its end (crates/capsudo-transport/src/mux.rs).                        *)
(*                                                                         *)
(* The near end delegates; it pumps descriptors of its own, on blocking   *)
(* threads, and the far end makes stand-ins. A reader pump (rp) turns what  *)
(* it reads into frames, a writer pump (wp) writes out what frames bring.   *)
(* MuxStream has one stream in full, its frame queue that can be full too;  *)
(* here a frame costs one, there is room for each, and a pump abandons its  *)
(* stream in one step.                                                      *)
(***************************************************************************)
EXTENDS Naturals, Sequences, FiniteSets, Tally

CONSTANTS
  Most,     \* descriptors that are delegated at most
  Plans,    \* what may happen on a channel, see below
  Window,   \* frames a sender may have in flight
  MaxOwed   \* MAX_OWED_STREAMS

\* dirs: the FdDir of each descriptor that is delegated, in order; ids: how many
\* ids there are before they wrap; live: MAX_LIVE_STREAMS; fails: whether the
\* channel may.
ASSUME StreamsAssumption ==
  /\ Plans \subseteq [dirs: Seq({"read", "write", "both"}), ids: Nat \ {0}, live: Nat \ {0},
                     fails: BOOLEAN]
  /\ Most \in Nat /\ \A p \in Plans : Len(p.dirs) <= Most
  /\ \A size \in {Window, MaxOwed} : size \in Nat \ {0}

VARIABLES
  plan,     \* fixed
  sent,     \* descriptors delegated so far
  step,     \* "idle", "open": the last one's pumps are still to open, or "failed"
  frames,   \* frames[s]: queued by the other end and not yet read by s
  sink,     \* sink[s][id]: the stream in the StreamMap
  prog,     \* prog[s][id]: the stream in Flow.progress
  rp, wp,   \* "no", "runs" or "ended"
  inq,      \* the queue of a writer pump
  avail,    \* Progress.available
  owed,     \* Flow.owed
  holder,   \* of a stand-in: "none" yet, "open", "half" after a shutdown of what
            \* it writes, "closed" at once with nothing unread, or "left" otherwise
  toPump, toHolder,  \* bytes in the stand-in's two directions
  reset,    \* it was closed with something unread, which its pump has yet to see
  shut,     \* the pump shut down what the holder reads
  hangup,   \* the Notify the two pumps of a stand-in share
  ended,    \* ended[s]: the reader task ended, and with it closed the flow
  dropped,  \* dropped[s]: the transport was dropped
  lost      \* the channel failed

delegation == <<plan, sent, step>>
tables   == <<sink, prog>>
pumps    == <<rp, wp, inq>>
credit   == <<avail, owed>>
standins == <<holder, toPump, toHolder, reset, shut, hangup>>
ends     == <<ended, dropped, lost>>
vars == <<delegation, frames, tables, pumps, credit, standins, ends>>

Dirs == plan.dirs
Streams == 1..Most
Sides == {"near", "far"}
Other(s) == IF s = "near" THEN "far" ELSE "near"

\* FdDir::reads and FdDir::writes, as the near end sees them.
HasDir(d, dir) == d \in DOMAIN Dirs /\ Dirs[d] = dir
Reads(d)  == HasDir(d, "read") \/ HasDir(d, "both")
Writes(d) == HasDir(d, "write") \/ HasDir(d, "both")

\* alloc_id: wrapping_add.
Id(d) == (d - 1) % plan.ids
IdSpace == 0..plan.ids - 1
None == 0

Both(x) == [s \in Sides |-> [d \in Streams |-> x]]

Init ==
  /\ plan \in Plans /\ sent = 0 /\ step = "idle"
  /\ frames = [s \in Sides |-> <<>>]
  /\ sink = [s \in Sides |-> [i \in IdSpace |-> None]] /\ prog = sink
  /\ rp = Both("no") /\ wp = Both("no") /\ inq = Both(<<>>)
  /\ avail = Both(0) /\ owed = [s \in Sides |-> [i \in IdSpace |-> 0]]
  /\ holder = [d \in Streams |-> "none"]
  /\ toPump = [d \in Streams |-> 0] /\ toHolder = toPump
  /\ reset = [d \in Streams |-> FALSE] /\ shut = reset /\ hangup = reset
  /\ ended = [s \in Sides |-> FALSE] /\ dropped = ended /\ lost = FALSE

-----------------------------------------------------------------------------
Frame(kind, d, n) == [kind |-> kind, of |-> d, n |-> n]

\* The transport and all that held its frame queue are gone, so the channel is.
LetsGo(s) ==
  dropped[s] /\ \A d \in Streams : "runs" \notin {rp[s][d], wp[s][d]}

\* A frame goes from s to the other end, or nowhere once the channel is gone.
Gone(s) == lost \/ LetsGo(Other(s))
Queues(s, f) ==
  frames' = IF Gone(s) THEN frames ELSE [frames EXCEPT ![Other(s)] = Append(@, f)]

\* Mutant: the drop of a pump takes the entry of its id, whosever it is.
Unlisted_Any(table, s, d) == [table EXCEPT ![s][Id(d)] = None]

\* The drop of a pump takes its own entry, and no other stream's.
Unlisted(table, s, d) == [table EXCEPT ![s][Id(d)] = IF @ = d THEN None ELSE @]

ReaderEnds(s, d) == rp' = [rp EXCEPT ![s][d] = "ended"] /\ prog' = Unlisted(prog, s, d)
WriterEnds(s, d) == wp' = [wp EXCEPT ![s][d] = "ended"] /\ sink' = Unlisted(sink, s, d)

\* Mutant: the sinks keep the StreamMap alive.
Registered_Strong(s, d) == sink[s][Id(d)] = d

\* The StreamMap goes with the transport, and every queue with it.
Registered(s, d) == sink[s][Id(d)] = d /\ ~dropped[s]

\* The delegations whose pumps hold a StreamSlot.
Slots == {d \in Streams : rp["far"][d] = "runs" \/ wp["far"][d] = "runs"}

-----------------------------------------------------------------------------
(* send.                                                                     *)

\* The pumps of stream d start at s, and are registered.
Opens(s, d, reads, writes) ==
  /\ rp' = [rp EXCEPT ![s][d] = IF reads THEN "runs" ELSE @]
  /\ wp' = [wp EXCEPT ![s][d] = IF writes THEN "runs" ELSE @]
  /\ avail' = [avail EXCEPT ![s][d] = IF reads THEN Window ELSE @]
  /\ sink' = [sink EXCEPT ![s][Id(d)] = IF writes THEN d ELSE @]
  /\ prog' = [prog EXCEPT ![s][Id(d)] = IF reads THEN d ELSE @]

\* Mutant: the pumps are opened before the Fds frame is queued.
Delegates_Late ==
  /\ ~dropped["near"] /\ ~lost
  /\ \/ /\ step = "idle" /\ sent < Len(Dirs)
        /\ Opens("near", sent + 1, Reads(sent + 1), Writes(sent + 1))
        /\ sent' = sent + 1 /\ step' = "late" /\ UNCHANGED frames
     \/ /\ step = "late"
        /\ Queues("near", Frame("fds", sent, 0))
        /\ step' = "idle" /\ UNCHANGED <<sent, tables, rp, wp, avail>>
  /\ UNCHANGED <<plan, inq, owed, standins, ends>>

\* The Fds frame is queued, and only then are the pumps opened.
Delegates ==
  /\ step = "idle" /\ sent < Len(Dirs) /\ ~dropped["near"] /\ ~lost
  /\ Queues("near", Frame("fds", sent + 1, 0))
  /\ sent' = sent + 1 /\ step' = "open"
  /\ UNCHANGED <<plan, tables, pumps, credit, standins, ends>>

\* start_sender_pumps.
OpensPumps ==
  /\ step = "open" /\ ~dropped["near"]
  /\ Opens("near", sent, Reads(sent), Writes(sent))
  /\ step' = "idle"
  /\ UNCHANGED <<plan, sent, frames, inq, owed, standins, ends>>

\* A dup fails, of the first descriptor that is needed or of a later one. A
\* sink that was opened is dropped, with its entry and whose place it took.
OpensFail ==
  /\ step = "open" /\ ~dropped["near"]
  /\ \/ /\ sink' = IF Writes(sent) THEN [sink EXCEPT !["near"][Id(sent)] = None] ELSE sink
        /\ UNCHANGED <<wp, prog, rp, avail>>
     \/ HasDir(sent, "both") /\ Opens("near", sent, FALSE, TRUE)
  /\ step' = "failed"
  /\ UNCHANGED <<plan, sent, frames, inq, owed, standins, ends>>

-----------------------------------------------------------------------------
(* The pumps.                                                                *)

\* What was read is charged, and queued as a frame. A pump goes on until its
\* transport is closed or its frame cannot be queued.
SendsData(s, d) ==
  /\ avail' = [avail EXCEPT ![s][d] = @ - 1]
  /\ Queues(s, Frame("data", d, 1))
  /\ IF ended[s] \/ Gone(s) THEN ReaderEnds(s, d) ELSE UNCHANGED <<rp, prog>>

SendsClose(s, d) == Queues(s, Frame("close", d, 0)) /\ ReaderEnds(s, d)

\* spawn_blocking_reader reads, or finds the end of, a descriptor of the near
\* end's caller; the cancel pipe goes before both.
NearReads(d) ==
  /\ rp["near"][d] = "runs" /\ avail["near"][d] > 0 /\ ~dropped["near"]
  /\ \/ SendsData("near", d)
     \/ SendsClose("near", d) /\ UNCHANGED avail
  /\ UNCHANGED <<delegation, sink, wp, inq, owed, standins, ends>>

\* Mutant: close sets its flag and wakes nobody.
Woken_Unheard(s, d) == FALSE

\* Who waits for credit is woken by close, through the progress map.
Woken(s, d) == ended[s] /\ avail[s][d] <= 0 /\ prog[s][Id(d)] = d

NearCancels(d) ==
  /\ rp["near"][d] = "runs"
  /\ (dropped["near"] /\ avail["near"][d] > 0) \/ Woken("near", d)
  /\ ReaderEnds("near", d)
  /\ UNCHANGED <<delegation, frames, sink, wp, inq, credit, standins, ends>>

\* Mutant: end of file is taken for a close.
FarReads_HangsUp(d) ==
  /\ rp["far"][d] = "runs" /\ avail["far"][d] > 0
  /\ \/ /\ toPump[d] > 0
        /\ toPump' = [toPump EXCEPT ![d] = @ - 1]
        /\ SendsData("far", d)
        /\ UNCHANGED <<hangup, reset>>
     \/ /\ toPump[d] = 0 /\ holder[d] \in {"half", "closed", "left"}
        /\ hangup' = [hangup EXCEPT ![d] = TRUE]
        /\ SendsClose("far", d)
        /\ UNCHANGED <<toPump, reset, avail>>
  /\ UNCHANGED <<delegation, sink, wp, inq, owed, holder, toHolder, shut, ends>>

\* Mutant: end of file is never taken for a close.
FarReads_Quiet(d) ==
  /\ rp["far"][d] = "runs" /\ avail["far"][d] > 0
  /\ \/ /\ toPump[d] > 0
        /\ toPump' = [toPump EXCEPT ![d] = @ - 1]
        /\ SendsData("far", d)
     \/ /\ toPump[d] = 0 /\ holder[d] \in {"half", "closed", "left"}
        /\ SendsClose("far", d)
        /\ UNCHANGED <<toPump, avail>>
  /\ UNCHANGED <<delegation, sink, wp, inq, owed, holder, toHolder, reset, shut, hangup, ends>>

\* async_reader: data, then a pending error, then the end of file, which is also
\* a half-close. An error ends the pump without a word to anyone.
FarReads(d) ==
  /\ rp["far"][d] = "runs" /\ avail["far"][d] > 0
  /\ \/ /\ toPump[d] > 0
        /\ toPump' = [toPump EXCEPT ![d] = @ - 1]
        /\ SendsData("far", d)
        /\ UNCHANGED <<hangup, reset>>
     \/ /\ toPump[d] = 0 /\ reset[d]
        /\ reset' = [reset EXCEPT ![d] = FALSE]
        /\ ReaderEnds("far", d)
        /\ UNCHANGED <<toPump, hangup, frames, avail>>
     \/ /\ toPump[d] = 0 /\ ~reset[d] /\ holder[d] \in {"half", "closed", "left"}
        /\ hangup' = [hangup EXCEPT ![d] = @ \/ holder[d] # "half"]
        /\ SendsClose("far", d)
        /\ UNCHANGED <<toPump, reset, avail>>
  /\ UNCHANGED <<delegation, sink, wp, inq, owed, holder, toHolder, shut, ends>>

FarCancels(d) ==
  /\ rp["far"][d] = "runs" /\ Woken("far", d)
  /\ ReaderEnds("far", d)
  /\ UNCHANGED <<delegation, frames, sink, wp, inq, credit, standins, ends>>

\* A frame was written out: its credit is granted.
Consumes(s, d) ==
  /\ inq' = [inq EXCEPT ![s][d] = Tail(@)]
  /\ Queues(s, Frame("window", d, 1))

\* StreamSink::abandon: what is still queued is granted.
Abandons(s, d) ==
  /\ Queues(s, Frame("window", d,
                     Cardinality({k \in DOMAIN inq[s][d] : inq[s][d][k] = "data"})))
  /\ inq' = [inq EXCEPT ![s][d] = <<>>]
  /\ WriterEnds(s, d)

Message(s, d, msg) == wp[s][d] = "runs" /\ inq[s][d] # <<>> /\ Head(inq[s][d]) = msg

NearWrites(d) ==
  /\ Message("near", d, "data")
  /\ \/ Consumes("near", d) /\ UNCHANGED <<wp, sink>>
     \/ Abandons("near", d)
  /\ UNCHANGED <<delegation, prog, rp, credit, standins, ends>>

\* Mutant: the writer does not wait for room.
FarWrites_Over(d) ==
  /\ Message("far", d, "data") /\ holder[d] \in {"open", "half"}
  /\ toHolder' = [toHolder EXCEPT ![d] = @ + 1]
  /\ Consumes("far", d)
  /\ UNCHANGED <<delegation, wp, sink, prog, rp, credit, holder, toPump, reset, shut, hangup, ends>>

\* async_writer writes when there is room, and finds out when it is closed.
FarWrites(d) ==
  /\ Message("far", d, "data")
  /\ \/ /\ toHolder[d] = 0 /\ holder[d] \in {"open", "half"}
        /\ toHolder' = [toHolder EXCEPT ![d] = 1]
        /\ Consumes("far", d) /\ UNCHANGED <<wp, sink>>
     \/ holder[d] \in {"closed", "left"} /\ Abandons("far", d) /\ UNCHANGED toHolder
  /\ UNCHANGED <<delegation, prog, rp, credit, holder, toPump, reset, shut, hangup, ends>>

\* The reader of the stand-in saw it closed, or nobody reads it and the writer
\* watches it itself: then end of file is enough (closed_by_holder).
FarHangsUp(d) ==
  /\ wp["far"][d] = "runs"
  /\ hangup[d] \/ (~Writes(d) /\ holder[d] \in {"half", "closed", "left"})
  /\ Abandons("far", d)
  /\ UNCHANGED <<delegation, prog, rp, credit, standins, ends>>

\* The peer's close, behind all its data.
TakesClose(s, d) ==
  /\ Message(s, d, "close")
  /\ inq' = [inq EXCEPT ![s][d] = <<>>]
  /\ WriterEnds(s, d)
  /\ shut' = [shut EXCEPT ![d] = @ \/ s = "far"]
  /\ UNCHANGED <<delegation, frames, prog, rp, credit, holder, toPump, toHolder, reset,
                 hangup, ends>>

\* The queue closed without one: its sender went, with the StreamMap or when the
\* entry was replaced.
Orphaned(s, d) ==
  /\ wp[s][d] = "runs" /\ inq[s][d] = <<>> /\ ~Registered(s, d)
  /\ WriterEnds(s, d)
  /\ UNCHANGED <<delegation, frames, prog, rp, inq, credit, standins, ends>>

-----------------------------------------------------------------------------
(* reader_task and writer_task.                                              *)

Reads1(s, kind) == ~ended[s] /\ frames[s] # <<>> /\ Head(frames[s]).kind = kind
Rest(s) == frames' = [frames EXCEPT ![s] = Tail(@)]

CloseFlow(s) == ended' = [ended EXCEPT ![s] = TRUE]

\* Mutant: the limit counts the stand-ins that are written.
TakesFds_Writers ==
  /\ Reads1("far", "fds") /\ Rest("far")
  /\ LET d == Head(frames["far"]).of IN
       IF Cardinality({e \in Streams : wp["far"][e] = "runs"}) + 1 > plan.live
       THEN CloseFlow("far") /\ UNCHANGED <<tables, pumps, avail, holder>>
       ELSE /\ Opens("far", d, Writes(d), Reads(d))
            /\ holder' = [holder EXCEPT ![d] = "open"]
            /\ UNCHANGED <<inq, ended>>
  /\ UNCHANGED <<delegation, owed, toPump, toHolder, reset, shut, hangup, dropped, lost>>

\* The limit comes first; then the stand-in is made, which may fail, before the
\* next frame is read.
TakesFds ==
  /\ Reads1("far", "fds") /\ Rest("far")
  /\ LET d == Head(frames["far"]).of IN
       \/ CloseFlow("far") /\ UNCHANGED <<tables, pumps, avail, holder>>
       \/ /\ Cardinality(Slots) + 1 <= plan.live
          /\ Opens("far", d, Writes(d), Reads(d))
          /\ holder' = [holder EXCEPT ![d] = "open"]
          /\ UNCHANGED <<inq, ended>>
  /\ UNCHANGED <<delegation, owed, toPump, toHolder, reset, shut, hangup, dropped, lost>>

\* Mutant: data of an unknown stream is dropped with its credit.
TakesData_Forgets(s) ==
  /\ Reads1(s, "data") /\ Rest(s)
  /\ LET d == sink[s][Id(Head(frames[s]).of)] IN
       inq' = IF d = None THEN inq ELSE [inq EXCEPT ![s][d] = Append(@, "data")]
  /\ UNCHANGED <<delegation, tables, rp, wp, credit, standins, ends>>

\* Data goes to the stream that is registered, and is owed if none is.
TakesData(s) ==
  /\ Reads1(s, "data") /\ Rest(s)
  /\ LET i == Id(Head(frames[s]).of)
         owing == {j \in IdSpace : owed[s][j] > 0} IN
       IF sink[s][i] # None
       THEN inq' = [inq EXCEPT ![s][sink[s][i]] = Append(@, "data")] /\ UNCHANGED owed
       ELSE /\ owed' = IF Cardinality(owing) >= MaxOwed /\ i \notin owing THEN owed
                       ELSE [owed EXCEPT ![s][i] = @ + 1]
            /\ UNCHANGED inq
  /\ UNCHANGED <<delegation, tables, rp, wp, avail, standins, ends>>

TakesStreamClose(s) ==
  /\ Reads1(s, "close") /\ Rest(s)
  /\ LET i == Id(Head(frames[s]).of) IN
       /\ sink' = [sink EXCEPT ![s][i] = None]
       /\ inq' = IF sink[s][i] = None THEN inq
                 ELSE [inq EXCEPT ![s][sink[s][i]] = Append(@, "close")]
  /\ UNCHANGED <<delegation, prog, rp, wp, credit, standins, ends>>

\* Flow::grant.
TakesWindow(s) ==
  /\ Reads1(s, "window") /\ Rest(s)
  /\ LET f == Head(frames[s])  d == prog[s][Id(f.of)] IN
       avail' = IF d = None THEN avail ELSE [avail EXCEPT ![s][d] = @ + f.n]
  /\ UNCHANGED <<delegation, tables, pumps, owed, standins, ends>>

\* The writer grants what is owed.
Pays(s) ==
  /\ ~Gone(s)
  /\ \E i \in IdSpace :
       /\ owed[s][i] > 0
       /\ Queues(s, Frame("window", CHOOSE d \in Streams : Id(d) = i, owed[s][i]))
       /\ owed' = [owed EXCEPT ![s][i] = 0]
  /\ UNCHANGED <<delegation, tables, pumps, avail, standins, ends>>

\* The end of the channel: it failed, or the other end let go of it.
TakesEnd(s) ==
  /\ ~ended[s] /\ frames[s] = <<>>
  /\ Gone(s)
  /\ CloseFlow(s)
  /\ UNCHANGED <<delegation, frames, tables, pumps, credit, standins, dropped, lost>>

Loses ==
  /\ plan.fails /\ ~lost
  /\ lost' = TRUE /\ frames' = [s \in Sides |-> <<>>]
  /\ UNCHANGED <<delegation, tables, pumps, credit, standins, ended, dropped>>

Drops(s) ==
  /\ ~dropped[s]
  /\ dropped' = [dropped EXCEPT ![s] = TRUE] /\ CloseFlow(s)
  /\ UNCHANGED <<delegation, frames, tables, pumps, credit, standins, lost>>

-----------------------------------------------------------------------------
(* Who holds a stand-in. A program has one from the End on, which is sent when *)
(* all pumps are open; before that it can only be closed.                     *)

Opened(d) == sent > d \/ (sent = d /\ step = "idle")

HolderWrites(d) ==
  /\ holder[d] = "open" /\ Opened(d) /\ Writes(d) /\ d \in Slots /\ toPump[d] = 0
  /\ toPump' = [toPump EXCEPT ![d] = 1]
  /\ UNCHANGED <<delegation, frames, tables, pumps, credit, holder, toHolder, reset, shut,
                 hangup, ends>>

HolderReads(d) ==
  /\ holder[d] \in {"open", "half"} /\ Opened(d) /\ toHolder[d] > 0
  /\ toHolder' = [toHolder EXCEPT ![d] = 0]
  /\ UNCHANGED <<delegation, frames, tables, pumps, credit, holder, toPump, reset, shut,
                 hangup, ends>>

HolderShuts(d) ==
  /\ holder[d] = "open" /\ Opened(d)
  /\ holder' = [holder EXCEPT ![d] = "half"]
  /\ UNCHANGED <<delegation, frames, tables, pumps, credit, toPump, toHolder, reset, shut,
                 hangup, ends>>

HolderCloses(d) ==
  /\ holder[d] \in {"open", "half"}
  /\ holder' = [holder EXCEPT ![d] = IF @ = "open" /\ toHolder[d] = 0 THEN "closed" ELSE "left"]
  /\ reset' = [reset EXCEPT ![d] = toHolder[d] > 0]
  /\ toHolder' = [toHolder EXCEPT ![d] = 0]
  /\ UNCHANGED <<delegation, frames, tables, pumps, credit, toPump, shut, hangup, ends>>

-----------------------------------------------------------------------------
Takes(s) ==
  TakesData(s) \/ TakesStreamClose(s) \/ TakesWindow(s) \/ TakesEnd(s)
  \/ (s = "far" /\ TakesFds)
Reader(s, d) == IF s = "near" THEN NearReads(d) \/ NearCancels(d)
                              ELSE FarReads(d) \/ FarCancels(d)
Writer(s, d) == \/ s = "near" /\ NearWrites(d)
                \/ s = "far" /\ (FarWrites(d) \/ FarHangsUp(d))
                \/ TakesClose(s, d) \/ Orphaned(s, d)
Holder(d) == HolderWrites(d) \/ HolderReads(d) \/ HolderShuts(d) \/ HolderCloses(d)

Next ==
  \/ Delegates \/ OpensPumps \/ OpensFail \/ Loses
  \/ \E s \in Sides : Takes(s) \/ Pays(s) \/ Drops(s)
  \/ \E s \in Sides, d \in Streams : Reader(s, d) \/ Writer(s, d)
  \/ \E d \in Streams : Holder(d)

Spec == Init /\ [][Next]_vars

-----------------------------------------------------------------------------
(* Safety.                                                                   *)

OfStreams(S) == [Sides -> [Streams -> S]]

\* The shape of the state: each direction of a stand-in holds one write.
TypeOK ==
  /\ sent \in 0..Len(Dirs) /\ step \in {"idle", "open", "failed"}
  /\ sink \in [Sides -> [IdSpace -> Streams \cup {None}]]
  /\ prog \in [Sides -> [IdSpace -> Streams \cup {None}]]
  /\ rp \in OfStreams({"no", "runs", "ended"}) /\ wp \in OfStreams({"no", "runs", "ended"})
  /\ \A s \in Sides, d \in Streams : inq[s][d] \in Seq({"data", "close"})
  /\ avail \in OfStreams(Nat) /\ owed \in [Sides -> [IdSpace -> Nat]]
  /\ holder \in [Streams -> {"none", "open", "half", "closed", "left"}]
  /\ {toPump, toHolder} \subseteq [Streams -> 0..1]
  /\ {reset, shut, hangup} \subseteq [Streams -> BOOLEAN]
  /\ ended \in [Sides -> BOOLEAN] /\ dropped \in [Sides -> BOOLEAN] /\ lost \in BOOLEAN

\* A later stream of the same id was opened at s, or its opening failed there.
Replaced(s, d) ==
  \E e \in Streams : /\ e > d /\ Id(e) = Id(d)
                     /\ \/ {rp[s][e], wp[s][e]} # {"no"}
                        \/ s = "near" /\ e = sent /\ step = "failed"

\* An id names the pumps of the last stream that took it for as long as these run
\* (and the peer has not closed it), whatever becomes of an earlier stream of
\* that id; and no pump that is gone (Outbound::drop, StreamSink::drop).
TablesExact ==
  \A s \in Sides :
    /\ \A d \in Streams : ~Replaced(s, d) =>
         /\ rp[s][d] = "runs" => prog[s][Id(d)] = d
         /\ wp[s][d] = "runs" => sink[s][Id(d)] = d \/ "close" \in {inq[s][d][k] : k \in DOMAIN inq[s][d]}
    /\ \A i \in IdSpace :
         /\ prog[s][i] # None => rp[s][prog[s][i]] = "runs"
         /\ sink[s][i] # None => wp[s][sink[s][i]] = "runs"

\* Stream data always finds its pump registered, or already gone: at the far end
\* the Fds frame that announces the stream is ahead of all its data (the comments
\* on start_sender_pumps and in reader_task).
NeverTooEarly ==
  \A s \in Sides : ~ended[s] => \A k \in DOMAIN frames[s] :
    LET f == frames[s][k] IN
      f.kind = "data" =>
        \/ wp[s][f.of] # "no" \/ (s = "near" /\ step = "failed")
        \/ s = "far" /\ \E j \in 1..k - 1 : frames[s][j] = Frame("fds", f.of, 0)

\* Each stand-in holds a socket pair, and no more of them than MAX_LIVE_STREAMS
\* are open at once, whichever pumps they have left.
StandInsBounded == Cardinality(Slots) <= plan.live

\* A holder that shut down what it writes still gets what the peer sends, to its
\* end (the comment in async_reader).
HalfClosedReads ==
  \A d \in Streams :
    HasDir(d, "both") /\ wp["far"][d] = "ended" /\ holder[d] \in {"open", "half"} =>
      shut[d] \/ dropped["far"] \/ Replaced("far", d)

\* The credit of an id that s has spent and not got back: its frames on their way
\* and in the queues of their pumps, what is owed for those that found none, and
\* the grants on their way.
Carries(queue, kind, i) ==
  Total([k \in DOMAIN queue |->
           IF queue[k].kind = kind /\ Id(queue[k].of) = i THEN queue[k].n ELSE 0])

Unwritten(s, i) ==
  Total([d \in Streams |->
           IF Id(d) = i THEN Cardinality({k \in DOMAIN inq[s][d] : inq[s][d][k] = "data"})
           ELSE 0])

Spent(s, i) ==
  LET o == Other(s) IN
    Carries(frames[o], "data", i) + Unwritten(o, i) + owed[o][i]
    + Carries(frames[s], "window", i)

\* The ids under which s sends, if all goes on as planned.
SenderIds(s) ==
  {Id(d) : d \in {d \in Streams : IF s = "near" THEN Reads(d) ELSE Writes(d)}}

\* While the other end reads the channel, no credit of a sender is lost, whatever
\* becomes of the pump at that end and of earlier streams of the id, unless there
\* are more ids than may owe; and none is made, unless the id is another's too.
CreditKept ==
  \A s \in Sides, d \in Streams :
    /\ rp[s][d] = "runs" /\ ~Replaced(s, d) /\ ~ended[Other(s)] /\ ~lost
    /\ Cardinality(SenderIds(s)) <= MaxOwed
    => LET all == avail[s][d] + Spent(s, Id(d)) IN
         /\ all >= Window
         /\ (\A e \in DOMAIN Dirs : Id(e) = Id(d) => e = d) => all = Window

-----------------------------------------------------------------------------
(* Tasks run. Who holds a stand-in reads it, and does nothing else that it    *)
(* need not do; nor does what the near end pumps ever have to be readable.    *)
Fairness ==
  /\ WF_vars(OpensPumps)
  /\ \A s \in Sides : WF_vars(Takes(s)) /\ WF_vars(Pays(s))
  /\ \A d \in Streams :
       /\ WF_vars(NearCancels(d)) /\ WF_vars(Writer("near", d))
       /\ WF_vars(Reader("far", d)) /\ WF_vars(Writer("far", d))
       /\ WF_vars(HolderReads(d))

FairSpec == Spec /\ Fairness

\* A stand-in that its holder closes at once, with nothing unread, frees its
\* socket and its place among the live streams, while the channel lives.
CleanCloseFrees ==
  \A d \in Streams :
    holder[d] = "closed" ~> d \notin Slots \/ Replaced("far", d) \/ ended["far"]

\* What the comment on async_writer says of every close: a stream nobody holds
\* frees its socket, while the channel lives.
ClosedFrees ==
  \A d \in Streams :
    holder[d] \in {"closed", "left"} ~>
      d \notin Slots \/ Replaced("far", d) \/ ended["far"]

\* Flow::close releases the senders that wait for credit, because no grant will
\* come: all of them whose id no later stream took.
SendersReleased ==
  \A s \in Sides :
    ended[s] ~> \A d \in Streams :
      rp[s][d] = "runs" /\ avail[s][d] = 0 => Replaced(s, d)

\* Who reads a stand-in that is only read finds its end once the transport was
\* dropped, because its pump ends with the StreamMap. The end of the channel alone
\* does not do that.
DropReachesHolder ==
  dropped["far"] ~> \A d \in Slots : HasDir(d, "read") => ~Opened(d)
=============================================================================
