-------------------------- MODULE MuxStreamsProofs --------------------------
(***************************************************************************)
(* The theorems of MuxStreams, for every list of descriptors, number of ids, *)
(* limit on live streams, window and MAX_OWED_STREAMS: what the tables of    *)
(* the two ends say of the pumps, that no data comes before its stream, that *)
(* the stand-ins are bounded, and that a half-closed one is read to its end. *)
(* They rest on one inductive invariant, which says in which order the pumps *)
(* of the two ends and the Fds frames between them come.                     *)
(* And that no credit of a sender is lost, for which every step is shown to  *)
(* keep the sum of what is available and where the rest of it is.            *)
(***************************************************************************)
EXTENDS MuxStreams, Totals, FiniteSetTheorems, TLAPS

-----------------------------------------------------------------------------
(* The inductive invariant.                                                  *)

\* The pumps of a stream were started at s.
Started(s, d) == rp[s][d] # "no" \/ wp[s][d] # "no"

\* Pumps are of streams that were delegated, in the directions these have. The
\* near end's are opened before the next stream is delegated.
PumpsFit ==
  /\ \A s \in Sides, d \in Streams : Started(s, d) => d <= sent
  /\ \A d \in Streams :
       /\ rp["near"][d] # "no" \/ wp["far"][d] # "no" => Reads(d)
       /\ wp["near"][d] # "no" \/ rp["far"][d] # "no" => Writes(d)
       /\ Opened(d) /\ Writes(d) => wp["near"][d] # "no"
       /\ step = "open" /\ d = sent => ~Started("near", d)

\* The far end's are started with the stand-in, and only who let go of it can
\* have been noticed to.
StandInsFit ==
  \A d \in Streams :
    /\ Started("far", d) => holder[d] # "none"
    /\ holder[d] # "none" => d <= sent
    /\ hangup[d] => holder[d] \in {"closed", "left"}

\* The Fds frames still to be read are of later streams than all that have
\* stand-ins, in the order of the streams.
FdsInOrder ==
  LET q == frames["far"] IN
    \A k \in 1..Len(q) : q[k].kind = "fds" =>
      /\ q[k].of <= sent
      /\ \A e \in Streams : holder[e] # "none" => e < q[k].of
      /\ \A j \in 1..k - 1 : q[j].kind = "fds" => q[j].of < q[k].of

\* A stream the far end has a writer for has it, or will when it gets to the
\* frame, unless it gets to no frame any more.
Announced(d) ==
  \/ ended["far"] \/ lost \/ wp["far"][d] # "no"
  \/ \E k \in 1..Len(frames["far"]) : frames["far"][k] = Frame("fds", d, 0)

AllAnnounced == \A d \in Streams : d <= sent /\ Reads(d) => Announced(d)

\* The frame at k of the queue to the far end is not read before its stream, which
\* is one that the near end reads, has a writer.
InTime(k) ==
  LET q == frames["far"] IN
    q[k].kind = "data" =>
      /\ Reads(q[k].of)
      /\ \/ wp["far"][q[k].of] # "no"
         \/ \E j \in 1..k - 1 : q[j] = Frame("fds", q[k].of, 0)

DataInTime ==
  /\ ~ended["far"] => \A k \in 1..Len(frames["far"]) : InTime(k)
  /\ \A k \in 1..Len(frames["near"]) :
       frames["near"][k].kind = "data" => wp["near"][frames["near"][k].of] # "no"
  /\ \A d \in Streams : toPump[d] > 0 => wp["near"][d] # "no"

\* An entry of a table is of a pump that runs, under its own id.
EntriesRun ==
  \A s \in Sides, i \in IdSpace :
    /\ prog[s][i] # None => rp[s][prog[s][i]] = "runs" /\ Id(prog[s][i]) = i
    /\ sink[s][i] # None => wp[s][sink[s][i]] = "runs" /\ Id(sink[s][i]) = i

\* And a pump that runs has its entry, until a later stream takes the id or the
\* peer's close is in its queue.
HasClose(q) == \E k \in 1..Len(q) : q[k] = "close"

Listed(s, d) ==
  \/ Replaced(s, d)
  \/ /\ rp[s][d] = "runs" => prog[s][Id(d)] = d
     /\ wp[s][d] = "runs" => sink[s][Id(d)] = d \/ HasClose(inq[s][d])

AllListed == \A s \in Sides, d \in Streams : Listed(s, d)

\* The parts of the type invariant that a step disturbs together.
Frames == [kind : {"fds", "data", "close", "window"}, of : Streams, n : Nat]

PlanTypes ==
  /\ plan \in Plans /\ sent \in 0..Len(Dirs) /\ step \in {"idle", "open", "failed"}
  /\ step # "idle" => sent > 0

FrameTypes == frames \in [Sides -> Seq(Frames)]

TableTypes ==
  /\ sink \in [Sides -> [IdSpace -> Streams \cup {None}]]
  /\ prog \in [Sides -> [IdSpace -> Streams \cup {None}]]

PumpTypes ==
  /\ rp \in OfStreams({"no", "runs", "ended"}) /\ wp \in OfStreams({"no", "runs", "ended"})

QueueTypes == inq \in OfStreams(Seq({"data", "close"}))

\* What is owed is of the id of a stream.
CreditTypes ==
  /\ avail \in OfStreams(Nat) /\ owed \in [Sides -> [IdSpace -> Nat]]
  /\ \A s \in Sides, i \in IdSpace : owed[s][i] > 0 => \E d \in Streams : Id(d) = i

HolderTypes ==
  /\ holder \in [Streams -> {"none", "open", "half", "closed", "left"}]
  /\ toPump \in [Streams -> 0..1] /\ toHolder \in [Streams -> 0..1]
  /\ reset \in [Streams -> BOOLEAN] /\ shut \in [Streams -> BOOLEAN]
  /\ hangup \in [Streams -> BOOLEAN]

EndTypes ==
  /\ ended \in [Sides -> BOOLEAN] /\ dropped \in [Sides -> BOOLEAN] /\ lost \in BOOLEAN
  /\ \A s \in Sides : dropped[s] => ended[s]

Inv ==
  /\ PlanTypes /\ FrameTypes /\ TableTypes /\ PumpTypes /\ QueueTypes /\ CreditTypes
  /\ HolderTypes /\ EndTypes
  /\ PumpsFit /\ StandInsFit /\ FdsInOrder /\ AllAnnounced /\ DataInTime
  /\ EntriesRun /\ AllListed /\ StandInsBounded /\ HalfClosedReads

-----------------------------------------------------------------------------
(* What does not depend on the step.                                         *)

\* The limits of a channel, and its ids.
LEMMA PlanFacts ==
  ASSUME PlanTypes
  PROVE  /\ Most \in Nat /\ sent \in Nat /\ sent <= Len(Dirs) /\ Len(Dirs) \in Nat
         /\ Len(Dirs) <= Most /\ plan.live \in Nat /\ plan.ids \in Nat \ {0}
         /\ \A d \in Streams : d \in Nat /\ d >= 1 /\ Id(d) \in IdSpace
         /\ sent > 0 => sent \in Streams
         /\ sent < Len(Dirs) => sent + 1 \in Streams
  <1>1. plan \in [dirs: Seq({"read", "write", "both"}), ids: Nat \ {0}, live: Nat \ {0},
                  fails: BOOLEAN]
    BY StreamsAssumption DEF StreamsAssumption, PlanTypes
  <1>2. Most \in Nat /\ Len(Dirs) <= Most
    BY StreamsAssumption DEF StreamsAssumption, PlanTypes, Dirs
  <1>3. Dirs \in Seq({"read", "write", "both"}) /\ Len(Dirs) \in Nat
    BY <1>1 DEF Dirs
  <1>4. sent \in Nat /\ sent <= Len(Dirs)
    BY <1>3 DEF PlanTypes
  <1>5. ASSUME NEW d \in Streams PROVE d \in Nat /\ d >= 1 /\ Id(d) \in IdSpace
    BY <1>1, <1>2 DEF Id, IdSpace, Streams
  <1> QED BY <1>1, <1>2, <1>3, <1>4, <1>5 DEF Streams

\* A channel is what it is from its beginning on.
LEMMA Fixed ==
  ASSUME plan' = plan
  PROVE  /\ IdSpace' = IdSpace /\ Dirs' = Dirs
         /\ \A d : Id(d)' = Id(d) /\ Reads(d)' = Reads(d) /\ Writes(d)' = Writes(d)
         /\ \A d, dir : HasDir(d, dir)' = HasDir(d, dir)
  BY DEF IdSpace, Id, Reads, Writes, HasDir, Dirs

LEMMA SlotsFinite ==
  ASSUME PlanTypes
  PROVE  IsFiniteSet(Slots) /\ Cardinality(Slots) \in Nat
  <1>1. IsFiniteSet(Streams)
    BY PlanFacts, FS_Interval DEF Streams
  <1> QED BY <1>1, FS_Subset, FS_CardinalityType DEF Slots

\* A part of the invariant is kept by a step that leaves its variables alone.
LEMMA Undisturbed ==
  ASSUME Inv
  PROVE  /\ UNCHANGED delegation => PlanTypes'
         /\ UNCHANGED frames => FrameTypes'
         /\ UNCHANGED <<plan, tables>> => TableTypes'
         /\ UNCHANGED <<rp, wp>> => PumpTypes'
         /\ UNCHANGED inq => QueueTypes'
         /\ UNCHANGED <<plan, credit>> => CreditTypes'
         /\ UNCHANGED standins => HolderTypes'
         /\ UNCHANGED ends => EndTypes'
         /\ UNCHANGED <<delegation, rp, wp>> => PumpsFit'
         /\ UNCHANGED <<sent, rp, wp, holder, hangup>> => StandInsFit'
         /\ UNCHANGED <<frames, sent, holder>> => FdsInOrder'
         /\ UNCHANGED <<plan, sent, ended, lost, wp, frames>> => AllAnnounced'
         /\ UNCHANGED <<plan, ended, wp, frames, toPump>> => DataInTime'
         /\ UNCHANGED <<plan, tables, rp, wp>> => EntriesRun'
         /\ UNCHANGED <<delegation, tables, pumps>> => AllListed'
         /\ UNCHANGED <<plan, rp, wp>> => StandInsBounded'
         /\ UNCHANGED <<delegation, rp, wp, holder, shut, dropped>> => HalfClosedReads'
  <1> USE DEF delegation, tables, pumps, credit, standins, ends
  <1>1. UNCHANGED delegation => PlanTypes'
    BY DEF Inv, PlanTypes, Dirs
  <1>2. UNCHANGED frames => FrameTypes'
    BY DEF Inv, FrameTypes
  <1>3. UNCHANGED <<plan, tables>> => TableTypes'
    BY DEF Inv, TableTypes, IdSpace
  <1>4. UNCHANGED <<rp, wp>> => PumpTypes'
    BY DEF Inv, PumpTypes
  <1>5. UNCHANGED inq => QueueTypes'
    BY DEF Inv, QueueTypes
  <1>6. UNCHANGED <<plan, credit>> => CreditTypes'
    BY DEF Inv, CreditTypes, IdSpace, Id
  <1>7. UNCHANGED standins => HolderTypes'
    BY DEF Inv, HolderTypes
  <1>8. UNCHANGED ends => EndTypes'
    BY DEF Inv, EndTypes
  <1>9. UNCHANGED <<delegation, rp, wp>> => PumpsFit'
    BY DEF Inv, PumpsFit, Started, Opened, Reads, Writes, HasDir, Dirs
  <1>10. UNCHANGED <<sent, rp, wp, holder, hangup>> => StandInsFit'
    BY DEF Inv, StandInsFit, Started
  <1>11. UNCHANGED <<frames, sent, holder>> => FdsInOrder'
    BY DEF Inv, FdsInOrder
  <1>12. UNCHANGED <<plan, sent, ended, lost, wp, frames>> => AllAnnounced'
    BY DEF Inv, AllAnnounced, Announced, Reads, HasDir, Dirs
  <1>13. UNCHANGED <<plan, ended, wp, frames, toPump>> => DataInTime'
    BY Fixed DEF Inv, DataInTime, InTime
  <1>14. UNCHANGED <<plan, tables, rp, wp>> => EntriesRun'
    BY DEF Inv, EntriesRun, IdSpace, Id
  <1>15. UNCHANGED <<delegation, tables, pumps>> => AllListed'
    BY DEF Inv, AllListed, Listed, Replaced, Id
  <1>16. UNCHANGED <<plan, rp, wp>> => StandInsBounded'
    BY DEF Inv, StandInsBounded, Slots
  <1>17. UNCHANGED <<delegation, rp, wp, holder, shut, dropped>> => HalfClosedReads'
    BY DEF Inv, HalfClosedReads, HasDir, Dirs, Replaced, Id
  <1> QED BY <1>1, <1>2, <1>3, <1>4, <1>5, <1>6, <1>7, <1>8, <1>9, <1>10, <1>11, <1>12,
             <1>13, <1>14, <1>15, <1>16, <1>17

-----------------------------------------------------------------------------
(* Steps after which no pump runs that did not run before.                   *)

PumpsEnd ==
  \A s \in Sides, d \in Streams :
    /\ rp'[s][d] = rp[s][d] \/ (rp[s][d] = "runs" /\ rp'[s][d] = "ended")
    /\ wp'[s][d] = wp[s][d] \/ (wp[s][d] = "runs" /\ wp'[s][d] = "ended")

\* The entry of a pump goes with it, or with the close that its queue takes.
EntriesGo ==
  \A s \in Sides, i \in IdSpace :
    /\ prog'[s][i] = IF prog[s][i] # None /\ rp'[s][prog[s][i]] = "ended"
                     THEN None ELSE prog[s][i]
    /\ \/ sink'[s][i] = IF sink[s][i] # None /\ wp'[s][sink[s][i]] = "ended"
                        THEN None ELSE sink[s][i]
       \/ sink'[s][i] = None /\ HasClose(inq'[s][sink[s][i]])

ClosesStay ==
  \A s \in Sides, d \in Streams :
    wp'[s][d] = "runs" /\ HasClose(inq[s][d]) => HasClose(inq'[s][d])

\* Once a later stream took the id of a stream, it did.
LEMMA ReplacedStays ==
  ASSUME PlanTypes, plan' = plan, step = "failed" => UNCHANGED <<sent, step>>,
         \A s \in Sides, d \in Streams : Started(s, d) => Started(s, d)'
  PROVE  \A s \in Sides, d \in Streams : Replaced(s, d) => Replaced(s, d)'
  <1> SUFFICES ASSUME NEW s \in Sides, NEW d \in Streams, Replaced(s, d)
               PROVE  Replaced(s, d)'
    OBVIOUS
  <1>1. PICK e \in Streams : /\ e > d /\ Id(e) = Id(d)
                             /\ Started(s, e) \/ (s = "near" /\ e = sent /\ step = "failed")
    BY DEF Replaced, Started
  <1>2. Id(e)' = Id(d)'
    BY <1>1, Fixed
  <1>3. Started(s, e)' \/ (s = "near" /\ e = sent' /\ step' = "failed")
    BY <1>1, <1>2
  <1> QED BY <1>1, <1>2, <1>3 DEF Replaced, Started

LEMMA PumpsEndStarted ==
  ASSUME PumpsEnd
  PROVE  \A s \in Sides, d \in Streams :
           /\ Started(s, d) = Started(s, d)'
           /\ (rp[s][d] # "no") = (rp'[s][d] # "no") /\ (wp[s][d] # "no") = (wp'[s][d] # "no")
  BY DEF PumpsEnd, Started

\* What ends leaves the delegations and the stand-ins as they were.
LEMMA EndingFits ==
  ASSUME Inv, PumpsEnd, UNCHANGED delegation
  PROVE  PumpsFit' /\ StandInsBounded'
  <1>1. PumpsFit'
    BY PumpsEndStarted, Fixed DEF Inv, PumpsFit, Opened, delegation, Sides
  <1>2. Slots' \subseteq Slots
    BY DEF Slots, PumpsEnd, Sides
  <1>3. StandInsBounded'
    <2>1. Cardinality(Slots') <= Cardinality(Slots) /\ Cardinality(Slots') \in Nat
      BY <1>2, SlotsFinite, FS_Subset, FS_CardinalityType DEF Inv
    <2>2. Cardinality(Slots) <= plan.live /\ plan.live \in Nat /\ plan' = plan
          /\ Cardinality(Slots) \in Nat
      BY PlanFacts, SlotsFinite DEF Inv, StandInsBounded, delegation
    <2> QED BY <2>1, <2>2 DEF StandInsBounded
  <1> QED BY <1>1, <1>3

\* The tables stay exact when the entries go with their pumps.
LEMMA EndingListed ==
  ASSUME Inv, PumpsEnd, EntriesGo, ClosesStay, UNCHANGED delegation
  PROVE  EntriesRun' /\ AllListed'
  <1>fixed. IdSpace' = IdSpace /\ \A d : Id(d)' = Id(d)
    BY Fixed DEF delegation
  <1>1. EntriesRun'
    <2> SUFFICES ASSUME NEW s \in Sides, NEW i \in IdSpace
                 PROVE  /\ prog'[s][i] # None =>
                             rp'[s][prog'[s][i]] = "runs" /\ Id(prog'[s][i]) = i
                        /\ sink'[s][i] # None =>
                             wp'[s][sink'[s][i]] = "runs" /\ Id(sink'[s][i]) = i
      BY <1>fixed DEF EntriesRun
    <2>1. /\ prog[s][i] # None =>
               prog[s][i] \in Streams /\ rp[s][prog[s][i]] = "runs" /\ Id(prog[s][i]) = i
          /\ sink[s][i] # None =>
               sink[s][i] \in Streams /\ wp[s][sink[s][i]] = "runs" /\ Id(sink[s][i]) = i
      BY DEF Inv, EntriesRun, TableTypes
    <2> QED BY <2>1 DEF EntriesGo, PumpsEnd
  <1>2. ASSUME NEW s \in Sides, NEW d \in Streams PROVE Listed(s, d)'
    <2>1. CASE Replaced(s, d)
      BY <2>1, ReplacedStays, PumpsEndStarted DEF Listed, Inv, delegation
    <2>2. CASE ~Replaced(s, d)
      <3>1. /\ rp[s][d] = "runs" => prog[s][Id(d)] = d
            /\ wp[s][d] = "runs" => sink[s][Id(d)] = d \/ HasClose(inq[s][d])
        BY <2>2 DEF Inv, AllListed, Listed
      <3>2. Id(d) \in IdSpace /\ d # None
        BY PlanFacts DEF Inv, None
      <3>3. rp'[s][d] = "runs" => prog'[s][Id(d)] = d
        BY <3>1, <3>2 DEF PumpsEnd, EntriesGo
      <3>4. wp'[s][d] = "runs" => sink'[s][Id(d)] = d \/ HasClose(inq'[s][d])
        BY <3>1, <3>2 DEF PumpsEnd, EntriesGo, ClosesStay
      <3> QED BY <1>fixed, <3>3, <3>4 DEF Listed
    <2> QED BY <2>1, <2>2
  <1> QED BY <1>1, <1>2 DEF AllListed

\* A half-closed stand-in is still written to, unless its writer ended as it may.
LEMMA EndingReads ==
  ASSUME Inv, PumpsEnd, UNCHANGED delegation,
         \A d \in Streams : holder'[d] \in {"open", "half"} => holder[d] \in {"open", "half"},
         \A d \in Streams : shut[d] => shut'[d],
         dropped["far"] => dropped'["far"],
         \A d \in Streams :
           HasDir(d, "both") /\ wp["far"][d] = "runs" /\ wp'["far"][d] = "ended"
             /\ holder[d] \in {"open", "half"} =>
             shut'[d] \/ dropped["far"] \/ Replaced("far", d)
  PROVE  HalfClosedReads'
  <1> SUFFICES ASSUME NEW d \in Streams, HasDir(d, "both")', wp'["far"][d] = "ended",
                      holder'[d] \in {"open", "half"}
               PROVE  shut'[d] \/ dropped'["far"] \/ Replaced("far", d)'
    BY DEF HalfClosedReads
  <1>1. HasDir(d, "both") /\ holder[d] \in {"open", "half"}
    BY Fixed DEF delegation
  <1>2. shut'[d] \/ dropped["far"] \/ Replaced("far", d)
    BY <1>1 DEF PumpsEnd, Inv, HalfClosedReads, Sides
  <1> QED BY <1>2, ReplacedStays, PumpsEndStarted DEF Inv, Sides, delegation

\* A reader pump, or a writer pump, and its entry.
LEMMA ReaderGone ==
  ASSUME Inv, NEW s \in Sides, NEW d \in Streams, rp[s][d] = "runs", ReaderEnds(s, d),
         UNCHANGED <<delegation, sink, wp, inq>>
  PROVE  PumpTypes' /\ TableTypes' /\ PumpsEnd /\ EntriesGo /\ ClosesStay
  <1>types. PumpTypes /\ TableTypes /\ PlanTypes /\ EntriesRun
    BY DEF Inv
  <1>id. Id(d) \in IdSpace /\ IdSpace' = IdSpace
    BY <1>types, PlanFacts, Fixed DEF delegation
  <1>rp. \A t \in Sides, e \in Streams :
           rp'[t][e] = IF t = s /\ e = d THEN "ended" ELSE rp[t][e]
    BY <1>types DEF ReaderEnds, PumpTypes, OfStreams
  <1>prog. \A t \in Sides, i \in IdSpace :
             prog'[t][i] = IF t = s /\ i = Id(d) /\ prog[t][i] = d THEN None ELSE prog[t][i]
    BY <1>types DEF ReaderEnds, Unlisted, TableTypes
  <1>1. PumpTypes'
    BY <1>types DEF ReaderEnds, PumpTypes, OfStreams
  <1>2. TableTypes'
    <2>1. prog' \in [Sides -> [IdSpace -> Streams \cup {None}]]
      BY <1>types DEF ReaderEnds, Unlisted, TableTypes
    <2> QED BY <2>1, <1>types, <1>id DEF TableTypes
  <1>3. PumpsEnd
    BY <1>rp DEF PumpsEnd
  <1>4. EntriesGo
    <2> SUFFICES ASSUME NEW t \in Sides, NEW i \in IdSpace
                 PROVE  /\ prog'[t][i] = IF prog[t][i] # None /\ rp'[t][prog[t][i]] = "ended"
                                         THEN None ELSE prog[t][i]
                        /\ sink'[t][i] = IF sink[t][i] # None /\ wp'[t][sink[t][i]] = "ended"
                                         THEN None ELSE sink[t][i]
      BY DEF EntriesGo
    <2>1. /\ prog[t][i] # None =>
               prog[t][i] \in Streams /\ rp[t][prog[t][i]] = "runs" /\ Id(prog[t][i]) = i
          /\ sink[t][i] # None => sink[t][i] \in Streams /\ wp[t][sink[t][i]] = "runs"
      BY <1>types DEF EntriesRun, TableTypes
    <2>2. sink'[t][i] = sink[t][i] /\ wp' = wp
      OBVIOUS
    <2>3. d # None
      BY <1>types, PlanFacts DEF None
    <2> QED BY <1>rp, <1>prog, <2>1, <2>2, <2>3
  <1>5. ClosesStay
    BY DEF ClosesStay
  <1> QED BY <1>1, <1>2, <1>3, <1>4, <1>5

LEMMA WriterGone ==
  ASSUME Inv, NEW s \in Sides, NEW d \in Streams, wp[s][d] = "runs", WriterEnds(s, d),
         inq' = inq \/ inq' = [inq EXCEPT ![s][d] = <<>>],
         UNCHANGED <<delegation, prog, rp>>
  PROVE  PumpTypes' /\ TableTypes' /\ QueueTypes' /\ PumpsEnd /\ EntriesGo /\ ClosesStay
  <1>types. PumpTypes /\ TableTypes /\ PlanTypes /\ EntriesRun /\ QueueTypes
    BY DEF Inv
  <1>id. Id(d) \in IdSpace /\ IdSpace' = IdSpace
    BY <1>types, PlanFacts, Fixed DEF delegation
  <1>wp. \A t \in Sides, e \in Streams :
           wp'[t][e] = IF t = s /\ e = d THEN "ended" ELSE wp[t][e]
    BY <1>types DEF WriterEnds, PumpTypes, OfStreams
  <1>sink. \A t \in Sides, i \in IdSpace :
             sink'[t][i] = IF t = s /\ i = Id(d) /\ sink[t][i] = d THEN None ELSE sink[t][i]
    BY <1>types DEF WriterEnds, Unlisted, TableTypes
  <1>inq. \A t \in Sides, e \in Streams : ~(t = s /\ e = d) => inq'[t][e] = inq[t][e]
    BY <1>types DEF QueueTypes, OfStreams
  <1>1. PumpTypes'
    BY <1>types DEF WriterEnds, PumpTypes, OfStreams
  <1>2. TableTypes'
    <2>1. sink' \in [Sides -> [IdSpace -> Streams \cup {None}]]
      BY <1>types DEF WriterEnds, Unlisted, TableTypes
    <2> QED BY <2>1, <1>types, <1>id DEF TableTypes
  <1>3. PumpsEnd
    BY <1>wp DEF PumpsEnd
  <1>4. EntriesGo
    <2> SUFFICES ASSUME NEW t \in Sides, NEW i \in IdSpace
                 PROVE  /\ prog'[t][i] = IF prog[t][i] # None /\ rp'[t][prog[t][i]] = "ended"
                                         THEN None ELSE prog[t][i]
                        /\ sink'[t][i] = IF sink[t][i] # None /\ wp'[t][sink[t][i]] = "ended"
                                         THEN None ELSE sink[t][i]
      BY DEF EntriesGo
    <2>1. /\ prog[t][i] # None => prog[t][i] \in Streams /\ rp[t][prog[t][i]] = "runs"
          /\ sink[t][i] # None =>
               sink[t][i] \in Streams /\ wp[t][sink[t][i]] = "runs" /\ Id(sink[t][i]) = i
      BY <1>types DEF EntriesRun, TableTypes
    <2>2. prog'[t][i] = prog[t][i] /\ rp' = rp
      OBVIOUS
    <2>3. d # None
      BY <1>types, PlanFacts DEF None
    <2> QED BY <1>wp, <1>sink, <2>1, <2>2, <2>3
  <1>5. ClosesStay
    BY <1>wp, <1>inq DEF ClosesStay
  <1>6. QueueTypes'
    <2>1. <<>> \in Seq({"data", "close"})
      OBVIOUS
    <2>2. [inq EXCEPT ![s][d] = <<>>] \in OfStreams(Seq({"data", "close"}))
      BY <2>1, <1>types DEF QueueTypes, OfStreams
    <2> QED BY <2>2, <1>types DEF QueueTypes
  <1> QED BY <1>1, <1>2, <1>3, <1>4, <1>5, <1>6

-----------------------------------------------------------------------------
(* Frames that are queued and read.                                          *)

\* The parts that are about the frames of the channel.
FramesFit == FrameTypes /\ FdsInOrder /\ AllAnnounced /\ DataInTime

\* Pumps that were started stay so, and the reader task of the far end ends once.
Forward ==
  /\ \A s \in Sides, d \in Streams : wp[s][d] # "no" => wp'[s][d] # "no"
  /\ ended["far"] => ended'["far"]
  /\ \A d \in Streams : toPump'[d] > 0 => wp["near"][d] # "no"

\* A frame of a pump that has the right to queue it.
Fitting(s, f) ==
  /\ f \in Frames /\ f.kind # "fds"
  /\ f.kind = "data" => IF s = "near" THEN f.of <= sent /\ Reads(f.of)
                                      ELSE wp["near"][f.of] # "no"

LEMMA AppendFacts ==
  ASSUME NEW S, NEW q \in Seq(S), NEW x \in S
  PROVE  /\ Append(q, x) \in Seq(S) /\ Len(Append(q, x)) = Len(q) + 1 /\ Len(q) \in Nat
         /\ \A k \in 1..Len(q) : Append(q, x)[k] = q[k]
         /\ Append(q, x)[Len(q) + 1] = x
  OBVIOUS

LEMMA TailFacts ==
  ASSUME NEW S, NEW q \in Seq(S), q # <<>>
  PROVE  /\ Tail(q) \in Seq(S) /\ Head(q) \in S /\ Head(q) = q[1] /\ Len(q) \in Nat /\ Len(q) > 0
         /\ Len(Tail(q)) = Len(q) - 1
         /\ \A k \in 1..Len(Tail(q)) : Tail(q)[k] = q[k + 1]
  OBVIOUS

LEMMA QueuesOf ==
  ASSUME Inv
  PROVE  \A s \in Sides :
           /\ frames[s] \in Seq(Frames)
           /\ \A k \in 1..Len(frames[s]) : frames[s][k] \in Frames /\ frames[s][k].of \in Streams
  <1> SUFFICES ASSUME NEW s \in Sides, NEW k \in 1..Len(frames[s])
               PROVE  frames[s][k] \in Frames /\ frames[s][k].of \in Streams
    BY DEF Inv, FrameTypes
  <1>1. frames[s] \in Seq(Frames)
    BY DEF Inv, FrameTypes
  <1>2. frames[s][k] \in Frames
    BY <1>1
  <1> QED BY <1>2 DEF Frames

LEMMA FramesStay ==
  ASSUME Inv, Forward, UNCHANGED <<delegation, frames, lost>>,
         \A d \in Streams : holder'[d] # "none" => holder[d] # "none"
  PROVE  FramesFit'
  <1>1. FrameTypes' /\ FdsInOrder'
    BY DEF Inv, FrameTypes, FdsInOrder, delegation
  <1>2. AllAnnounced'
    BY Fixed DEF Inv, AllAnnounced, Announced, Forward, delegation, Sides
  <1>3. DataInTime'
    BY QueuesOf, Fixed DEF Inv, DataInTime, InTime, Forward, delegation, Sides
  <1> QED BY <1>1, <1>2, <1>3 DEF FramesFit

LEMMA FramesQueued ==
  ASSUME Inv, Forward, NEW s \in Sides, NEW f, Fitting(s, f), Queues(s, f),
         UNCHANGED <<delegation, lost>>,
         \A d \in Streams : holder'[d] # "none" => holder[d] # "none"
  PROVE  FramesFit'
  <1>1. CASE frames' = frames
    BY <1>1, FramesStay
  <1>2. CASE s = "near" /\ ~Gone("near") /\ frames' = [frames EXCEPT !["far"] = Append(@, f)]
    <2> DEFINE q == frames["far"]
               r == Append(q, f)
    <2>1. /\ q \in Seq(Frames) /\ f \in Frames /\ frames'["far"] = r
          /\ frames'["near"] = frames["near"]
      BY <1>2 DEF Inv, FrameTypes, Sides, Fitting
    <2>2. /\ r \in Seq(Frames) /\ Len(r) = Len(q) + 1 /\ Len(q) \in Nat
          /\ \A k \in 1..Len(q) : r[k] = q[k]
          /\ r[Len(q) + 1] = f
      BY <2>1, AppendFacts
    <2>3. f.kind # "fds" /\ f.of \in Streams
          /\ (f.kind = "data" => f.of <= sent /\ Reads(f.of))
      BY <1>2 DEF Fitting, Frames
    <2>old. /\ \A k \in 1..Len(q) : q[k].of \in Streams
            /\ \A k \in 1..Len(frames["near"]) : frames["near"][k].of \in Streams
      BY QueuesOf DEF Sides
    <2> HIDE DEF r
    <2>4. FrameTypes'
      BY <1>2, <2>1, <2>2 DEF Inv, FrameTypes, Sides
    <2>5. FdsInOrder'
      <3> SUFFICES ASSUME NEW k \in 1..Len(r), r[k].kind = "fds"
                   PROVE  /\ r[k].of <= sent
                          /\ \A e \in Streams : holder'[e] # "none" => e < r[k].of
                          /\ \A j \in 1..k - 1 : r[j].kind = "fds" => r[j].of < r[k].of
        BY <2>1 DEF FdsInOrder, delegation
      <3>1. k \in 1..Len(q) /\ \A j \in 1..k : r[j] = q[j]
        BY <2>2, <2>3
      <3> QED BY <3>1 DEF Inv, FdsInOrder
    <2>6. AllAnnounced'
      <3> SUFFICES ASSUME NEW d \in Streams, d <= sent, Reads(d)
                   PROVE  \/ ended'["far"] \/ lost \/ wp'["far"][d] # "no"
                          \/ \E k \in 1..Len(r) : r[k] = Frame("fds", d, 0)
        BY <2>1, Fixed DEF AllAnnounced, Announced, delegation
      <3>1. Announced(d)
        BY DEF Inv, AllAnnounced
      <3> QED BY <2>2, <3>1 DEF Announced, Forward, Sides
    <2>7. DataInTime'
      <3>1. ASSUME ~ended'["far"], NEW k \in 1..Len(r), r[k].kind = "data"
            PROVE  /\ Reads(r[k].of)
                   /\ \/ wp'["far"][r[k].of] # "no"
                      \/ \E j \in 1..k - 1 : r[j] = Frame("fds", r[k].of, 0)
        <4>1. ~ended["far"]
          BY <3>1 DEF Forward
        <4>2. CASE k \in 1..Len(q)
          <5>1. InTime(k) /\ q[k].of \in Streams /\ \A j \in 1..k : r[j] = q[j]
            BY <4>1, <4>2, <2>2, <2>old DEF Inv, DataInTime
          <5> QED BY <3>1, <5>1 DEF InTime, Forward, Sides
        <4>3. CASE k = Len(q) + 1
          <5>1. r[k] = f /\ Announced(f.of) /\ ~lost /\ Reads(f.of)
            BY <3>1, <4>3, <2>2, <2>3, <1>2 DEF Inv, AllAnnounced, Gone
          <5>2. CASE wp["far"][f.of] # "no"
            BY <5>1, <5>2, <2>3 DEF Forward, Sides
          <5>3. CASE \E j \in 1..Len(q) : q[j] = Frame("fds", f.of, 0)
            BY <5>1, <5>3, <4>3, <2>2
          <5> QED BY <5>1, <5>2, <5>3, <4>1 DEF Announced
        <4> QED BY <2>2, <4>2, <4>3
      <3>2. \A k \in 1..Len(frames["near"]) :
              frames["near"][k].kind = "data" => wp'["near"][frames["near"][k].of] # "no"
        BY <2>old DEF Inv, DataInTime, Forward, Sides
      <3>3. \A d \in Streams : toPump'[d] > 0 => wp'["near"][d] # "no"
        BY DEF Forward, Sides
      <3> QED BY <2>1, <3>1, <3>2, <3>3, Fixed DEF DataInTime, InTime, delegation
    <2> QED BY <2>4, <2>5, <2>6, <2>7 DEF FramesFit
  <1>3. CASE s = "far" /\ frames' = [frames EXCEPT !["near"] = Append(@, f)]
    <2> DEFINE q == frames["near"]
               r == Append(q, f)
    <2>1. /\ q \in Seq(Frames) /\ f \in Frames /\ frames'["near"] = r
          /\ frames'["far"] = frames["far"]
      BY <1>3 DEF Inv, FrameTypes, Sides, Fitting
    <2>2. /\ r \in Seq(Frames) /\ Len(r) = Len(q) + 1 /\ Len(q) \in Nat
          /\ \A k \in 1..Len(q) : r[k] = q[k]
          /\ r[Len(q) + 1] = f
      BY <2>1, AppendFacts
    <2>3. f.of \in Streams /\ (f.kind = "data" => wp["near"][f.of] # "no")
      BY <1>3 DEF Fitting, Frames
    <2>old. /\ \A k \in 1..Len(q) : q[k].of \in Streams
            /\ \A k \in 1..Len(frames["far"]) : frames["far"][k].of \in Streams
      BY QueuesOf DEF Sides
    <2> HIDE DEF r
    <2>4. FrameTypes'
      BY <1>3, <2>1, <2>2 DEF Inv, FrameTypes, Sides
    <2>5. FdsInOrder' /\ AllAnnounced'
      BY <2>1, Fixed DEF Inv, FdsInOrder, AllAnnounced, Announced, Forward, delegation, Sides
    <2>6. DataInTime'
      <3>1. \A k \in 1..Len(r) : r[k].kind = "data" => wp'["near"][r[k].of] # "no"
        BY <2>2, <2>3, <2>old DEF Inv, DataInTime, Forward, Sides
      <3>2. ~ended'["far"] => \A k \in 1..Len(frames["far"]) : InTime(k)'
        BY <2>1, <2>old, Fixed DEF delegation, Inv, DataInTime, InTime, Forward, Sides
      <3>3. \A d \in Streams : toPump'[d] > 0 => wp'["near"][d] # "no"
        BY DEF Forward, Sides
      <3> QED BY <2>1, <3>1, <3>2, <3>3, Fixed DEF DataInTime, InTime, delegation
    <2> QED BY <2>4, <2>5, <2>6 DEF FramesFit
  <1> QED BY <1>1, <1>2, <1>3 DEF Queues, Other, Sides

\* Reading the first frame, at the far end one that is no Fds frame.
LEMMA FramesRead ==
  ASSUME Inv, Forward, NEW s \in Sides, frames[s] # <<>>, Rest(s),
         s = "far" => Head(frames[s]).kind # "fds",
         UNCHANGED <<delegation, lost>>,
         \A d \in Streams : holder'[d] # "none" => holder[d] # "none"
  PROVE  FramesFit'
  <1> DEFINE q == frames[s]
             r == Tail(q)
  <1>1. q \in Seq(Frames) /\ frames' = [frames EXCEPT ![s] = r]
        /\ frames \in [Sides -> Seq(Frames)]
    BY DEF Rest, Inv, FrameTypes
  <1>2. /\ r \in Seq(Frames) /\ Head(q) = q[1] /\ Len(q) \in Nat /\ Len(q) > 0
        /\ Len(r) = Len(q) - 1 /\ \A k \in 1..Len(r) : r[k] = q[k + 1]
    BY <1>1, TailFacts
  <1>old. /\ \A k \in 1..Len(frames["near"]) : frames["near"][k].of \in Streams
          /\ \A k \in 1..Len(frames["far"]) : frames["far"][k].of \in Streams
    BY QueuesOf DEF Sides
  <1> HIDE DEF r
  <1>3. FrameTypes'
    BY <1>1, <1>2 DEF FrameTypes
  <1>pumps. \A d \in Streams : toPump'[d] > 0 => wp'["near"][d] # "no"
    BY DEF Forward, Sides
  <1>4. CASE s = "near"
    <2>1. frames'["near"] = r /\ frames'["far"] = frames["far"]
      BY <1>1, <1>4 DEF Sides
    <2>2. FdsInOrder' /\ AllAnnounced'
      BY <2>1, Fixed DEF Inv, FdsInOrder, AllAnnounced, Announced, Forward, delegation, Sides
    <2>3. \A k \in 1..Len(r) : r[k].kind = "data" => wp'["near"][r[k].of] # "no"
      <3> SUFFICES ASSUME NEW k \in 1..Len(r), r[k].kind = "data"
                   PROVE  wp'["near"][r[k].of] # "no"
        OBVIOUS
      <3>1. q = frames["near"]
        BY <1>4
      <3>2. k + 1 \in 1..Len(q) /\ r[k] = q[k + 1]
        BY <1>2
      <3>3. q[k + 1].of \in Streams
        BY <1>old, <3>1, <3>2
      <3>4. wp["near"][q[k + 1].of] # "no"
        BY <3>1, <3>2 DEF Inv, DataInTime
      <3> QED BY <3>2, <3>3, <3>4 DEF Forward, Sides
    <2>4. ~ended'["far"] => \A k \in 1..Len(frames["far"]) : InTime(k)'
      BY <2>1, <1>old, Fixed DEF Inv, DataInTime, InTime, Forward, Sides, delegation
    <2>5. DataInTime'
      BY <2>1, <2>3, <2>4, <1>pumps DEF DataInTime
    <2> QED BY <1>3, <2>2, <2>5 DEF FramesFit
  <1>5. CASE s = "far"
    <2>1. frames'["far"] = r /\ frames'["near"] = frames["near"] /\ q = frames["far"]
          /\ q[1].kind # "fds"
      BY <1>1, <1>2, <1>5 DEF Sides
    <2>2. FdsInOrder'
      <3> SUFFICES ASSUME NEW k \in 1..Len(r), r[k].kind = "fds"
                   PROVE  /\ r[k].of <= sent
                          /\ \A e \in Streams : holder'[e] # "none" => e < r[k].of
                          /\ \A j \in 1..k - 1 : r[j].kind = "fds" => r[j].of < r[k].of
        BY <2>1 DEF FdsInOrder, delegation
      <3>1. k + 1 \in 1..Len(q) /\ r[k] = q[k + 1]
            /\ \A j \in 1..k - 1 : r[j] = q[j + 1] /\ j + 1 \in 1..(k + 1) - 1
        <4> HIDE DEF q, r
        <4>1. k + 1 \in 1..Len(q) /\ r[k] = q[k + 1]
          BY <1>2
        <4>2. ASSUME NEW j \in 1..k - 1
              PROVE  r[j] = q[j + 1] /\ j + 1 \in 1..(k + 1) - 1
          <5>1. j \in 1..Len(r) /\ j + 1 \in 1..(k + 1) - 1
            BY <1>2
          <5> QED BY <1>2, <5>1
        <4> QED BY <4>1, <4>2
      <3> QED BY <2>1, <3>1 DEF Inv, FdsInOrder
    <2>3. AllAnnounced'
      <3> SUFFICES ASSUME NEW d \in Streams, d <= sent, Reads(d)
                   PROVE  \/ ended'["far"] \/ lost \/ wp'["far"][d] # "no"
                          \/ \E k \in 1..Len(r) : r[k] = Frame("fds", d, 0)
        BY <2>1, Fixed DEF AllAnnounced, Announced, delegation
      <3>1. Announced(d)
        BY DEF Inv, AllAnnounced
      <3>2. ASSUME NEW k \in 1..Len(q), q[k] = Frame("fds", d, 0)
            PROVE  \E j \in 1..Len(r) : r[j] = Frame("fds", d, 0)
        <4>1. k # 1
          BY <2>1, <3>2 DEF Frame
        <4>2. k - 1 \in 1..Len(r) /\ r[k - 1] = q[k]
          BY <1>2, <4>1
        <4> QED BY <3>2, <4>2
      <3> QED BY <2>1, <3>1, <3>2 DEF Announced, Forward, Sides
    <2>4. ASSUME ~ended'["far"], NEW k \in 1..Len(r), r[k].kind = "data"
          PROVE  /\ Reads(r[k].of)
                 /\ \/ wp'["far"][r[k].of] # "no"
                    \/ \E j \in 1..k - 1 : r[j] = Frame("fds", r[k].of, 0)
      <3>1. k + 1 \in 1..Len(q) /\ r[k] = q[k + 1] /\ r[k].of \in Streams
        <4>1. \A j \in 1..Len(q) : q[j].of \in Streams
          BY <1>old, <2>1
        <4> HIDE DEF q, r
        <4>2. k + 1 \in 1..Len(q) /\ r[k] = q[k + 1]
          BY <1>2
        <4> QED BY <4>1, <4>2
      <3>2. InTime(k + 1)
        BY <2>4, <3>1, <2>1 DEF Inv, DataInTime, Forward
      <3>3. ASSUME NEW j \in 1..(k + 1) - 1, q[j] = Frame("fds", r[k].of, 0)
            PROVE  \E i \in 1..k - 1 : r[i] = Frame("fds", r[k].of, 0)
        <4>1. j # 1
          BY <2>1, <3>3 DEF Frame
        <4> HIDE DEF q, r
        <4>2. j - 1 \in 1..k - 1 /\ j - 1 \in 1..Len(r) /\ (j - 1) + 1 = j
          BY <4>1
        <4>3. r[j - 1] = q[j]
          BY <1>2, <4>2
        <4> QED BY <3>3, <4>2, <4>3
      <3> QED BY <2>1, <2>4, <3>1, <3>2, <3>3 DEF InTime, Forward, Sides
    <2>5. \A k \in 1..Len(frames["near"]) :
            frames["near"][k].kind = "data" => wp'["near"][frames["near"][k].of] # "no"
      BY <1>old DEF Inv, DataInTime, Forward, Sides
    <2>6. DataInTime'
      BY <2>1, <2>4, <2>5, <1>pumps, Fixed DEF DataInTime, InTime, delegation
    <2> QED BY <1>3, <2>2, <2>3, <2>6 DEF FramesFit
  <1> QED BY <1>4, <1>5 DEF Sides

\* A step that ends no pump.
LEMMA NoneEnds ==
  ASSUME Inv, UNCHANGED <<tables, rp, wp>>
  PROVE  PumpsEnd /\ EntriesGo
  <1>1. PumpsEnd
    BY DEF PumpsEnd
  <1>2. EntriesGo
    <2> SUFFICES ASSUME NEW t \in Sides, NEW i \in IdSpace
                 PROVE  /\ prog[t][i] # None => rp[t][prog[t][i]] # "ended"
                        /\ sink[t][i] # None => wp[t][sink[t][i]] # "ended"
      BY DEF EntriesGo, tables
    <2> QED BY DEF Inv, EntriesRun
  <1> QED BY <1>1, <1>2

\* What a reader pump does with what it read.
LEMMA ReaderSends ==
  ASSUME Inv, NEW s \in Sides, NEW d \in Streams, rp[s][d] = "runs",
         \/ SendsData(s, d) /\ (s = "far" => wp["near"][d] # "no")
         \/ SendsClose(s, d),
         UNCHANGED <<delegation, sink, wp, inq>>
  PROVE  /\ PumpTypes' /\ TableTypes' /\ PumpsEnd /\ EntriesGo /\ ClosesStay
         /\ \E f : Fitting(s, f) /\ Queues(s, f)
  <1>1. PumpTypes' /\ TableTypes' /\ PumpsEnd /\ EntriesGo /\ ClosesStay
    <2>1. CASE ReaderEnds(s, d)
      BY <2>1, ReaderGone
    <2>2. CASE UNCHANGED <<rp, prog>>
      <3>1. PumpTypes' /\ TableTypes'
        BY <2>2, Undisturbed DEF tables, delegation
      <3>2. PumpsEnd /\ EntriesGo
        BY <2>2, NoneEnds DEF tables
      <3> QED BY <3>1, <3>2 DEF ClosesStay
    <2> QED BY <2>1, <2>2 DEF SendsData, SendsClose
  <1>2. CASE SendsData(s, d) /\ (s = "far" => wp["near"][d] # "no")
    <2>1. Queues(s, Frame("data", d, 1))
      BY <1>2 DEF SendsData
    <2>2. s = "near" => d <= sent /\ Reads(d)
      BY DEF Inv, PumpsFit, Started, Sides
    <2>3. Fitting(s, Frame("data", d, 1))
      BY <1>2, <2>2 DEF Fitting, Frame, Frames, Sides
    <2> QED BY <1>1, <2>1, <2>3
  <1>3. CASE SendsClose(s, d)
    <2>1. Queues(s, Frame("close", d, 0))
      BY <1>3 DEF SendsClose
    <2>2. Fitting(s, Frame("close", d, 0))
      BY DEF Fitting, Frame, Frames
    <2> QED BY <1>1, <2>1, <2>2
  <1> QED BY <1>2, <1>3

-----------------------------------------------------------------------------
(* The pumps.                                                                *)

\* A pump of the near end reads.
LEMMA NearReadsStep ==
  ASSUME Inv, NEW d \in Streams, NearReads(d)
  PROVE  Inv'
  <1>1. /\ rp["near"][d] = "runs" /\ avail["near"][d] > 0
        /\ SendsData("near", d) \/ SendsClose("near", d)
        /\ UNCHANGED <<delegation, sink, wp, inq, owed, standins, ends>>
    BY DEF NearReads
  <1>2. /\ PumpTypes' /\ TableTypes' /\ PumpsEnd /\ EntriesGo /\ ClosesStay
        /\ \E f : Fitting("near", f) /\ Queues("near", f)
    BY <1>1, ReaderSends DEF Sides
  <1>3. CreditTypes'
    <2>1. avail' \in OfStreams(Nat)
      BY DEF NearReads, SendsData, SendsClose, Inv, CreditTypes, OfStreams, Sides
    <2> QED BY <1>1, <2>1, Fixed DEF Inv, CreditTypes, delegation
  <1>4. Forward
    BY <1>1, <1>2, PumpsEndStarted DEF Forward, ends, standins, Inv, DataInTime, Sides
  <1>5. FramesFit'
    BY <1>1, <1>2, <1>4, FramesQueued DEF standins, ends, Sides
  <1>6. PlanTypes' /\ QueueTypes' /\ HolderTypes' /\ EndTypes'
    BY <1>1, Undisturbed
  <1>7. PumpsFit' /\ StandInsBounded' /\ EntriesRun' /\ AllListed'
    BY <1>1, <1>2, EndingFits, EndingListed
  <1>8. StandInsFit'
    BY <1>1, <1>2, PumpsEndStarted DEF Inv, StandInsFit, standins, delegation, Sides
  <1>9. HalfClosedReads'
    BY <1>1, <1>2, EndingReads DEF standins, ends
  <1> QED BY <1>2, <1>3, <1>5, <1>6, <1>7, <1>8, <1>9 DEF Inv, FramesFit

\* A reader pump that ends without a word.
LEMMA ReaderStops ==
  ASSUME Inv, NEW s \in Sides, NEW d \in Streams, rp[s][d] = "runs", ReaderEnds(s, d),
         UNCHANGED <<delegation, frames, sink, wp, inq, credit, standins, ends>>
  PROVE  Inv'
  <1>1. PumpTypes' /\ TableTypes' /\ PumpsEnd /\ EntriesGo /\ ClosesStay
    BY ReaderGone
  <1>2. PlanTypes' /\ QueueTypes' /\ HolderTypes' /\ EndTypes' /\ CreditTypes' /\ FrameTypes'
        /\ FdsInOrder' /\ AllAnnounced' /\ DataInTime'
    BY Undisturbed DEF delegation, standins, ends
  <1>3. PumpsFit' /\ StandInsBounded' /\ EntriesRun' /\ AllListed'
    BY <1>1, EndingFits, EndingListed
  <1>4. StandInsFit'
    BY <1>1, PumpsEndStarted DEF Inv, StandInsFit, standins, delegation, Sides
  <1>5. HalfClosedReads'
    BY <1>1, EndingReads DEF standins, ends
  <1> QED BY <1>1, <1>2, <1>3, <1>4, <1>5 DEF Inv

LEMMA NearCancelsStep ==
  ASSUME Inv, NEW d \in Streams, NearCancels(d)
  PROVE  Inv'
  BY ReaderStops DEF NearCancels, Sides

LEMMA FarCancelsStep ==
  ASSUME Inv, NEW d \in Streams, FarCancels(d)
  PROVE  Inv'
  BY ReaderStops DEF FarCancels, Sides

\* A pump of the far end reads a stand-in, an error of it, or its end.
LEMMA FarReadsStep ==
  ASSUME Inv, NEW d \in Streams, FarReads(d)
  PROVE  Inv'
  <1>1. /\ rp["far"][d] = "runs" /\ avail["far"][d] > 0
        /\ UNCHANGED <<delegation, sink, wp, inq, owed, holder, toHolder, shut, ends>>
    BY DEF FarReads
  <1>2. /\ toPump' \in [Streams -> 0..1] /\ reset' \in [Streams -> BOOLEAN]
        /\ hangup' \in [Streams -> BOOLEAN]
        /\ \A e \in Streams : /\ toPump'[e] > 0 => toPump[e] > 0
                              /\ hangup'[e] => hangup[e] \/ holder[e] \in {"closed", "left"}
    <2>1. /\ toPump \in [Streams -> 0..1] /\ reset \in [Streams -> BOOLEAN]
          /\ hangup \in [Streams -> BOOLEAN]
      BY DEF Inv, HolderTypes
    <2>2. CASE toPump[d] > 0 /\ toPump' = [toPump EXCEPT ![d] = @ - 1] /\ UNCHANGED <<hangup, reset>>
      BY <2>1, <2>2
    <2>3. CASE reset' = [reset EXCEPT ![d] = FALSE] /\ UNCHANGED <<toPump, hangup>>
      BY <2>1, <2>3
    <2>4. CASE /\ holder[d] \in {"half", "closed", "left"}
               /\ hangup' = [hangup EXCEPT ![d] = @ \/ holder[d] # "half"]
               /\ UNCHANGED <<toPump, reset>>
      BY <2>1, <2>4
    <2> QED BY <2>2, <2>3, <2>4 DEF FarReads
  <1>3. HolderTypes'
    BY <1>1, <1>2 DEF Inv, HolderTypes
  <1>4. CreditTypes'
    <2>1. avail' \in OfStreams(Nat)
      BY DEF FarReads, SendsData, SendsClose, Inv, CreditTypes, OfStreams, Sides
    <2> QED BY <1>1, <2>1, Fixed DEF Inv, CreditTypes, delegation
  <1>5. PumpTypes' /\ TableTypes' /\ PumpsEnd /\ EntriesGo /\ ClosesStay /\ FramesFit'
    <2>1. CASE ReaderEnds("far", d) /\ frames' = frames
      <3>1. PumpTypes' /\ TableTypes' /\ PumpsEnd /\ EntriesGo /\ ClosesStay
        BY <1>1, <2>1, ReaderGone DEF Sides
      <3>2. Forward
        BY <1>1, <1>2 DEF Forward, ends, Inv, DataInTime
      <3> QED BY <1>1, <2>1, <3>1, <3>2, FramesStay DEF ends
    <2>2. CASE \/ SendsData("far", d) /\ toPump[d] > 0
               \/ SendsClose("far", d)
      <3>1. toPump[d] > 0 => wp["near"][d] # "no"
        BY DEF Inv, DataInTime
      <3>3. /\ PumpTypes' /\ TableTypes' /\ PumpsEnd /\ EntriesGo /\ ClosesStay
            /\ \E f : Fitting("far", f) /\ Queues("far", f)
        BY <1>1, <2>2, <3>1, ReaderSends DEF Sides
      <3>4. Forward
        BY <1>1, <1>2 DEF Forward, ends, Inv, DataInTime
      <3> QED BY <1>1, <3>3, <3>4, FramesQueued DEF ends, Sides
    <2> QED BY <2>1, <2>2 DEF FarReads
  <1>6. PlanTypes' /\ QueueTypes' /\ EndTypes'
    BY <1>1, Undisturbed
  <1>7. PumpsFit' /\ StandInsBounded' /\ EntriesRun' /\ AllListed'
    BY <1>1, <1>5, EndingFits, EndingListed
  <1>8. StandInsFit'
    BY <1>1, <1>2, <1>5, PumpsEndStarted DEF Inv, StandInsFit, delegation, Sides
  <1>9. HalfClosedReads'
    BY <1>1, <1>5, EndingReads DEF ends
  <1> QED BY <1>3, <1>4, <1>5, <1>6, <1>7, <1>8, <1>9 DEF Inv, FramesFit

-----------------------------------------------------------------------------
(* The writer pumps.                                                         *)

\* A grant is of a stream.
LEMMA GrantFits ==
  ASSUME NEW s \in Sides, NEW d \in Streams, NEW n \in Nat
  PROVE  Fitting(s, Frame("window", d, n))
  BY DEF Fitting, Frame, Frames

\* What a writer pump has before it.
LEMMA MessageFacts ==
  ASSUME Inv, NEW s \in Sides, NEW d \in Streams, NEW msg, Message(s, d, msg)
  PROVE  /\ wp[s][d] = "runs" /\ inq[s][d] \in Seq({"data", "close"}) /\ inq[s][d] # <<>>
         /\ Head(inq[s][d]) = msg
  BY DEF Inv, QueueTypes, OfStreams, Message

\* The queue of one stream is replaced by one that still has the close, if one was
\* in it.
LEMMA QueueKept ==
  ASSUME Inv, NEW s \in Sides, NEW d \in Streams, NEW r \in Seq({"data", "close"}),
         inq' = [inq EXCEPT ![s][d] = r], HasClose(inq[s][d]) => HasClose(r)
  PROVE  QueueTypes' /\ ClosesStay /\ inq'[s][d] = r
  <1>1. inq \in OfStreams(Seq({"data", "close"}))
    BY DEF Inv, QueueTypes
  <1>2. QueueTypes' /\ inq'[s][d] = r
    BY <1>1 DEF QueueTypes, OfStreams
  <1>3. ClosesStay
    BY <1>1 DEF ClosesStay, OfStreams
  <1> QED BY <1>2, <1>3

\* A frame was written out. A close that is queued behind it stays.
LEMMA ConsumesFacts ==
  ASSUME Inv, NEW s \in Sides, NEW d \in Streams, Message(s, d, "data"), Consumes(s, d),
         UNCHANGED <<wp, sink, prog, rp, delegation>>
  PROVE  /\ PumpTypes' /\ TableTypes' /\ QueueTypes' /\ PumpsEnd /\ EntriesGo /\ ClosesStay
         /\ \E f : Fitting(s, f) /\ Queues(s, f)
  <1>1. /\ inq[s][d] \in Seq({"data", "close"}) /\ inq[s][d] # <<>>
        /\ Head(inq[s][d]) = "data"
    BY MessageFacts
  <1> DEFINE q == inq[s][d]
             r == Tail(q)
  <1>2. /\ r \in Seq({"data", "close"}) /\ q[1] = "data" /\ Len(q) \in Nat
        /\ Len(r) = Len(q) - 1 /\ \A k \in 1..Len(r) : r[k] = q[k + 1]
    BY <1>1, TailFacts
  <1>3. HasClose(q) => HasClose(r)
    <2> SUFFICES ASSUME NEW k \in 1..Len(q), q[k] = "close"
                 PROVE  \E j \in 1..Len(r) : r[j] = "close"
      BY DEF HasClose
    <2>1. k # 1
      BY <1>2
    <2>2. k - 1 \in 1..Len(r) /\ r[k - 1] = q[k]
      BY <1>2, <2>1
    <2> QED BY <2>2
  <1>4. inq' = [inq EXCEPT ![s][d] = r]
    BY DEF Consumes
  <1> HIDE DEF r
  <1>5. QueueTypes' /\ ClosesStay
    BY <1>2, <1>3, <1>4, QueueKept
  <1>7. PumpTypes' /\ TableTypes'
    BY Undisturbed DEF tables, delegation
  <1>8. PumpsEnd /\ EntriesGo
    BY NoneEnds DEF tables
  <1>9. Fitting(s, Frame("window", d, 1)) /\ Queues(s, Frame("window", d, 1))
    BY GrantFits DEF Consumes
  <1> QED BY <1>5, <1>7, <1>8, <1>9

\* A pump abandons its stream.
LEMMA AbandonsFacts ==
  ASSUME Inv, NEW s \in Sides, NEW d \in Streams, wp[s][d] = "runs", Abandons(s, d),
         UNCHANGED <<prog, rp, delegation>>
  PROVE  /\ PumpTypes' /\ TableTypes' /\ QueueTypes' /\ PumpsEnd /\ EntriesGo /\ ClosesStay
         /\ \E f : Fitting(s, f) /\ Queues(s, f)
  <1> DEFINE data == {k \in DOMAIN inq[s][d] : inq[s][d][k] = "data"}
             f == Frame("window", d, Cardinality(data))
  <1>1. Cardinality(data) \in Nat
    <2>1. inq[s][d] \in Seq({"data", "close"})
      BY DEF Inv, QueueTypes, OfStreams
    <2>2. IsFiniteSet(1..Len(inq[s][d])) /\ DOMAIN inq[s][d] = 1..Len(inq[s][d])
      BY <2>1, FS_Interval
    <2>3. IsFiniteSet(data)
      BY <2>2, FS_Subset
    <2> QED BY <2>3, FS_CardinalityType
  <1>2. Queues(s, f) /\ inq' = [inq EXCEPT ![s][d] = <<>>] /\ WriterEnds(s, d)
    BY DEF Abandons
  <1> HIDE DEF data
  <1>3. Fitting(s, f)
    BY <1>1, GrantFits
  <1> QED BY <1>2, <1>3, WriterGone

\* All that a step of a writer pump leaves of the invariant is the frames and what
\* it does to its stand-in.
LEMMA WriterStep ==
  ASSUME Inv, NEW s \in Sides,
         PumpTypes', TableTypes', QueueTypes', PumpsEnd, EntriesGo, ClosesStay,
         \E f : Fitting(s, f) /\ Queues(s, f),
         UNCHANGED <<delegation, credit, holder, toPump, reset, shut, hangup, ends>>,
         toHolder' \in [Streams -> 0..1],
         \A d \in Streams :
           HasDir(d, "both") /\ wp["far"][d] = "runs" /\ wp'["far"][d] = "ended"
             /\ holder[d] \in {"open", "half"} =>
             shut'[d] \/ dropped["far"] \/ Replaced("far", d)
  PROVE  Inv'
  <1>1. PlanTypes' /\ CreditTypes' /\ EndTypes'
    BY Undisturbed DEF delegation
  <1>2. HolderTypes'
    BY DEF Inv, HolderTypes
  <1>3. Forward
    BY PumpsEndStarted DEF Forward, ends, Inv, DataInTime, Sides
  <1>4. FramesFit'
    BY <1>3, FramesQueued DEF ends
  <1>5. PumpsFit' /\ StandInsBounded' /\ EntriesRun' /\ AllListed'
    BY EndingFits, EndingListed
  <1>6. StandInsFit'
    BY PumpsEndStarted DEF Inv, StandInsFit, delegation, Sides
  <1>7. HalfClosedReads'
    BY EndingReads DEF ends
  <1> QED BY <1>1, <1>2, <1>4, <1>5, <1>6, <1>7 DEF Inv, FramesFit

LEMMA NearWritesStep ==
  ASSUME Inv, NEW d \in Streams, NearWrites(d)
  PROVE  Inv'
  <1>1. /\ Message("near", d, "data") /\ wp["near"][d] = "runs"
        /\ UNCHANGED <<delegation, prog, rp, credit, standins, ends>>
    BY DEF NearWrites, Message
  <1>2. /\ PumpTypes' /\ TableTypes' /\ QueueTypes' /\ PumpsEnd /\ EntriesGo /\ ClosesStay
        /\ \E f : Fitting("near", f) /\ Queues("near", f)
    BY <1>1, ConsumesFacts, AbandonsFacts DEF NearWrites, Sides
  <1>3. wp'["far"] = wp["far"]
    BY <1>1 DEF NearWrites, Abandons, WriterEnds, Inv, PumpTypes, OfStreams, Sides
  <1>4. toHolder' \in [Streams -> 0..1]
    BY <1>1 DEF standins, Inv, HolderTypes
  <1> QED BY <1>1, <1>2, <1>3, <1>4, WriterStep DEF standins, Sides

LEMMA FarWritesStep ==
  ASSUME Inv, NEW d \in Streams, FarWrites(d)
  PROVE  Inv'
  <1>1. /\ Message("far", d, "data") /\ wp["far"][d] = "runs"
        /\ UNCHANGED <<delegation, prog, rp, credit, holder, toPump, reset, shut, hangup, ends>>
    BY DEF FarWrites, Message
  <1>2. /\ PumpTypes' /\ TableTypes' /\ QueueTypes' /\ PumpsEnd /\ EntriesGo /\ ClosesStay
        /\ \E f : Fitting("far", f) /\ Queues("far", f)
    BY <1>1, ConsumesFacts, AbandonsFacts DEF FarWrites, Sides
  <1>3. ASSUME NEW e \in Streams, wp["far"][e] = "runs", wp'["far"][e] = "ended"
        PROVE  holder[e] \in {"closed", "left"}
    BY <1>1, <1>3 DEF FarWrites, Abandons, WriterEnds, Inv, PumpTypes, OfStreams, Sides
  <1>4. toHolder' \in [Streams -> 0..1]
    BY <1>1 DEF FarWrites, Inv, HolderTypes
  <1> QED BY <1>1, <1>2, <1>3, <1>4, WriterStep DEF Sides

LEMMA FarHangsUpStep ==
  ASSUME Inv, NEW d \in Streams, FarHangsUp(d)
  PROVE  Inv'
  <1>1. /\ wp["far"][d] = "runs" /\ Abandons("far", d)
        /\ UNCHANGED <<delegation, prog, rp, credit, standins, ends>>
    BY DEF FarHangsUp
  <1>2. /\ PumpTypes' /\ TableTypes' /\ QueueTypes' /\ PumpsEnd /\ EntriesGo /\ ClosesStay
        /\ \E f : Fitting("far", f) /\ Queues("far", f)
    BY <1>1, AbandonsFacts DEF Sides
  <1>3. ASSUME NEW e \in Streams, wp["far"][e] = "runs", wp'["far"][e] = "ended"
        PROVE  HasDir(e, "both") => holder[e] \in {"closed", "left"}
    <2>1. e = d
      BY <1>1, <1>3 DEF Abandons, WriterEnds, Inv, PumpTypes, OfStreams, Sides
    <2> QED BY <2>1 DEF FarHangsUp, Writes, Inv, StandInsFit
  <1>4. toHolder' \in [Streams -> 0..1]
    BY <1>1 DEF standins, Inv, HolderTypes
  <1> QED BY <1>1, <1>2, <1>3, <1>4, WriterStep DEF standins, Sides

\* The peer's close ends the pump, and at the far end what the holder reads.
LEMMA TakesCloseStep ==
  ASSUME Inv, NEW s \in Sides, NEW d \in Streams, TakesClose(s, d)
  PROVE  Inv'
  <1>1. /\ wp[s][d] = "runs" /\ WriterEnds(s, d) /\ inq' = [inq EXCEPT ![s][d] = <<>>]
        /\ shut' = [shut EXCEPT ![d] = @ \/ s = "far"]
        /\ UNCHANGED <<delegation, frames, prog, rp, credit, holder, toPump, toHolder, reset,
                       hangup, ends>>
    BY DEF TakesClose, Message
  <1>2. PumpTypes' /\ TableTypes' /\ QueueTypes' /\ PumpsEnd /\ EntriesGo /\ ClosesStay
    BY <1>1, WriterGone
  <1>3. shut' \in [Streams -> BOOLEAN] /\ \A e \in Streams : shut[e] => shut'[e]
    BY <1>1 DEF Inv, HolderTypes
  <1>4. PlanTypes' /\ CreditTypes' /\ EndTypes'
    BY <1>1, Undisturbed DEF delegation
  <1>5. HolderTypes'
    BY <1>1, <1>3 DEF Inv, HolderTypes
  <1>6. FramesFit'
    <2>1. Forward
      BY <1>1, <1>2, PumpsEndStarted DEF Forward, ends, Inv, DataInTime, Sides
    <2> QED BY <1>1, <2>1, FramesStay DEF ends
  <1>7. PumpsFit' /\ StandInsBounded' /\ EntriesRun' /\ AllListed'
    BY <1>1, <1>2, EndingFits, EndingListed
  <1>8. StandInsFit'
    BY <1>1, <1>2, PumpsEndStarted DEF Inv, StandInsFit, delegation, Sides
  <1>9. HalfClosedReads'
    <2>1. ASSUME NEW e \in Streams, wp["far"][e] = "runs", wp'["far"][e] = "ended"
          PROVE  shut'[e]
      BY <1>1, <2>1 DEF WriterEnds, Inv, PumpTypes, HolderTypes, OfStreams, Sides
    <2> QED BY <1>1, <1>2, <1>3, <2>1, EndingReads DEF ends
  <1> QED BY <1>2, <1>4, <1>5, <1>6, <1>7, <1>8, <1>9 DEF Inv, FramesFit

\* A pump without a sender has none because the transport was dropped, or because
\* a later stream took its id: nothing is queued, a close neither.
LEMMA OrphanedStep ==
  ASSUME Inv, NEW s \in Sides, NEW d \in Streams, Orphaned(s, d)
  PROVE  Inv'
  <1>1. /\ wp[s][d] = "runs" /\ WriterEnds(s, d) /\ inq[s][d] = <<>> /\ ~Registered(s, d)
        /\ UNCHANGED <<delegation, frames, prog, rp, inq, credit, standins, ends>>
    BY DEF Orphaned
  <1>2. PumpTypes' /\ TableTypes' /\ QueueTypes' /\ PumpsEnd /\ EntriesGo /\ ClosesStay
    BY <1>1, WriterGone
  <1>3. PlanTypes' /\ CreditTypes' /\ EndTypes' /\ HolderTypes'
    BY <1>1, Undisturbed DEF delegation, standins, ends
  <1>4. FramesFit'
    <2>1. Forward
      BY <1>1, <1>2, PumpsEndStarted DEF Forward, ends, standins, Inv, DataInTime, Sides
    <2> QED BY <1>1, <2>1, FramesStay DEF ends, standins
  <1>5. PumpsFit' /\ StandInsBounded' /\ EntriesRun' /\ AllListed'
    BY <1>1, <1>2, EndingFits, EndingListed
  <1>6. StandInsFit'
    BY <1>1, <1>2, PumpsEndStarted DEF Inv, StandInsFit, standins, delegation, Sides
  <1>7. HalfClosedReads'
    <2>1. ASSUME NEW e \in Streams, wp["far"][e] = "runs", wp'["far"][e] = "ended"
          PROVE  dropped["far"] \/ Replaced("far", e)
      <3>1. s = "far" /\ e = d
        BY <1>1, <2>1 DEF WriterEnds, Inv, PumpTypes, OfStreams, Sides
      <3>2. Listed("far", d) /\ ~HasClose(inq["far"][d])
        BY <1>1, <3>1 DEF Inv, AllListed, HasClose
      <3> QED BY <1>1, <3>1, <3>2 DEF Listed, Registered
    <2> QED BY <1>1, <1>2, <2>1, EndingReads DEF ends, standins
  <1> QED BY <1>2, <1>3, <1>4, <1>5, <1>6, <1>7 DEF Inv, FramesFit

-----------------------------------------------------------------------------
(* The tasks that read and write the channel.                                *)

\* Steps that leave pumps, delegations and what the holders did alone.
LEMMA StillFits ==
  ASSUME Inv, UNCHANGED <<delegation, rp, wp, holder, hangup>>, UNCHANGED <<shut, dropped>>
  PROVE  /\ PlanTypes' /\ PumpTypes' /\ PumpsFit' /\ StandInsFit' /\ StandInsBounded'
         /\ HalfClosedReads'
  BY Undisturbed DEF delegation

LEMMA ReadsFacts ==
  ASSUME Inv, NEW s \in Sides, NEW kind, Reads1(s, kind)
  PROVE  /\ ~ended[s] /\ frames[s] # <<>> /\ Head(frames[s]) \in Frames
         /\ Head(frames[s]).kind = kind /\ Head(frames[s]).of \in Streams
         /\ Head(frames[s]).n \in Nat /\ Id(Head(frames[s]).of) \in IdSpace
  <1>1. ~ended[s] /\ frames[s] # <<>> /\ Head(frames[s]).kind = kind
    BY DEF Reads1
  <1>2. Head(frames[s]) \in Frames
    BY <1>1, QueuesOf, TailFacts
  <1>3. Head(frames[s]).of \in Streams /\ Head(frames[s]).n \in Nat
    BY <1>2 DEF Frames
  <1> QED BY <1>1, <1>2, <1>3, PlanFacts DEF Inv

\* The reader task takes a frame that is not an Fds frame, and ends nothing.
LEMMA TakesFrames ==
  ASSUME Inv, NEW s \in Sides, NEW kind, kind # "fds", Reads1(s, kind), Rest(s),
         UNCHANGED <<delegation, rp, wp, standins, ends>>
  PROVE  /\ FramesFit' /\ PlanTypes' /\ PumpTypes' /\ PumpsFit' /\ StandInsFit'
         /\ StandInsBounded' /\ HalfClosedReads' /\ HolderTypes' /\ EndTypes'
  <1>1. Forward
    BY DEF Forward, ends, standins, Inv, DataInTime, Sides
  <1>2. FramesFit'
    BY <1>1, ReadsFacts, FramesRead DEF ends, standins
  <1>3. HolderTypes' /\ EndTypes'
    BY Undisturbed
  <1> QED BY <1>2, <1>3, StillFits DEF standins, ends

\* A message more in the queue of a stream.
Queued(s, d, msg) == inq' = [inq EXCEPT ![s][d] = Append(@, msg)]

LEMMA QueuedMessage ==
  ASSUME Inv, NEW s \in Sides, NEW d \in Streams, NEW msg \in {"data", "close"},
         Queued(s, d, msg)
  PROVE  QueueTypes' /\ ClosesStay /\ (msg = "close" => HasClose(inq'[s][d]))
  <1> DEFINE r == Append(inq[s][d], msg)
  <1>1. inq[s][d] \in Seq({"data", "close"})
    BY DEF Inv, QueueTypes, OfStreams
  <1>2. /\ r \in Seq({"data", "close"}) /\ Len(r) = Len(inq[s][d]) + 1 /\ Len(inq[s][d]) \in Nat
        /\ \A k \in 1..Len(inq[s][d]) : r[k] = inq[s][d][k]
        /\ r[Len(inq[s][d]) + 1] = msg
    BY <1>1, AppendFacts
  <1>3. inq' = [inq EXCEPT ![s][d] = r]
    BY DEF Queued
  <1> HIDE DEF r
  <1>4. (HasClose(inq[s][d]) => HasClose(r)) /\ (msg = "close" => HasClose(r))
    BY <1>2 DEF HasClose
  <1>5. QueueTypes' /\ ClosesStay /\ inq'[s][d] = r
    <2>1. r \in Seq({"data", "close"})
      BY <1>2
    <2>2. HasClose(inq[s][d]) => HasClose(r)
      BY <1>4
    <2> QED BY <1>3, <2>1, <2>2, QueueKept
  <1> QED BY <1>4, <1>5

\* Data is queued for its stream, or owed.
LEMMA TakesDataStep ==
  ASSUME Inv, NEW s \in Sides, TakesData(s)
  PROVE  Inv'
  <1> DEFINE i == Id(Head(frames[s]).of)
  <1>1. /\ Reads1(s, "data") /\ Rest(s)
        /\ UNCHANGED <<delegation, tables, rp, wp, avail, standins, ends>>
    BY DEF TakesData
  <1>2. i \in IdSpace /\ Head(frames[s]).of \in Streams
    BY <1>1, ReadsFacts
  <1>3. /\ FramesFit' /\ PlanTypes' /\ PumpTypes' /\ PumpsFit' /\ StandInsFit'
        /\ StandInsBounded' /\ HalfClosedReads' /\ HolderTypes' /\ EndTypes'
    BY <1>1, TakesFrames
  <1>4. QueueTypes' /\ ClosesStay
    <2>1. CASE inq' = inq
      BY <2>1, Undisturbed DEF ClosesStay
    <2>2. CASE sink[s][i] # None /\ inq' = [inq EXCEPT ![s][sink[s][i]] = Append(@, "data")]
      <3>1. sink \in [Sides -> [IdSpace -> Streams \cup {None}]]
        BY DEF Inv, TableTypes
      <3>2. sink[s][i] \in Streams
        <4> HIDE DEF i
        <4> QED BY <1>2, <2>2, <3>1
      <3> QED BY <2>2, <3>2, QueuedMessage DEF Queued
    <2> QED BY <2>1, <2>2 DEF TakesData
  <1>5. CreditTypes'
    <2>1. owed' = owed \/ owed' = [owed EXCEPT ![s][i] = @ + 1]
      BY DEF TakesData
    <2>2. owed' \in [Sides -> [IdSpace -> Nat]]
      BY <1>2, <2>1 DEF Inv, CreditTypes
    <2>3. ASSUME NEW t \in Sides, NEW j \in IdSpace, owed'[t][j] > 0
          PROVE  \E d \in Streams : Id(d) = j
      BY <1>2, <2>1, <2>3 DEF Inv, CreditTypes
    <2> QED BY <1>1, <2>2, <2>3, Fixed DEF Inv, CreditTypes, delegation
  <1>6. TableTypes'
    BY <1>1, Undisturbed DEF delegation
  <1>7. EntriesRun' /\ AllListed'
    BY <1>1, <1>4, NoneEnds, EndingListed
  <1> QED BY <1>3, <1>4, <1>5, <1>6, <1>7 DEF Inv, FramesFit

\* The close of a stream is queued for it, and its entry goes.
LEMMA TakesStreamCloseStep ==
  ASSUME Inv, NEW s \in Sides, TakesStreamClose(s)
  PROVE  Inv'
  <1> DEFINE i == Id(Head(frames[s]).of)
             d == sink[s][i]
  <1>1. /\ Reads1(s, "close") /\ Rest(s) /\ sink' = [sink EXCEPT ![s][i] = None]
        /\ UNCHANGED <<delegation, prog, rp, wp, credit, standins, ends>>
    BY DEF TakesStreamClose
  <1>2. i \in IdSpace
    BY <1>1, ReadsFacts
  <1>3. /\ FramesFit' /\ PlanTypes' /\ PumpTypes' /\ PumpsFit' /\ StandInsFit'
        /\ StandInsBounded' /\ HalfClosedReads' /\ HolderTypes' /\ EndTypes'
    BY <1>1, TakesFrames
  <1>4. QueueTypes' /\ ClosesStay /\ (d # None => HasClose(inq'[s][d]))
    <2>1. CASE d = None
      <3>1. inq' = inq
        BY <2>1 DEF TakesStreamClose
      <3> QED BY <2>1, <3>1, Undisturbed DEF ClosesStay
    <2>2. CASE d # None
      <3>1. d \in Streams /\ inq' = [inq EXCEPT ![s][d] = Append(@, "close")]
        BY <1>2, <2>2 DEF TakesStreamClose, Inv, TableTypes
      <3> HIDE DEF d
      <3> QED BY <3>1, QueuedMessage DEF Queued
    <2> QED BY <2>1, <2>2
  <1>5. TableTypes' /\ CreditTypes'
    BY <1>1, Fixed, Undisturbed DEF Inv, TableTypes, delegation
  <1>6. PumpsEnd /\ EntriesGo
    <2>1. PumpsEnd
      BY <1>1 DEF PumpsEnd
    <2>2. ASSUME NEW t \in Sides, NEW j \in IdSpace
          PROVE  /\ prog'[t][j] = IF prog[t][j] # None /\ rp'[t][prog[t][j]] = "ended"
                                  THEN None ELSE prog[t][j]
                 /\ \/ sink'[t][j] = IF sink[t][j] # None /\ wp'[t][sink[t][j]] = "ended"
                                     THEN None ELSE sink[t][j]
                    \/ sink'[t][j] = None /\ HasClose(inq'[t][sink[t][j]])
      <3>1. /\ prog[t][j] # None => rp[t][prog[t][j]] # "ended"
            /\ sink[t][j] # None => wp[t][sink[t][j]] # "ended"
        BY DEF Inv, EntriesRun
      <3>2. sink'[t][j] = IF t = s /\ j = i THEN None ELSE sink[t][j]
        BY <1>1, <1>2 DEF Inv, TableTypes
      <3> QED BY <1>1, <1>4, <3>1, <3>2
    <2> QED BY <2>1, <2>2 DEF EntriesGo
  <1>7. EntriesRun' /\ AllListed'
    BY <1>1, <1>4, <1>6, EndingListed
  <1> QED BY <1>3, <1>4, <1>5, <1>7 DEF Inv, FramesFit

\* A grant goes to the stream it is for.
LEMMA TakesWindowStep ==
  ASSUME Inv, NEW s \in Sides, TakesWindow(s)
  PROVE  Inv'
  <1> DEFINE f == Head(frames[s])
             d == prog[s][Id(f.of)]
  <1>1. /\ Reads1(s, "window") /\ Rest(s)
        /\ avail' = IF d = None THEN avail ELSE [avail EXCEPT ![s][d] = @ + f.n]
        /\ UNCHANGED <<delegation, tables, pumps, owed, standins, ends>>
    BY DEF TakesWindow
  <1>2. f.n \in Nat /\ Id(f.of) \in IdSpace
    BY <1>1, ReadsFacts
  <1>3. /\ FramesFit' /\ PlanTypes' /\ PumpTypes' /\ PumpsFit' /\ StandInsFit'
        /\ StandInsBounded' /\ HalfClosedReads' /\ HolderTypes' /\ EndTypes'
    BY <1>1, TakesFrames DEF pumps
  <1>4. CreditTypes'
    <2>1. d \in Streams \cup {None}
      BY <1>2 DEF Inv, TableTypes
    <2>2. avail \in OfStreams(Nat)
      BY DEF Inv, CreditTypes
    <2> HIDE DEF d, f
    <2>3. avail' \in OfStreams(Nat)
      BY <1>1, <1>2, <2>1, <2>2 DEF OfStreams
    <2> QED BY <1>1, <2>3, Fixed DEF Inv, CreditTypes, delegation
  <1>5. TableTypes' /\ QueueTypes' /\ EntriesRun' /\ AllListed'
    BY <1>1, Undisturbed DEF delegation, tables, pumps
  <1> QED BY <1>3, <1>4, <1>5 DEF Inv, FramesFit

\* The reader task ends, or the transport is dropped.
LEMMA EndsStep ==
  ASSUME Inv, NEW s \in Sides, TakesEnd(s) \/ Drops(s)
  PROVE  Inv'
  <1>1. /\ ended' = [ended EXCEPT ![s] = TRUE]
        /\ dropped' = dropped \/ dropped' = [dropped EXCEPT ![s] = TRUE]
        /\ UNCHANGED <<delegation, frames, tables, pumps, credit, standins, lost>>
    BY DEF TakesEnd, Drops, CloseFlow
  <1>2. EndTypes'
    BY <1>1 DEF Inv, EndTypes, Sides
  <1>3. ended["far"] => ended'["far"]
    BY <1>1 DEF Inv, EndTypes, Sides
  <1>4. FramesFit'
    <2>1. Forward
      BY <1>1, <1>3 DEF Forward, pumps, standins, Inv, DataInTime, Sides
    <2> QED BY <1>1, <2>1, FramesStay DEF standins
  <1>5. HalfClosedReads'
    <2>1. PumpsEnd
      BY <1>1 DEF PumpsEnd, pumps
    <2>2. dropped["far"] => dropped'["far"]
      BY <1>1 DEF Inv, EndTypes, Sides
    <2> QED BY <1>1, <2>1, <2>2, EndingReads DEF standins, pumps
  <1>6. /\ PlanTypes' /\ TableTypes' /\ PumpTypes' /\ QueueTypes' /\ CreditTypes' /\ HolderTypes'
        /\ PumpsFit' /\ StandInsFit' /\ EntriesRun' /\ AllListed' /\ StandInsBounded'
    BY <1>1, Undisturbed DEF delegation, tables, pumps, credit, standins
  <1> QED BY <1>2, <1>4, <1>5, <1>6 DEF Inv, FramesFit

\* A channel that fails loses the frames in it.
LEMMA LosesStep ==
  ASSUME Inv, Loses
  PROVE  Inv'
  <1>1. /\ lost' = TRUE /\ frames' = [s \in Sides |-> <<>>]
        /\ UNCHANGED <<delegation, tables, pumps, credit, standins, ended, dropped>>
    BY DEF Loses
  <1>2. EndTypes'
    BY <1>1 DEF Inv, EndTypes
  <1>3. FrameTypes'
    <2>1. <<>> \in Seq(Frames)
      OBVIOUS
    <2> QED BY <1>1, <2>1 DEF FrameTypes
  <1>4. FdsInOrder' /\ AllAnnounced' /\ DataInTime'
    <2>1. frames'["near"] = <<>> /\ frames'["far"] = <<>>
      BY <1>1 DEF Sides
    <2> QED BY <1>1, <2>1 DEF FdsInOrder, AllAnnounced, Announced, DataInTime, Inv, standins, pumps
  <1>5. /\ PlanTypes' /\ TableTypes' /\ PumpTypes' /\ QueueTypes' /\ CreditTypes' /\ HolderTypes'
        /\ PumpsFit' /\ StandInsFit' /\ EntriesRun' /\ AllListed' /\ StandInsBounded'
        /\ HalfClosedReads'
    BY <1>1, Undisturbed DEF delegation, tables, pumps, credit, standins
  <1> QED BY <1>2, <1>3, <1>4, <1>5 DEF Inv

\* The writer grants what is owed.
LEMMA PaysStep ==
  ASSUME Inv, NEW s \in Sides, Pays(s)
  PROVE  Inv'
  <1>1. PICK i \in IdSpace :
          /\ owed[s][i] > 0 /\ owed' = [owed EXCEPT ![s][i] = 0]
          /\ Queues(s, Frame("window", CHOOSE d \in Streams : Id(d) = i, owed[s][i]))
    BY DEF Pays
  <1>2. UNCHANGED <<delegation, tables, pumps, avail, standins, ends>>
    BY DEF Pays
  <1>3. \E f : Fitting(s, f) /\ Queues(s, f)
    <2>1. (CHOOSE d \in Streams : Id(d) = i) \in Streams /\ owed[s][i] \in Nat
      BY <1>1 DEF Inv, CreditTypes
    <2> QED BY <1>1, <2>1, GrantFits
  <1>4. FramesFit'
    <2>1. Forward
      BY <1>2 DEF Forward, pumps, ends, standins, Inv, DataInTime, Sides
    <2> QED BY <1>2, <1>3, <2>1, FramesQueued DEF ends, standins
  <1>5. CreditTypes'
    <2>1. owed' \in [Sides -> [IdSpace -> Nat]]
      BY <1>1 DEF Inv, CreditTypes
    <2>2. ASSUME NEW t \in Sides, NEW j \in IdSpace, owed'[t][j] > 0
          PROVE  \E d \in Streams : Id(d) = j
      BY <1>1, <2>2 DEF Inv, CreditTypes
    <2> QED BY <1>2, <2>1, <2>2, Fixed DEF Inv, CreditTypes, delegation
  <1>6. /\ PlanTypes' /\ TableTypes' /\ PumpTypes' /\ QueueTypes' /\ HolderTypes' /\ EndTypes'
        /\ PumpsFit' /\ StandInsFit' /\ EntriesRun' /\ AllListed' /\ StandInsBounded'
        /\ HalfClosedReads'
    BY <1>2, Undisturbed DEF delegation, tables, pumps, standins, ends
  <1> QED BY <1>4, <1>5, <1>6 DEF Inv, FramesFit

-----------------------------------------------------------------------------
(* Delegating.                                                               *)

\* The pumps of a stream start.
LEMMA OpensFacts ==
  ASSUME Inv, NEW s \in Sides, NEW d \in Streams, NEW reads \in BOOLEAN, NEW writes \in BOOLEAN,
         Opens(s, d, reads, writes), plan' = plan
  PROVE  /\ PumpTypes' /\ TableTypes' /\ avail' \in OfStreams(Nat)
         /\ \A t \in Sides, e \in Streams :
              /\ rp'[t][e] = IF t = s /\ e = d /\ reads THEN "runs" ELSE rp[t][e]
              /\ wp'[t][e] = IF t = s /\ e = d /\ writes THEN "runs" ELSE wp[t][e]
         /\ \A t \in Sides, i \in IdSpace :
              /\ prog'[t][i] = IF t = s /\ i = Id(d) /\ reads THEN d ELSE prog[t][i]
              /\ sink'[t][i] = IF t = s /\ i = Id(d) /\ writes THEN d ELSE sink[t][i]
  <1>1. PumpTypes /\ TableTypes /\ Id(d) \in IdSpace /\ IdSpace' = IdSpace
    BY PlanFacts, Fixed DEF Inv
  <1>2. PumpTypes'
    BY <1>1 DEF Opens, PumpTypes, OfStreams
  <1>3. TableTypes'
    <2>1. prog' \in [Sides -> [IdSpace -> Streams \cup {None}]]
      BY <1>1 DEF Opens, TableTypes
    <2>2. sink' \in [Sides -> [IdSpace -> Streams \cup {None}]]
      BY <1>1 DEF Opens, TableTypes
    <2> QED BY <1>1, <2>1, <2>2 DEF TableTypes
  <1>4. avail' \in OfStreams(Nat)
    BY StreamsAssumption DEF StreamsAssumption, Opens, Inv, CreditTypes, OfStreams
  <1>5. \A t \in Sides, e \in Streams :
          /\ rp'[t][e] = IF t = s /\ e = d /\ reads THEN "runs" ELSE rp[t][e]
          /\ wp'[t][e] = IF t = s /\ e = d /\ writes THEN "runs" ELSE wp[t][e]
    BY <1>1 DEF Opens, PumpTypes, OfStreams
  <1>6. \A t \in Sides, i \in IdSpace :
          /\ prog'[t][i] = IF t = s /\ i = Id(d) /\ reads THEN d ELSE prog[t][i]
          /\ sink'[t][i] = IF t = s /\ i = Id(d) /\ writes THEN d ELSE sink[t][i]
    BY <1>1 DEF Opens, TableTypes
  <1> QED BY <1>2, <1>3, <1>4, <1>5, <1>6

\* They take the entries of its id, from earlier streams only.
LEMMA OpensListed ==
  ASSUME Inv, NEW s \in Sides, NEW d \in Streams, NEW reads \in BOOLEAN, NEW writes \in BOOLEAN,
         Opens(s, d, reads, writes), UNCHANGED <<plan, inq>>,
         step = "failed" => UNCHANGED <<sent, step>>,
         ~Started(s, d), \A e \in Streams : Started(s, e) => e < d
  PROVE  EntriesRun' /\ AllListed'
  <1>fixed. IdSpace' = IdSpace /\ \A e : Id(e)' = Id(e)
    BY Fixed
  <1>pumps. \A t \in Sides, e \in Streams :
              /\ rp'[t][e] = IF t = s /\ e = d /\ reads THEN "runs" ELSE rp[t][e]
              /\ wp'[t][e] = IF t = s /\ e = d /\ writes THEN "runs" ELSE wp[t][e]
    BY OpensFacts
  <1>tables. \A t \in Sides, i \in IdSpace :
               /\ prog'[t][i] = IF t = s /\ i = Id(d) /\ reads THEN d ELSE prog[t][i]
               /\ sink'[t][i] = IF t = s /\ i = Id(d) /\ writes THEN d ELSE sink[t][i]
    BY OpensFacts
  <1>ids. \A e \in Streams : Id(e) \in IdSpace
    BY PlanFacts DEF Inv
  <1>1. EntriesRun'
    <2> SUFFICES ASSUME NEW t \in Sides, NEW i \in IdSpace
                 PROVE  /\ prog'[t][i] # None =>
                             rp'[t][prog'[t][i]] = "runs" /\ Id(prog'[t][i]) = i
                        /\ sink'[t][i] # None =>
                             wp'[t][sink'[t][i]] = "runs" /\ Id(sink'[t][i]) = i
      BY <1>fixed DEF EntriesRun
    <2>1. /\ prog[t][i] # None =>
               prog[t][i] \in Streams /\ rp[t][prog[t][i]] = "runs" /\ Id(prog[t][i]) = i
          /\ sink[t][i] # None =>
               sink[t][i] \in Streams /\ wp[t][sink[t][i]] = "runs" /\ Id(sink[t][i]) = i
      BY DEF Inv, EntriesRun, TableTypes
    <2> QED BY <2>1, <1>pumps, <1>tables
  <1>started. \A t \in Sides, e \in Streams : Started(t, e) => Started(t, e)'
    BY <1>pumps DEF Started
  <1>replaced. \A t \in Sides, e \in Streams : Replaced(t, e) => Replaced(t, e)'
    BY <1>started, ReplacedStays DEF Inv
  <1>2. ASSUME NEW t \in Sides, NEW e \in Streams PROVE Listed(t, e)'
    <2>1. CASE Replaced(t, e)
      BY <2>1, <1>replaced DEF Listed
    <2>2. CASE ~Replaced(t, e) /\ t = s /\ e = d
      <3>1. (rp'[s][d] = "runs" => reads) /\ (wp'[s][d] = "runs" => writes)
        BY <1>pumps DEF Started
      <3> QED BY <2>2, <3>1, <1>tables, <1>ids, <1>fixed DEF Listed
    <2>3. CASE /\ ~Replaced(t, e) /\ t = s /\ e # d /\ Id(e) = Id(d)
               /\ reads \/ writes
      <3>1. CASE Started(s, e)
        <4>1. d > e /\ Id(d)' = Id(e)' /\ {rp'[s][d], wp'[s][d]} # {"no"}
          <5>1. e < d /\ d \in Nat /\ e \in Nat
            BY <3>1, PlanFacts DEF Inv
          <5>2. rp'[s][d] = "runs" \/ wp'[s][d] = "runs"
            BY <2>3, <1>pumps
          <5> QED BY <5>1, <5>2, <2>3, <1>fixed
        <4> QED BY <4>1, <2>3 DEF Listed, Replaced
      <3>2. CASE ~Started(s, e)
        BY <3>2, <2>3, <1>pumps DEF Listed, Started
      <3> QED BY <3>1, <3>2
    <2>4. CASE /\ ~Replaced(t, e)
               /\ t # s \/ (e # d /\ Id(e) # Id(d)) \/ (e # d /\ ~reads /\ ~writes)
      <3>1. /\ rp[t][e] = "runs" => prog[t][Id(e)] = e
            /\ wp[t][e] = "runs" => sink[t][Id(e)] = e \/ HasClose(inq[t][e])
        BY <2>4 DEF Inv, AllListed, Listed
      <3>2. /\ rp'[t][e] = rp[t][e] /\ wp'[t][e] = wp[t][e]
            /\ prog'[t][Id(e)] = prog[t][Id(e)] /\ sink'[t][Id(e)] = sink[t][Id(e)]
        BY <2>4, <1>pumps, <1>tables, <1>ids
      <3> QED BY <3>1, <3>2, <1>fixed DEF Listed
    <2> QED BY <2>1, <2>2, <2>3, <2>4
  <1> QED BY <1>1, <1>2 DEF AllListed

\* What a step of the near end's delegation leaves of the far end.
LEMMA NearOpens ==
  ASSUME Inv, UNCHANGED <<plan, sent, frames, inq, owed, standins, ends>>, step = "open",
         step' \in {"idle", "failed"},
         \A d \in Streams : rp'["far"][d] = rp["far"][d] /\ wp'["far"][d] = wp["far"][d],
         \A d \in Streams : Started("near", d) => Started("near", d)',
         \A d \in Streams : wp["near"][d] # "no" => wp'["near"][d] # "no"
  PROVE  /\ PlanTypes' /\ QueueTypes' /\ HolderTypes' /\ EndTypes'
         /\ FrameTypes' /\ FdsInOrder' /\ AllAnnounced' /\ DataInTime'
         /\ StandInsFit' /\ StandInsBounded' /\ HalfClosedReads'
  <1>1. QueueTypes' /\ HolderTypes' /\ EndTypes' /\ FrameTypes' /\ FdsInOrder'
    BY Undisturbed DEF standins, ends
  <1>2. PlanTypes'
    BY DEF Inv, PlanTypes, Dirs
  <1>3. AllAnnounced'
    BY Fixed DEF Inv, AllAnnounced, Announced, ends
  <1>4. DataInTime'
    BY QueuesOf, Fixed DEF Inv, DataInTime, InTime, ends, standins, Sides
  <1>5. StandInsFit'
    BY DEF Inv, StandInsFit, Started, standins
  <1>6. StandInsBounded'
    <2>1. Slots' = Slots
      BY DEF Slots
    <2> QED BY <2>1 DEF Inv, StandInsBounded
  <1>7. HalfClosedReads'
    <2>1. \A s \in Sides, d \in Streams : Started(s, d) => Started(s, d)'
      BY DEF Started, Sides
    <2>2. \A d \in Streams : Replaced("far", d) => Replaced("far", d)'
      BY <2>1, ReplacedStays DEF Inv, Sides
    <2> QED BY <2>2, Fixed DEF Inv, HalfClosedReads, standins, ends
  <1> QED BY <1>1, <1>2, <1>3, <1>4, <1>5, <1>6, <1>7

\* The pumps of the last stream start.
LEMMA OpensPumpsStep ==
  ASSUME Inv, OpensPumps
  PROVE  Inv'
  <1>1. /\ step = "open" /\ step' = "idle" /\ Opens("near", sent, Reads(sent), Writes(sent))
        /\ UNCHANGED <<plan, sent, frames, inq, owed, standins, ends>>
    BY DEF OpensPumps
  <1>2. sent \in Streams /\ sent \in Nat /\ Reads(sent) \in BOOLEAN /\ Writes(sent) \in BOOLEAN
    BY <1>1, PlanFacts DEF Inv, PlanTypes, Reads, Writes, HasDir
  <1>3. ~Started("near", sent) /\ \A e \in Streams : Started("near", e) => e < sent
    <2>1. ~Started("near", sent)
      BY <1>1, <1>2 DEF Inv, PumpsFit
    <2>2. \A e \in Streams : Started("near", e) => e <= sent /\ e # sent /\ e \in Nat
      BY <2>1, PlanFacts DEF Inv, PumpsFit, Sides
    <2> QED BY <1>2, <2>1, <2>2
  <1>4. PumpTypes' /\ TableTypes' /\ avail' \in OfStreams(Nat)
    BY <1>1, <1>2, OpensFacts DEF Sides
  <1>5. \A t \in Sides, e \in Streams :
          /\ rp'[t][e] = IF t = "near" /\ e = sent /\ Reads(sent) THEN "runs" ELSE rp[t][e]
          /\ wp'[t][e] = IF t = "near" /\ e = sent /\ Writes(sent) THEN "runs" ELSE wp[t][e]
    BY <1>1, <1>2, OpensFacts DEF Sides
  <1>6. EntriesRun' /\ AllListed'
    BY <1>1, <1>2, <1>3, OpensListed DEF Sides
  <1>7. CreditTypes'
    BY <1>1, <1>4, Fixed DEF Inv, CreditTypes
  <1>8. /\ PlanTypes' /\ QueueTypes' /\ HolderTypes' /\ EndTypes'
        /\ FrameTypes' /\ FdsInOrder' /\ AllAnnounced' /\ DataInTime'
        /\ StandInsFit' /\ StandInsBounded' /\ HalfClosedReads'
    BY <1>1, <1>5, NearOpens DEF Started, Sides
  <1>9. PumpsFit'
    <2>1. \A d \in Streams : Opened(d)' <=> (Opened(d) \/ d = sent)
      BY <1>1, <1>2, PlanFacts DEF Opened, Inv
    <2>2. \A s \in Sides, e \in Streams : Started(s, e)' => e <= sent
      <3> SUFFICES ASSUME NEW s \in Sides, NEW e \in Streams, Started(s, e)', e # sent
                   PROVE  e <= sent
        BY <1>2
      <3>1. Started(s, e)
        BY <1>5 DEF Started
      <3> QED BY <3>1 DEF Inv, PumpsFit
    <2>3. ASSUME NEW e \in Streams
          PROVE  /\ rp'["near"][e] # "no" \/ wp'["far"][e] # "no" => Reads(e)
                 /\ wp'["near"][e] # "no" \/ rp'["far"][e] # "no" => Writes(e)
                 /\ Opened(e)' /\ Writes(e) => wp'["near"][e] # "no"
      BY <1>2, <1>5, <2>1 DEF Inv, PumpsFit, Sides
    <2> QED BY <1>1, <2>2, <2>3, Fixed DEF PumpsFit
  <1> QED BY <1>4, <1>6, <1>7, <1>8, <1>9 DEF Inv

\* They do not.
LEMMA OpensFailStep ==
  ASSUME Inv, OpensFail
  PROVE  Inv'
  <1>1. /\ step = "open" /\ step' = "failed"
        /\ UNCHANGED <<plan, sent, frames, inq, owed, standins, ends>>
    BY DEF OpensFail
  <1>2. sent \in Streams /\ sent \in Nat
    BY <1>1, PlanFacts DEF Inv, PlanTypes
  <1>3. ~Started("near", sent) /\ \A e \in Streams : Started("near", e) => e < sent
    <2>1. ~Started("near", sent)
      BY <1>1, <1>2 DEF Inv, PumpsFit
    <2>2. \A e \in Streams : Started("near", e) => e <= sent /\ e # sent /\ e \in Nat
      BY <2>1, PlanFacts DEF Inv, PumpsFit, Sides
    <2> QED BY <1>2, <2>1, <2>2
  <1>4. \A d \in Streams : Opened(d)' => Opened(d)
    BY <1>1 DEF Opened
  <1>5. CASE HasDir(sent, "both") /\ Opens("near", sent, FALSE, TRUE)
    <2>1. PumpTypes' /\ TableTypes' /\ avail' \in OfStreams(Nat)
      BY <1>1, <1>2, <1>5, OpensFacts DEF Sides
    <2>2. \A t \in Sides, e \in Streams :
            /\ rp'[t][e] = rp[t][e]
            /\ wp'[t][e] = IF t = "near" /\ e = sent THEN "runs" ELSE wp[t][e]
      <3>1. rp' = [rp EXCEPT !["near"][sent] = @] /\ wp' = [wp EXCEPT !["near"][sent] = "runs"]
        BY <1>5 DEF Opens
      <3>2. rp \in OfStreams({"no", "runs", "ended"}) /\ wp \in OfStreams({"no", "runs", "ended"})
        BY DEF Inv, PumpTypes
      <3> QED BY <1>2, <3>1, <3>2 DEF OfStreams, Sides
    <2>3. EntriesRun' /\ AllListed'
      BY <1>1, <1>2, <1>3, <1>5, OpensListed DEF Sides
    <2>4. CreditTypes'
      BY <1>1, <2>1, Fixed DEF Inv, CreditTypes
    <2>5. /\ PlanTypes' /\ QueueTypes' /\ HolderTypes' /\ EndTypes'
          /\ FrameTypes' /\ FdsInOrder' /\ AllAnnounced' /\ DataInTime'
          /\ StandInsFit' /\ StandInsBounded' /\ HalfClosedReads'
      BY <1>1, <2>2, NearOpens DEF Started, Sides
    <2>6. PumpsFit'
      <3>1. Writes(sent)
        BY <1>5 DEF Writes
      <3> QED BY <1>1, <1>2, <1>4, <2>2, <3>1, Fixed DEF Inv, PumpsFit, Started, Sides
    <2> QED BY <2>1, <2>3, <2>4, <2>5, <2>6 DEF Inv
  <1>6. CASE /\ sink' = IF Writes(sent) THEN [sink EXCEPT !["near"][Id(sent)] = None] ELSE sink
             /\ UNCHANGED <<wp, prog, rp, avail>>
    <2>fixed. IdSpace' = IdSpace /\ \A e : Id(e)' = Id(e)
      BY <1>1, Fixed
    <2>sink. \A t \in Sides, i \in IdSpace :
               sink'[t][i] = IF t = "near" /\ i = Id(sent) /\ Writes(sent)
                             THEN None ELSE sink[t][i]
      BY <1>6 DEF Inv, TableTypes
    <2>1. PumpTypes' /\ CreditTypes'
      BY <1>1, <1>6, Undisturbed DEF credit
    <2>2. TableTypes'
      <3>1. sink' \in [Sides -> [IdSpace -> Streams \cup {None}]]
        BY <1>6 DEF Inv, TableTypes
      <3> QED BY <1>6, <2>fixed, <3>1 DEF Inv, TableTypes
    <2>3. EntriesRun'
      BY <1>6, <2>fixed, <2>sink DEF Inv, EntriesRun
    <2>4. ASSUME NEW t \in Sides, NEW e \in Streams PROVE Listed(t, e)'
      <3>1. Replaced(t, e) => Replaced(t, e)'
        BY <1>1, <1>6, ReplacedStays DEF Inv, Started
      <3>2. CASE t = "near" /\ Id(e) = Id(sent) /\ Started("near", e)
        <4>1. e < sent /\ e \in Nat
          BY <1>3, <3>2, PlanFacts DEF Inv
        <4>2. Replaced("near", e)'
          BY <1>1, <1>2, <3>2, <4>1, <2>fixed DEF Replaced
        <4> QED BY <3>2, <4>2 DEF Listed
      <3>3. CASE t = "near" /\ ~Started("near", e)
        BY <1>6, <3>3 DEF Listed, Started
      <3>4. CASE t # "near" \/ Id(e) # Id(sent)
        <4>1. Id(e) \in IdSpace
          BY PlanFacts DEF Inv
        <4>2. sink'[t][Id(e)] = sink[t][Id(e)]
          BY <3>4, <4>1, <2>sink
        <4>3. Listed(t, e)
          BY DEF Inv, AllListed
        <4> QED BY <1>1, <1>6, <3>1, <4>2, <4>3, <2>fixed DEF Listed
      <3> QED BY <3>2, <3>3, <3>4
    <2>5. /\ PlanTypes' /\ QueueTypes' /\ HolderTypes' /\ EndTypes'
          /\ FrameTypes' /\ FdsInOrder' /\ AllAnnounced' /\ DataInTime'
          /\ StandInsFit' /\ StandInsBounded' /\ HalfClosedReads'
      BY <1>1, <1>6, NearOpens DEF Started, Sides
    <2>6. PumpsFit'
      BY <1>1, <1>4, <1>6, Fixed DEF Inv, PumpsFit, Started, Sides
    <2> QED BY <2>1, <2>2, <2>3, <2>4, <2>5, <2>6 DEF Inv, AllListed
  <1> QED BY <1>5, <1>6 DEF OpensFail

\* A stream more is delegated, and the Fds frame that says so is queued behind all
\* others.
LEMMA DelegatesStep ==
  ASSUME Inv, Delegates
  PROVE  Inv'
  <1> DEFINE d == sent + 1
             q == frames["far"]
             r == Append(q, Frame("fds", d, 0))
  <1>1. /\ step = "idle" /\ sent < Len(Dirs) /\ ~lost /\ sent' = d /\ step' = "open"
        /\ Queues("near", Frame("fds", d, 0))
        /\ UNCHANGED <<plan, tables, pumps, credit, standins, ends>>
    BY DEF Delegates
  <1>2. d \in Streams /\ sent \in Nat /\ d \in 0..Len(Dirs)
    BY <1>1, PlanFacts DEF Inv
  <1>3. /\ TableTypes' /\ PumpTypes' /\ QueueTypes' /\ CreditTypes' /\ HolderTypes' /\ EndTypes'
        /\ EntriesRun' /\ StandInsBounded'
    BY <1>1, Undisturbed DEF tables, pumps, credit, standins, ends
  <1>4. PlanTypes'
    BY <1>1, <1>2, Fixed DEF Inv, PlanTypes
  <1>5. ~Started("near", d) /\ holder[d] = "none" /\ \A e \in Streams : e # d => (e <= d <=> e <= sent)
    <2>1. \A e \in Streams : e \in Nat
      BY PlanFacts DEF Inv
    <2> QED BY <1>2, <2>1 DEF Inv, PumpsFit, StandInsFit, Sides
  <1>6. PumpsFit'
    <2>1. ASSUME NEW e \in Streams PROVE (Opened(e)' <=> Opened(e)) /\ e \in Nat
      <3>1. e \in Nat
        BY PlanFacts DEF Inv
      <3> QED BY <1>1, <1>2, <3>1 DEF Opened
    <2> QED BY <1>1, <1>2, <1>5, <2>1, Fixed DEF Inv, PumpsFit, Started, pumps, Sides
  <1>7. StandInsFit'
    BY <1>1, <1>2, PlanFacts DEF Inv, StandInsFit, Started, pumps, standins
  <1>8. \A s \in Sides, e \in Streams : Replaced(s, e) => Replaced(s, e)'
    BY <1>1, ReplacedStays DEF Inv, Started, pumps
  <1>9. AllListed'
    BY <1>1, <1>8, Fixed DEF Inv, AllListed, Listed, pumps, tables
  <1>10. HalfClosedReads'
    BY <1>1, <1>8, Fixed DEF Inv, HalfClosedReads, pumps, standins, ends, Sides
  <1>11. CASE Gone("near") /\ frames' = frames
    <2>1. ended["far"]
      BY <1>1, <1>11 DEF Gone, LetsGo, Other, Inv, EndTypes, Sides
    <2>2. FrameTypes' /\ DataInTime'
      BY <1>1, <1>11, Undisturbed DEF pumps, standins, ends
    <2>3. AllAnnounced'
      BY <1>1, <2>1 DEF AllAnnounced, Announced, ends
    <2>4. FdsInOrder'
      <3>1. \A e \in Streams : e \in Nat /\ (e <= sent => e <= d)
        BY <1>2, PlanFacts DEF Inv
      <3> QED BY <1>1, <1>11, <3>1, QueuesOf DEF Inv, FdsInOrder, standins, Sides
    <2> QED BY <1>3, <1>4, <1>6, <1>7, <1>9, <1>10, <2>2, <2>3, <2>4 DEF Inv
  <1>12. CASE frames' = [frames EXCEPT !["far"] = r]
    <2>1. /\ q \in Seq(Frames) /\ frames'["far"] = r /\ frames'["near"] = frames["near"]
          /\ Frame("fds", d, 0) \in Frames
      BY <1>2, <1>12 DEF Inv, FrameTypes, Frames, Frame, Sides
    <2>2. /\ r \in Seq(Frames) /\ Len(r) = Len(q) + 1 /\ Len(q) \in Nat
          /\ \A k \in 1..Len(q) : r[k] = q[k]
          /\ r[Len(q) + 1] = Frame("fds", d, 0)
      BY <2>1, AppendFacts
    <2>old. \A k \in 1..Len(q) : q[k].of \in Streams /\ q[k].of \in Nat
      BY QueuesOf, PlanFacts DEF Inv, Sides
    <2> HIDE DEF r
    <2>3. FrameTypes'
      BY <1>12, <2>2 DEF Inv, FrameTypes, Sides
    <2>4. FdsInOrder'
      <3> SUFFICES ASSUME NEW k \in 1..Len(r), r[k].kind = "fds"
                   PROVE  /\ r[k].of <= d
                          /\ \A e \in Streams : holder[e] # "none" => e < r[k].of
                          /\ \A j \in 1..k - 1 : r[j].kind = "fds" => r[j].of < r[k].of
        BY <1>1, <2>1 DEF FdsInOrder, standins
      <3>1. CASE k \in 1..Len(q)
        <4>1. r[k] = q[k] /\ q[k].of \in Nat /\ \A j \in 1..k - 1 : r[j] = q[j]
          BY <3>1, <2>2, <2>old
        <4>2. q[k].kind = "fds" =>
                /\ q[k].of <= sent
                /\ \A e \in Streams : holder[e] # "none" => e < q[k].of
                /\ \A j \in 1..k - 1 : q[j].kind = "fds" => q[j].of < q[k].of
          BY <3>1 DEF Inv, FdsInOrder
        <4>3. q[k].of <= sent => q[k].of <= d
          BY <1>2, <4>1
        <4> QED BY <4>1, <4>2, <4>3
      <3>2. CASE k = Len(q) + 1
        <4>1. r[k].of = d /\ \A j \in 1..k - 1 : j \in 1..Len(q) /\ r[j] = q[j]
          BY <3>2, <2>2 DEF Frame
        <4>2. \A j \in 1..Len(q) : q[j].kind = "fds" => q[j].of <= sent
          BY DEF Inv, FdsInOrder
        <4>3. \A e \in Streams : holder[e] # "none" => e < d
          BY <1>2, PlanFacts DEF Inv, StandInsFit
        <4>4. ASSUME NEW j \in 1..k - 1, r[j].kind = "fds" PROVE r[j].of < d
          <5>1. j \in 1..Len(q) /\ r[j] = q[j]
            BY <4>1
          <5>2. q[j].of <= sent /\ q[j].of \in Nat
            BY <4>2, <4>4, <5>1, <2>old
          <5> QED BY <1>2, <5>1, <5>2
        <4>5. d <= d
          BY <1>2
        <4> QED BY <4>1, <4>3, <4>4, <4>5
      <3> QED BY <2>2, <3>1, <3>2
    <2>5. AllAnnounced'
      <3> SUFFICES ASSUME NEW e \in Streams, e <= d, Reads(e)
                   PROVE  \/ ended["far"] \/ lost \/ wp["far"][e] # "no"
                          \/ \E k \in 1..Len(r) : r[k] = Frame("fds", e, 0)
        BY <1>1, <2>1, Fixed DEF AllAnnounced, Announced, pumps, ends
      <3>1. CASE e = d
        BY <3>1, <2>2
      <3>2. CASE e # d
        <4>1. Announced(e)
          BY <1>5, <3>2 DEF Inv, AllAnnounced
        <4> QED BY <4>1, <2>2 DEF Announced
      <3> QED BY <3>1, <3>2
    <2>6. DataInTime'
      <3>1. ASSUME ~ended["far"], NEW k \in 1..Len(r), r[k].kind = "data"
            PROVE  /\ Reads(r[k].of)
                   /\ \/ wp["far"][r[k].of] # "no"
                      \/ \E j \in 1..k - 1 : r[j] = Frame("fds", r[k].of, 0)
        <4>1. k \in 1..Len(q)
          BY <3>1, <2>2 DEF Frame
        <4>2. InTime(k) /\ \A j \in 1..k : r[j] = q[j]
          BY <3>1, <4>1, <2>2 DEF Inv, DataInTime
        <4> QED BY <3>1, <4>1, <4>2 DEF InTime
      <3> QED BY <1>1, <2>1, <3>1, Fixed DEF Inv, DataInTime, InTime, pumps, standins, ends
    <2> QED BY <1>3, <1>4, <1>6, <1>7, <1>9, <1>10, <2>3, <2>4, <2>5, <2>6 DEF Inv
  <1> QED BY <1>1, <1>11, <1>12 DEF Queues, Other

\* The far end makes the stand-in of the next stream, or ends. Its data is behind
\* its Fds frame, and so are the Fds frames of all later streams.
LEMMA TakesFdsStep ==
  ASSUME Inv, TakesFds
  PROVE  Inv'
  <1> DEFINE q == frames["far"]
             r == Tail(q)
             d == Head(q).of
  <1>1. /\ Reads1("far", "fds") /\ frames' = [frames EXCEPT !["far"] = r]
        /\ UNCHANGED <<delegation, owed, toPump, toHolder, reset, shut, hangup, dropped, lost>>
    BY DEF TakesFds, Rest
  <1>2. /\ ~ended["far"] /\ q # <<>> /\ q \in Seq(Frames) /\ q[1].kind = "fds"
        /\ Head(q) = q[1] /\ d \in Streams /\ d = q[1].of
    BY <1>1, ReadsFacts, QueuesOf, TailFacts DEF Sides
  <1>3. /\ r \in Seq(Frames) /\ Len(q) \in Nat /\ Len(q) > 0 /\ Len(r) = Len(q) - 1
        /\ \A k \in 1..Len(r) : r[k] = q[k + 1]
    BY <1>2, TailFacts
  <1>4. frames'["far"] = r /\ frames'["near"] = frames["near"]
    BY <1>1 DEF Inv, FrameTypes, Sides
  <1>first. /\ d <= sent /\ d \in Nat /\ \A e \in Streams : holder[e] # "none" => e < d
            /\ \A k \in 1..Len(r) : r[k].kind = "fds" => r[k].of > d
    <2>1. 1 \in 1..Len(q) /\ d \in Nat
      BY <1>2, <1>3, PlanFacts DEF Inv
    <2>2. ASSUME NEW k \in 1..Len(r), r[k].kind = "fds" PROVE r[k].of > d
      <3>1. k + 1 \in 1..Len(q) /\ r[k] = q[k + 1] /\ 1 \in 1..(k + 1) - 1 /\ r[k].of \in Streams
        BY <1>3, QueuesOf DEF Sides
      <3>2. q[1].of < r[k].of
        BY <1>2, <2>2, <3>1 DEF Inv, FdsInOrder
      <3>3. r[k].of \in Nat
        BY <3>1, PlanFacts DEF Inv
      <3> QED BY <1>2, <2>1, <3>2, <3>3
    <2> QED BY <1>2, <2>1, <2>2 DEF Inv, FdsInOrder
  <1>new. holder[d] = "none" /\ ~Started("far", d) /\ \A e \in Streams : Started("far", e) => e < d
    <2>1. holder[d] = "none"
      BY <1>2, <1>first
    <2> QED BY <1>2, <1>first, <2>1 DEF Inv, StandInsFit
  <1>old. /\ \A k \in 1..Len(r) : r[k].of \in Streams /\ r[k].of \in Nat
          /\ \A k \in 1..Len(frames["near"]) : frames["near"][k].of \in Streams
    <2>1. ASSUME NEW k \in 1..Len(r) PROVE r[k].of \in Streams /\ r[k].of \in Nat
      BY <1>3, QueuesOf, PlanFacts DEF Inv, Sides
    <2> QED BY <2>1, QueuesOf DEF Sides
  <1> HIDE DEF r, d
  <1>5. FrameTypes'
    BY <1>1, <1>3 DEF Inv, FrameTypes, Sides
  <1>6. PlanTypes'
    BY <1>1, Undisturbed
  <1>7. CASE CloseFlow("far") /\ UNCHANGED <<tables, pumps, avail, holder>>
    <2>1. ended' = [ended EXCEPT !["far"] = TRUE] /\ ended'["far"]
      BY <1>7 DEF CloseFlow, Inv, EndTypes, Sides
    <2>2. EndTypes'
      BY <1>1, <2>1 DEF Inv, EndTypes, Sides
    <2>3. FdsInOrder'
      <3> SUFFICES ASSUME NEW k \in 1..Len(r), r[k].kind = "fds"
                   PROVE  /\ r[k].of <= sent
                          /\ \A e \in Streams : holder[e] # "none" => e < r[k].of
                          /\ \A j \in 1..k - 1 : r[j].kind = "fds" => r[j].of < r[k].of
        BY <1>1, <1>4, <1>7 DEF FdsInOrder, delegation
      <3>1. k + 1 \in 1..Len(q) /\ r[k] = q[k + 1]
            /\ \A j \in 1..k - 1 : r[j] = q[j + 1] /\ j + 1 \in 1..(k + 1) - 1
        BY <1>3
      <3> QED BY <3>1 DEF Inv, FdsInOrder
    <2>4. AllAnnounced'
      BY <2>1 DEF AllAnnounced, Announced
    <2>5. DataInTime'
      BY <1>1, <1>4, <1>7, <2>1 DEF DataInTime, pumps, Inv
    <2>6. /\ TableTypes' /\ PumpTypes' /\ QueueTypes' /\ CreditTypes' /\ HolderTypes'
          /\ PumpsFit' /\ StandInsFit' /\ EntriesRun' /\ AllListed' /\ StandInsBounded'
          /\ HalfClosedReads'
      BY <1>1, <1>7, Undisturbed DEF delegation, tables, pumps, credit, standins
    <2> QED BY <1>5, <1>6, <2>2, <2>3, <2>4, <2>5, <2>6 DEF Inv
  <1>8. CASE /\ Cardinality(Slots) + 1 <= plan.live
             /\ Opens("far", d, Writes(d), Reads(d))
             /\ holder' = [holder EXCEPT ![d] = "open"]
             /\ UNCHANGED <<inq, ended>>
    <2>1. Reads(d) \in BOOLEAN /\ Writes(d) \in BOOLEAN /\ plan' = plan /\ sent' = sent /\ step' = step
      BY <1>1 DEF Reads, Writes, HasDir, delegation
    <2>2. PumpTypes' /\ TableTypes' /\ avail' \in OfStreams(Nat)
      BY <1>2, <1>8, <2>1, OpensFacts DEF Sides
    <2>3. \A t \in Sides, e \in Streams :
            /\ rp'[t][e] = IF t = "far" /\ e = d /\ Writes(d) THEN "runs" ELSE rp[t][e]
            /\ wp'[t][e] = IF t = "far" /\ e = d /\ Reads(d) THEN "runs" ELSE wp[t][e]
      BY <1>2, <1>8, <2>1, OpensFacts DEF Sides
    <2>4. EntriesRun' /\ AllListed'
      BY <1>2, <1>8, <1>new, <2>1, OpensListed DEF Sides
    <2>5. CreditTypes'
      BY <1>1, <2>1, <2>2, Fixed DEF Inv, CreditTypes
    <2>6. holder' \in [Streams -> {"none", "open", "half", "closed", "left"}]
          /\ \A e \in Streams : holder'[e] = IF e = d THEN "open" ELSE holder[e]
      BY <1>8 DEF Inv, HolderTypes
    <2>7. HolderTypes' /\ EndTypes' /\ QueueTypes'
      BY <1>1, <1>8, <2>6 DEF Inv, HolderTypes, EndTypes, QueueTypes
    <2>8. PumpsFit'
      <3>1. \A s \in Sides, e \in Streams : Started(s, e)' => e <= sent
        BY <1>first, <2>3 DEF Inv, PumpsFit, Started
      <3>2. ASSUME NEW e \in Streams
            PROVE  /\ rp'["near"][e] # "no" \/ wp'["far"][e] # "no" => Reads(e)
                   /\ wp'["near"][e] # "no" \/ rp'["far"][e] # "no" => Writes(e)
                   /\ Opened(e) /\ Writes(e) => wp'["near"][e] # "no"
                   /\ step = "open" /\ e = sent => ~Started("near", e)'
        BY <2>3 DEF Inv, PumpsFit, Started, Sides
      <3> QED BY <2>1, <3>1, <3>2, Fixed DEF PumpsFit, Opened
    <2>9. StandInsFit'
      BY <1>1, <1>2, <1>first, <1>new, <2>1, <2>3, <2>6 DEF Inv, StandInsFit, Started, Sides
    <2>10. FdsInOrder'
      <3> SUFFICES ASSUME NEW k \in 1..Len(r), r[k].kind = "fds"
                   PROVE  /\ r[k].of <= sent
                          /\ \A e \in Streams : holder'[e] # "none" => e < r[k].of
                          /\ \A j \in 1..k - 1 : r[j].kind = "fds" => r[j].of < r[k].of
        BY <1>4, <2>1 DEF FdsInOrder
      <3>1. k + 1 \in 1..Len(q) /\ r[k] = q[k + 1]
            /\ \A j \in 1..k - 1 : r[j] = q[j + 1] /\ j + 1 \in 1..(k + 1) - 1
        BY <1>3
      <3>2. d < r[k].of
        BY <1>first, <1>old
      <3> QED BY <2>6, <3>1, <3>2 DEF Inv, FdsInOrder
    <2>11. AllAnnounced'
      <3> SUFFICES ASSUME NEW e \in Streams, e <= sent, Reads(e)
                   PROVE  \/ ended["far"] \/ lost \/ wp'["far"][e] # "no"
                          \/ \E k \in 1..Len(r) : r[k] = Frame("fds", e, 0)
        BY <1>1, <1>4, <1>8, <2>1, Fixed DEF AllAnnounced, Announced
      <3>1. CASE e = d
        BY <3>1, <2>3 DEF Sides
      <3>2. CASE e # d
        <4>1. Announced(e)
          BY DEF Inv, AllAnnounced
        <4>2. ASSUME NEW k \in 1..Len(q), q[k] = Frame("fds", e, 0)
              PROVE  \E j \in 1..Len(r) : r[j] = Frame("fds", e, 0)
          <5>1. k # 1
            BY <1>2, <3>2, <4>2 DEF Frame
          <5>2. k - 1 \in 1..Len(r) /\ r[k - 1] = q[k]
            BY <1>3, <5>1
          <5> QED BY <4>2, <5>2
        <4> QED BY <2>3, <3>2, <4>1, <4>2 DEF Announced, Sides
      <3> QED BY <3>1, <3>2
    <2>12. DataInTime'
      <3>1. ASSUME NEW k \in 1..Len(r), r[k].kind = "data"
            PROVE  /\ Reads(r[k].of)
                   /\ \/ wp'["far"][r[k].of] # "no"
                      \/ \E j \in 1..k - 1 : r[j] = Frame("fds", r[k].of, 0)
        <4>1. k + 1 \in 1..Len(q) /\ r[k] = q[k + 1] /\ r[k].of \in Streams
          BY <1>3, <1>old
        <4>2. InTime(k + 1)
          BY <1>2, <4>1 DEF Inv, DataInTime
        <4>reads. Reads(r[k].of)
          BY <3>1, <4>1, <4>2 DEF InTime
        <4>3. CASE wp["far"][r[k].of] # "no"
          BY <4>reads, <4>1, <4>3, <2>3 DEF Sides
        <4>4. ASSUME NEW j \in 1..(k + 1) - 1, q[j] = Frame("fds", r[k].of, 0)
              PROVE  \/ wp'["far"][r[k].of] # "no"
                     \/ \E i \in 1..k - 1 : r[i] = Frame("fds", r[k].of, 0)
          <5>1. CASE j = 1
            <6>1. r[k].of = d
              BY <1>2, <4>4, <5>1 DEF Frame
            <6> QED BY <1>2, <2>3, <4>reads, <6>1 DEF Sides
          <5>2. CASE j # 1
            <6>1. j - 1 \in 1..k - 1 /\ r[j - 1] = q[j]
              BY <1>3, <5>2
            <6> QED BY <4>4, <6>1
          <5> QED BY <5>1, <5>2
        <4> QED BY <3>1, <4>1, <4>2, <4>3, <4>4, <4>reads DEF InTime
      <3>2. \A e \in Streams : wp'["near"][e] = wp["near"][e]
        BY <2>3 DEF Sides
      <3> QED BY <1>1, <1>4, <1>8, <1>old, <2>1, <3>1, <3>2, Fixed DEF Inv, DataInTime, InTime
    <2>13. StandInsBounded'
      <3>1. Slots' \subseteq Slots \cup {d}
        BY <2>3 DEF Slots, Sides
      <3>2. IsFiniteSet(Slots \cup {d}) /\ Cardinality(Slots \cup {d}) <= Cardinality(Slots) + 1
            /\ Cardinality(Slots) \in Nat
        BY SlotsFinite, FS_AddElement DEF Inv
      <3>3. Cardinality(Slots') <= Cardinality(Slots \cup {d}) /\ Cardinality(Slots') \in Nat
            /\ Cardinality(Slots \cup {d}) \in Nat
        BY <3>1, <3>2, FS_Subset, FS_CardinalityType
      <3>4. plan.live \in Nat
        BY PlanFacts DEF Inv
      <3> QED BY <1>8, <2>1, <3>2, <3>3, <3>4 DEF StandInsBounded
    <2>14. HalfClosedReads'
      <3>1. \A e \in Streams : Replaced("far", e) => Replaced("far", e)'
        <4>1. \A t \in Sides, e \in Streams : Started(t, e) => Started(t, e)'
          BY <2>3 DEF Started
        <4> QED BY <2>1, <4>1, ReplacedStays DEF Inv, Sides
      <3> SUFFICES ASSUME NEW e \in Streams, HasDir(e, "both"), wp'["far"][e] = "ended",
                          holder'[e] \in {"open", "half"}
                   PROVE  shut[e] \/ dropped["far"] \/ Replaced("far", e)
        BY <1>1, <2>1, <3>1, Fixed DEF HalfClosedReads
      <3>2. e # d
        BY <2>3 DEF Reads, Sides
      <3> QED BY <2>3, <2>6, <3>2 DEF Inv, HalfClosedReads, Sides
    <2> QED BY <1>5, <1>6, <2>2, <2>4, <2>5, <2>7, <2>8, <2>9, <2>10, <2>11, <2>12, <2>13, <2>14
            DEF Inv
  <1> QED BY <1>1, <1>7, <1>8 DEF TakesFds, d

-----------------------------------------------------------------------------
(* Who holds a stand-in.                                                     *)

LEMMA HolderStep ==
  ASSUME Inv, NEW d \in Streams, Holder(d)
  PROVE  Inv'
  <1>1. UNCHANGED <<delegation, frames, tables, pumps, credit, shut, hangup, ends>>
    BY DEF Holder, HolderWrites, HolderReads, HolderShuts, HolderCloses
  <1>2. /\ holder' \in [Streams -> {"none", "open", "half", "closed", "left"}]
        /\ toPump' \in [Streams -> 0..1] /\ toHolder' \in [Streams -> 0..1]
        /\ reset' \in [Streams -> BOOLEAN]
        /\ \A e \in Streams :
             /\ holder'[e] # holder[e] => holder[e] \in {"open", "half"} /\ holder'[e] # "none"
             /\ holder'[e] \in {"open", "half"} => holder[e] \in {"open", "half"}
             /\ toPump'[e] > 0 => toPump[e] > 0 \/ (Opened(e) /\ Writes(e))
    <2>1. /\ holder \in [Streams -> {"none", "open", "half", "closed", "left"}]
          /\ toPump \in [Streams -> 0..1] /\ toHolder \in [Streams -> 0..1]
          /\ reset \in [Streams -> BOOLEAN]
      BY DEF Inv, HolderTypes
    <2>2. CASE HolderWrites(d)
      BY <2>1, <2>2 DEF HolderWrites
    <2>3. CASE HolderReads(d)
      BY <2>1, <2>3 DEF HolderReads
    <2>4. CASE HolderShuts(d)
      BY <2>1, <2>4 DEF HolderShuts
    <2>5. CASE HolderCloses(d)
      <3>1. /\ holder[d] \in {"open", "half"} /\ toPump' = toPump
            /\ \E how \in {"closed", "left"} : holder' = [holder EXCEPT ![d] = how]
            /\ reset' = [reset EXCEPT ![d] = toHolder[d] > 0]
            /\ toHolder' = [toHolder EXCEPT ![d] = 0]
        BY <2>5 DEF HolderCloses
      <3> QED BY <2>1, <3>1
    <2> QED BY <2>2, <2>3, <2>4, <2>5 DEF Holder
  <1>3. HolderTypes'
    BY <1>1, <1>2 DEF Inv, HolderTypes
  <1>4. FramesFit'
    <2>1. Forward
      BY <1>1, <1>2 DEF Forward, pumps, ends, Inv, DataInTime, PumpsFit, Sides
    <2> QED BY <1>1, <1>2, <2>1, FramesStay DEF ends
  <1>5. StandInsFit'
    BY <1>1, <1>2 DEF Inv, StandInsFit, Started, delegation, pumps
  <1>6. HalfClosedReads'
    <2>1. PumpsEnd
      BY <1>1 DEF PumpsEnd, pumps
    <2> QED BY <1>1, <1>2, <2>1, EndingReads DEF ends, pumps
  <1>7. /\ PlanTypes' /\ TableTypes' /\ PumpTypes' /\ QueueTypes' /\ CreditTypes' /\ EndTypes'
        /\ PumpsFit' /\ EntriesRun' /\ AllListed' /\ StandInsBounded'
    BY <1>1, Undisturbed DEF delegation, tables, pumps, credit, ends
  <1> QED BY <1>3, <1>4, <1>5, <1>6, <1>7 DEF Inv, FramesFit

-----------------------------------------------------------------------------
(* The theorems.                                                             *)

LEMMA Initially ==
  ASSUME Init
  PROVE  Inv
  <1>1. PlanTypes
    <2>1. plan \in Plans /\ sent = 0 /\ step = "idle"
      BY DEF Init
    <2>2. Len(Dirs) \in Nat
      BY <2>1, StreamsAssumption DEF StreamsAssumption, Dirs
    <2> QED BY <2>1, <2>2 DEF PlanTypes
  <1>2. FrameTypes /\ QueueTypes
    <2>1. <<>> \in Seq(Frames) /\ <<>> \in Seq({"data", "close"})
      OBVIOUS
    <2> QED BY <2>1 DEF Init, FrameTypes, QueueTypes, Both, OfStreams
  <1>3. TableTypes /\ CreditTypes
    BY DEF Init, TableTypes, CreditTypes, Both, OfStreams
  <1>4. PumpTypes
    BY DEF Init, PumpTypes, Both, OfStreams
  <1>5. HolderTypes /\ EndTypes
    <2>1. /\ holder = [d \in Streams |-> "none"]
          /\ toPump = [d \in Streams |-> 0] /\ toHolder = [d \in Streams |-> 0]
          /\ reset = [d \in Streams |-> FALSE] /\ shut = [d \in Streams |-> FALSE]
          /\ hangup = [d \in Streams |-> FALSE]
          /\ ended = [s \in Sides |-> FALSE] /\ dropped = [s \in Sides |-> FALSE]
          /\ lost = FALSE
      BY DEF Init
    <2>2. HolderTypes
      BY <2>1 DEF HolderTypes
    <2>3. EndTypes
      BY <2>1 DEF EndTypes
    <2> QED BY <2>2, <2>3
  <1>6. \A s \in Sides, d \in Streams : rp[s][d] = "no" /\ wp[s][d] = "no" /\ ~Started(s, d)
    BY DEF Init, Both, Started
  <1>7. PumpsFit /\ StandInsFit
    <2>1. \A d \in Streams : d \in Nat /\ d >= 1 /\ ~Opened(d)
      BY <1>1, PlanFacts DEF Init, Opened
    <2> QED BY <1>6, <2>1 DEF Init, PumpsFit, StandInsFit, Sides
  <1>8. FdsInOrder /\ AllAnnounced /\ DataInTime
    <2>1. frames["near"] = <<>> /\ frames["far"] = <<>>
      BY DEF Init, Sides
    <2>2. \A d \in Streams : ~(d <= sent) /\ toPump[d] = 0
      BY <1>1, PlanFacts DEF Init
    <2> QED BY <2>1, <2>2 DEF FdsInOrder, AllAnnounced, DataInTime
  <1>9. EntriesRun /\ AllListed
    <2>1. \A s \in Sides, i \in IdSpace : prog[s][i] = None /\ sink[s][i] = None
      BY DEF Init
    <2> QED BY <1>6, <2>1 DEF EntriesRun, AllListed, Listed
  <1>10. StandInsBounded
    <2>1. Slots = {}
      BY <1>6 DEF Slots, Sides
    <2>2. Cardinality(Slots) = 0 /\ plan.live \in Nat
      BY <1>1, <2>1, FS_EmptySet, PlanFacts
    <2> QED BY <2>2 DEF StandInsBounded
  <1>11. HalfClosedReads
    BY <1>6 DEF HalfClosedReads, Sides
  <1> QED BY <1>1, <1>2, <1>3, <1>4, <1>5, <1>7, <1>8, <1>9, <1>10, <1>11 DEF Inv

LEMMA Stutters ==
  ASSUME Inv, UNCHANGED vars
  PROVE  Inv'
  <1>1. UNCHANGED <<delegation, frames, tables, pumps, credit, standins, ends>>
    BY DEF vars
  <1>2. /\ PlanTypes' /\ FrameTypes' /\ TableTypes' /\ PumpTypes' /\ QueueTypes' /\ CreditTypes'
        /\ HolderTypes' /\ EndTypes' /\ PumpsFit' /\ StandInsFit' /\ FdsInOrder' /\ AllAnnounced'
        /\ DataInTime' /\ EntriesRun' /\ AllListed' /\ StandInsBounded' /\ HalfClosedReads'
    BY <1>1, Undisturbed DEF delegation, tables, pumps, credit, standins, ends
  <1> QED BY <1>2 DEF Inv

LEMMA Inductive ==
  ASSUME Inv, [Next]_vars
  PROVE  Inv'
  <1>1. CASE Delegates \/ OpensPumps \/ OpensFail \/ Loses
    BY <1>1, DelegatesStep, OpensPumpsStep, OpensFailStep, LosesStep
  <1>2. ASSUME NEW s \in Sides, Takes(s) \/ Pays(s) \/ Drops(s) PROVE Inv'
    BY <1>2, TakesDataStep, TakesStreamCloseStep, TakesWindowStep, EndsStep, TakesFdsStep,
       PaysStep DEF Takes
  <1>3. ASSUME NEW s \in Sides, NEW d \in Streams, Reader(s, d) \/ Writer(s, d) PROVE Inv'
    <2>1. CASE Reader(s, d)
      BY <2>1, NearReadsStep, NearCancelsStep, FarReadsStep, FarCancelsStep DEF Reader
    <2>2. CASE Writer(s, d)
      BY <2>2, NearWritesStep, FarWritesStep, FarHangsUpStep, TakesCloseStep, OrphanedStep
         DEF Writer
    <2> QED BY <1>3, <2>1, <2>2
  <1>4. ASSUME NEW d \in Streams, Holder(d) PROVE Inv'
    BY <1>4, HolderStep
  <1>5. CASE UNCHANGED vars
    BY <1>5, Stutters
  <1> QED BY <1>1, <1>2, <1>3, <1>4, <1>5 DEF Next

LEMMA Always == Spec => []Inv
  <1>1. Init => Inv
    BY Initially
  <1>2. Inv /\ [Next]_vars => Inv'
    BY Inductive
  <1> QED BY <1>1, <1>2, PTL DEF Spec

\* The state of a channel has its shape, and both directions of a stand-in hold no
\* more than they may.
THEOREM StreamsTypeOK == Spec => []TypeOK
  <1>1. Inv => TypeOK
    BY DEF Inv, PlanTypes, TableTypes, PumpTypes, QueueTypes, CreditTypes, HolderTypes, EndTypes,
           TypeOK, OfStreams
  <1> QED BY <1>1, Always, PTL

\* Whatever ids wrap and whatever becomes of earlier streams, the tables of an end
\* name the pumps that run (Outbound::drop, StreamSink::drop, and the inserts of
\* open_reader and open_writer).
THEOREM StreamsTablesExact == Spec => []TablesExact
  <1>1. Inv => TablesExact
    <2> SUFFICES ASSUME Inv, NEW s \in Sides
                 PROVE  /\ \A d \in Streams : ~Replaced(s, d) =>
                             /\ rp[s][d] = "runs" => prog[s][Id(d)] = d
                             /\ wp[s][d] = "runs" =>
                                  \/ sink[s][Id(d)] = d
                                  \/ "close" \in {inq[s][d][k] : k \in DOMAIN inq[s][d]}
                        /\ \A i \in IdSpace :
                             /\ prog[s][i] # None => rp[s][prog[s][i]] = "runs"
                             /\ sink[s][i] # None => wp[s][sink[s][i]] = "runs"
      BY DEF TablesExact
    <2>1. ASSUME NEW d \in Streams, HasClose(inq[s][d])
          PROVE  "close" \in {inq[s][d][k] : k \in DOMAIN inq[s][d]}
      <3>1. inq[s][d] \in Seq({"data", "close"})
        BY DEF Inv, QueueTypes, OfStreams
      <3>2. DOMAIN inq[s][d] = 1..Len(inq[s][d])
        BY <3>1
      <3> QED BY <2>1, <3>2 DEF HasClose
    <2>2. \A d \in Streams : Listed(s, d)
      BY DEF Inv, AllListed
    <2> QED BY <2>1, <2>2 DEF Inv, EntriesRun, Listed
  <1> QED BY <1>1, Always, PTL

\* No data of a stream is read before its pump was registered: start_sender_pumps
\* registers first, and at the far end the Fds frame comes first.
THEOREM StreamsNeverTooEarly == Spec => []NeverTooEarly
  <1>1. Inv => NeverTooEarly
    <2> SUFFICES ASSUME Inv, NEW s \in Sides, ~ended[s], NEW k \in DOMAIN frames[s],
                        frames[s][k].kind = "data"
                 PROVE  \/ wp[s][frames[s][k].of] # "no"
                        \/ /\ s = "far"
                           /\ \E j \in 1..k - 1 : frames[s][j] = Frame("fds", frames[s][k].of, 0)
      BY DEF NeverTooEarly
    <2>1. k \in 1..Len(frames[s])
      <3>1. frames[s] \in Seq(Frames)
        BY QueuesOf
      <3> QED BY <3>1
    <2> QED BY <2>1 DEF Inv, DataInTime, InTime, Sides
  <1> QED BY <1>1, Always, PTL

\* No more stand-ins are open than MAX_LIVE_STREAMS.
THEOREM StreamsBounded == Spec => []StandInsBounded
  BY Always, PTL DEF Inv

\* Who shut down what it writes is still written to, to the peer's close.
THEOREM StreamsHalfClosedReads == Spec => []HalfClosedReads
  BY Always, PTL DEF Inv

-----------------------------------------------------------------------------
(* The credit of a sender: where what it spent is, and what a step moves.    *)

Messages == {"data", "close"}

DataIn(q) == Cardinality({k \in DOMAIN q : q[k] = "data"})

LEMMA DataInNat ==
  ASSUME NEW q \in Seq(Messages)
  PROVE  DataIn(q) \in Nat /\ IsFiniteSet({k \in DOMAIN q : q[k] = "data"})
  <1>1. IsFiniteSet(1..Len(q)) /\ DOMAIN q = 1..Len(q)
    BY FS_Interval
  <1>2. IsFiniteSet({k \in DOMAIN q : q[k] = "data"})
    BY <1>1, FS_Subset
  <1> QED BY <1>2, FS_CardinalityType DEF DataIn

LEMMA DataInEmpty == DataIn(<<>>) = 0
  <1>1. {k \in DOMAIN <<>> : <<>>[k] = "data"} = {}
    OBVIOUS
  <1> QED BY <1>1, FS_EmptySet DEF DataIn

LEMMA DataInAppend ==
  ASSUME NEW q \in Seq(Messages)
  PROVE  /\ DataIn(Append(q, "data")) = DataIn(q) + 1
         /\ DataIn(Append(q, "close")) = DataIn(q)
  <1> DEFINE S == {k \in DOMAIN q : q[k] = "data"}
             n == Len(q) + 1
  <1>1. IsFiniteSet(S)
    BY DataInNat
  <1>n. n \notin S
    OBVIOUS
  <1>2. {k \in DOMAIN Append(q, "data") : Append(q, "data")[k] = "data"} = S \cup {n}
    OBVIOUS
  <1>3. {k \in DOMAIN Append(q, "close") : Append(q, "close")[k] = "data"} = S
    OBVIOUS
  <1> HIDE DEF S, n
  <1>4. Cardinality(S \cup {n}) = Cardinality(S) + 1
    BY <1>1, <1>n, FS_AddElement
  <1> QED BY <1>2, <1>3, <1>4 DEF DataIn, S

LEMMA DataInTail ==
  ASSUME NEW q \in Seq(Messages), q # <<>>, Head(q) = "data"
  PROVE  DataIn(Tail(q)) + 1 = DataIn(q)
  <1> DEFINE S == {k \in DOMAIN q : q[k] = "data"}
             T == {k \in DOMAIN Tail(q) : Tail(q)[k] = "data"}
             f == [k \in T |-> k + 1]
  <1>1. IsFiniteSet(S) /\ IsFiniteSet(T)
    <2>1. Tail(q) \in Seq(Messages)
      OBVIOUS
    <2> QED BY <2>1, DataInNat, Zenon
  <1>2. /\ Len(Tail(q)) = Len(q) - 1 /\ Len(q) \in Nat /\ Len(q) > 0 /\ q[1] = "data"
        /\ DOMAIN q = 1..Len(q) /\ DOMAIN Tail(q) = 1..Len(Tail(q))
        /\ \A k \in 1..Len(Tail(q)) : Tail(q)[k] = q[k + 1]
    OBVIOUS
  <1>3. f \in Bijection(T, S \ {1})
    <2>1. ASSUME NEW k \in T PROVE k + 1 \in S \ {1}
      BY <1>2
    <2>2. f \in [T -> S \ {1}]
      BY <2>1
    <2>3. ASSUME NEW k \in S \ {1} PROVE \E j \in T : f[j] = k
      <3>1. k - 1 \in T /\ f[k - 1] = k
        BY <1>2
      <3> QED BY <3>1
    <2>4. \A j, k \in T : f[j] = f[k] => j = k
      BY <1>2
    <2> QED BY <2>2, <2>3, <2>4 DEF Bijection, Injection, Surjection, IsInjective
  <1>4. 1 \in S
    BY <1>2
  <1> HIDE DEF S, T, f
  <1>5. Cardinality(S \ {1}) = Cardinality(T)
    BY <1>1, <1>3, FS_Bijection DEF ExistsBijection
  <1>6. Cardinality(S \ {1}) = Cardinality(S) - 1 /\ Cardinality(S) \in Nat
    BY <1>1, <1>4, FS_RemoveElement, FS_CardinalityType
  <1>7. Cardinality(T) + 1 = Cardinality(S)
    BY <1>5, <1>6
  <1> QED BY <1>7, Zenon DEF DataIn, S, T

\* A close that is the last message is the only one, if it is the first.
LEMMA DataInClose ==
  ASSUME NEW q \in Seq(Messages), q # <<>>, Head(q) = "close",
         \A k \in 1..Len(q) : q[k] = "close" => k = Len(q)
  PROVE  DataIn(q) = 0
  <1>1. Len(q) \in Nat /\ Len(q) > 0 /\ q[1] = "close" /\ DOMAIN q = 1..Len(q)
    OBVIOUS
  <1>n. Len(q) = 1
    <2>1. \A n \in Nat : n > 0 => 1 \in 1..n
      OBVIOUS
    <2> QED BY <1>1, <2>1, Zenon
  <1>2. {k \in DOMAIN q : q[k] = "data"} = {}
    BY <1>1, <1>n
  <1> QED BY <1>2, FS_EmptySet DEF DataIn

\* What the queues of the pumps of one id hold.
Row(qs, i) == [d \in Streams |-> IF Id(d) = i THEN DataIn(qs[d]) ELSE 0]

Waiting(qs, i) == Total(Row(qs, i))

LEMMA WaitingNat ==
  ASSUME Inv, NEW qs \in [Streams -> Seq(Messages)], NEW i
  PROVE  Row(qs, i) \in Seq(Nat) /\ Len(Row(qs, i)) = Most /\ Waiting(qs, i) \in Nat
  <1>1. Most \in Nat /\ Streams = 1..Most
    BY PlanFacts DEF Inv, Streams
  <1>2. \A d \in Streams : DataIn(qs[d]) \in Nat
    BY DataInNat
  <1>3. Row(qs, i) \in [1..Most -> Nat]
    BY <1>1, <1>2 DEF Row
  <1>4. Row(qs, i) \in Seq(Nat) /\ Len(Row(qs, i)) = Most
    BY <1>1, <1>3
  <1> QED BY <1>4, TotalNat DEF Waiting

LEMMA QueuesTyped ==
  ASSUME Inv
  PROVE  inq \in [Sides -> [Streams -> Seq(Messages)]]
  BY DEF Inv, QueueTypes, OfStreams, Messages

LEMMA UnwrittenIs ==
  ASSUME Inv, NEW u \in Sides, NEW i
  PROVE  Unwritten(u, i) = Waiting(inq[u], i) /\ Waiting(inq[u], i) \in Nat
  <1>1. Unwritten(u, i) = Waiting(inq[u], i)
    BY DEF Unwritten, Waiting, Row, DataIn
  <1> QED BY <1>1, WaitingNat, QueuesTyped

LEMMA UnwrittenNext ==
  ASSUME plan' = plan, NEW u, NEW i
  PROVE  Unwritten(u, i)' = Waiting(inq'[u], i)
  <1>1. \A d : Id(d)' = Id(d)
    BY Fixed
  <1>2. Unwritten(u, i)' =
          Total([d \in Streams |-> IF Id(d)' = i THEN DataIn(inq'[u][d]) ELSE 0])
    BY Zenon DEF Unwritten, DataIn
  <1>3. [d \in Streams |-> IF Id(d)' = i THEN DataIn(inq'[u][d]) ELSE 0] = Row(inq'[u], i)
    BY <1>1 DEF Row
  <1> QED BY <1>2, <1>3, Zenon DEF Waiting

\* The queue of one pump changes.
Becomes(t, e, r) == inq' = [inq EXCEPT ![t][e] = r]

LEMMA WaitingSet ==
  ASSUME Inv, NEW t \in Sides, NEW e \in Streams, NEW r \in Seq(Messages),
         Becomes(t, e, r)
  PROVE  /\ \A u \in Sides : \A i :
              /\ u = t /\ Id(e) = i =>
                   Waiting(inq'[u], i) + DataIn(inq[t][e]) = Waiting(inq[u], i) + DataIn(r)
              /\ u # t \/ Id(e) # i => Waiting(inq'[u], i) = Waiting(inq[u], i)
              /\ Waiting(inq'[u], i) \in Nat
         /\ DataIn(inq[t][e]) \in Nat /\ DataIn(r) \in Nat
  <1>i. inq' = [inq EXCEPT ![t][e] = r]
    BY DEF Becomes
  <1>1. inq \in [Sides -> [Streams -> Seq(Messages)]]
    BY QueuesTyped
  <1>0. DataIn(inq[t][e]) \in Nat /\ DataIn(r) \in Nat
    BY <1>1, DataInNat
  <1> SUFFICES ASSUME NEW u \in Sides, NEW i
               PROVE  /\ u = t /\ Id(e) = i =>
                           Waiting(inq'[u], i) + DataIn(inq[t][e]) = Waiting(inq[u], i) + DataIn(r)
                      /\ u # t \/ Id(e) # i => Waiting(inq'[u], i) = Waiting(inq[u], i)
                      /\ Waiting(inq'[u], i) \in Nat
    BY <1>0, Zenon
  <1>2. inq'[u] \in [Streams -> Seq(Messages)]
    BY <1>i, <1>1
  <1>3. Waiting(inq'[u], i) \in Nat /\ DataIn(inq[t][e]) \in Nat /\ DataIn(r) \in Nat
    BY <1>0, <1>2, WaitingNat
  <1>4. ASSUME u = t, Id(e) = i
        PROVE  Waiting(inq'[u], i) + DataIn(inq[t][e]) = Waiting(inq[u], i) + DataIn(r)
    <2> DEFINE row == Row(inq[u], i)
               n == DataIn(r)
    <2>1. row \in Seq(Nat) /\ e \in 1..Len(row) /\ n \in Nat /\ row[e] = DataIn(inq[t][e])
      <3>1. inq[u] \in [Streams -> Seq(Messages)]
        BY <1>1
      <3>2. row \in Seq(Nat) /\ Len(row) = Most
        BY <3>1, WaitingNat
      <3>3. row[e] = DataIn(inq[t][e])
        BY <1>4 DEF Row
      <3> HIDE DEF row
      <3> QED BY <1>3, <3>2, <3>3 DEF Streams
    <2>2. Row(inq'[u], i) = [row EXCEPT ![e] = n]
      BY <1>i, <1>1, <1>4 DEF Row
    <2> HIDE DEF row, n
    <2>3. Total([row EXCEPT ![e] = n]) + row[e] = Total(row) + n
      BY <2>1, TotalExcept
    <2>4. Waiting(inq'[u], i) + row[e] = Waiting(inq[u], i) + n
      BY <2>2, <2>3, Zenon DEF Waiting, row
    <2> QED BY <2>1, <2>4 DEF n
  <1>5. ASSUME u # t \/ Id(e) # i PROVE Waiting(inq'[u], i) = Waiting(inq[u], i)
    <2>1. Row(inq'[u], i) = Row(inq[u], i)
      BY <1>i, <1>1, <1>5 DEF Row
    <2> QED BY <2>1, Zenon DEF Waiting
  <1> QED BY <1>3, <1>4, <1>5

\* What a frame carries of an id.
Worth(kind, i) == [f \in Frames |-> IF f.kind = kind /\ Id(f.of) = i THEN f.n ELSE 0]

LEMMA WorthNat ==
  ASSUME NEW kind, NEW i
  PROVE  Worth(kind, i) \in [Frames -> Nat]
  BY DEF Worth, Frames

LEMMA CarriesIs ==
  ASSUME NEW queue \in Seq(Frames), NEW kind, NEW i
  PROVE  Carries(queue, kind, i) = Weigh(Worth(kind, i), queue) /\ Carries(queue, kind, i) \in Nat
  <1>1. \A k \in 1..Len(queue) : queue[k] \in Frames
    OBVIOUS
  <1>2. DOMAIN queue = 1..Len(queue)
    OBVIOUS
  <1>3. Weighings(Worth(kind, i), queue) =
          [k \in DOMAIN queue |->
             IF queue[k].kind = kind /\ Id(queue[k].of) = i THEN queue[k].n ELSE 0]
    BY <1>1, <1>2 DEF Weighings, Worth
  <1>4. Carries(queue, kind, i) = Weigh(Worth(kind, i), queue)
    BY <1>3 DEF Carries, Weigh
  <1> QED BY <1>4, WorthNat, WeighNat

LEMMA CarriesNext ==
  ASSUME plan' = plan, NEW u, NEW kind, NEW i
  PROVE  Carries(frames[u], kind, i)' = Carries(frames'[u], kind, i)
  <1>1. \A d : Id(d)' = Id(d)
    BY Fixed
  <1> QED BY <1>1 DEF Carries

\* A frame more is queued.
LEMMA CarriesQueued ==
  ASSUME Inv, NEW t \in Sides, NEW f \in Frames, Queues(t, f)
  PROVE  \A u \in Sides : \A kind, i :
           /\ u = Other(t) /\ ~Gone(t) /\ f.kind = kind /\ Id(f.of) = i =>
                Carries(frames'[u], kind, i) = Carries(frames[u], kind, i) + f.n
           /\ ~(u = Other(t) /\ ~Gone(t) /\ f.kind = kind /\ Id(f.of) = i) =>
                Carries(frames'[u], kind, i) = Carries(frames[u], kind, i)
  <1> SUFFICES ASSUME NEW u \in Sides, NEW kind, NEW i
               PROVE  /\ u = Other(t) /\ ~Gone(t) /\ f.kind = kind /\ Id(f.of) = i =>
                           Carries(frames'[u], kind, i) = Carries(frames[u], kind, i) + f.n
                      /\ ~(u = Other(t) /\ ~Gone(t) /\ f.kind = kind /\ Id(f.of) = i) =>
                           Carries(frames'[u], kind, i) = Carries(frames[u], kind, i)
    BY Zenon
  <1> DEFINE w == Worth(kind, i)
             q == frames[u]
  <1>2. q \in Seq(Frames) /\ frames \in [Sides -> Seq(Frames)]
    BY DEF Inv, FrameTypes
  <1>3. Carries(q, kind, i) = Weigh(w, q) /\ Carries(q, kind, i) \in Nat
    BY <1>2, CarriesIs
  <1>4. w \in [Frames -> Nat] /\ w[f] = IF f.kind = kind /\ Id(f.of) = i THEN f.n ELSE 0
    BY WorthNat DEF Worth
  <1>5. CASE u = Other(t) /\ ~Gone(t)
    <2>1. frames'[u] = Append(q, f) /\ Append(q, f) \in Seq(Frames)
      BY <1>2, <1>5 DEF Queues
    <2> HIDE DEF w
    <2>2. Weigh(w, Append(q, f)) = Weigh(w, q) + w[f]
      BY <1>2, <1>4, WeighAppend
    <2>3. Carries(frames'[u], kind, i) = Weigh(w, Append(q, f))
      BY <2>1, CarriesIs DEF w
    <2>4. Carries(frames'[u], kind, i) = Carries(q, kind, i) + w[f]
      BY <2>2, <2>3, <1>3
    <2> QED BY <1>3, <1>4, <1>5, <2>4
  <1>6. CASE u # Other(t) \/ Gone(t)
    <2>1. frames'[u] = frames[u]
      BY <1>2, <1>6 DEF Queues
    <2> QED BY <1>6, <2>1
  <1> QED BY <1>5, <1>6

\* A frame is read.
HasRead(t, h) == frames[t] # <<>> /\ Rest(t) /\ h = Head(frames[t])

LEMMA CarriesRead ==
  ASSUME Inv, NEW t \in Sides, NEW h, HasRead(t, h)
  PROVE  \A u \in Sides : \A kind, i :
           /\ u = t /\ h.kind = kind /\ Id(h.of) = i =>
                Carries(frames[u], kind, i) = Carries(frames'[u], kind, i) + h.n
           /\ ~(u = t /\ h.kind = kind /\ Id(h.of) = i) =>
                Carries(frames[u], kind, i) = Carries(frames'[u], kind, i)
           /\ Carries(frames'[u], kind, i) \in Nat
  <1> SUFFICES ASSUME NEW u \in Sides, NEW kind, NEW i
               PROVE  /\ u = t /\ h.kind = kind /\ Id(h.of) = i =>
                           Carries(frames[u], kind, i) = Carries(frames'[u], kind, i) + h.n
                      /\ ~(u = t /\ h.kind = kind /\ Id(h.of) = i) =>
                           Carries(frames[u], kind, i) = Carries(frames'[u], kind, i)
                      /\ Carries(frames'[u], kind, i) \in Nat
    BY Zenon
  <1> DEFINE w == Worth(kind, i)
             q == frames[t]
  <1>2. q \in Seq(Frames) /\ q # <<>> /\ frames \in [Sides -> Seq(Frames)] /\ Rest(t) /\ h = Head(q)
    BY DEF Inv, FrameTypes, HasRead
  <1>3. Tail(q) \in Seq(Frames) /\ h \in Frames
    BY <1>2, TailFacts
  <1>4. w \in [Frames -> Nat] /\ w[h] = IF h.kind = kind /\ Id(h.of) = i THEN h.n ELSE 0
    BY <1>3, WorthNat DEF Worth
  <1>5. CASE u = t
    <2>1. frames'[u] = Tail(q)
      BY <1>2, <1>5 DEF Rest
    <2> HIDE DEF w
    <2>2. Weigh(w, q) = w[Head(q)] + Weigh(w, Tail(q))
      BY <1>2, <1>4, WeighTail
    <2>3. Carries(q, kind, i) = Weigh(w, q)
      BY <1>2, CarriesIs DEF w
    <2>4. Carries(Tail(q), kind, i) = Weigh(w, Tail(q)) /\ Carries(Tail(q), kind, i) \in Nat
      BY <1>3, CarriesIs DEF w
    <2>5. w[h] \in Nat
      BY <1>3, <1>4
    <2>6. Carries(q, kind, i) = Carries(Tail(q), kind, i) + w[h]
      BY <1>2, <2>2, <2>3, <2>4, <2>5
    <2> QED BY <1>4, <1>5, <2>1, <2>4, <2>6
  <1>6. CASE u # t
    <2>1. frames'[u] = frames[u] /\ frames[u] \in Seq(Frames)
      BY <1>2, <1>6 DEF Rest
    <2>2. Carries(frames[u], kind, i) \in Nat
      BY <2>1, CarriesIs
    <2> QED BY <1>6, <2>1, <2>2
  <1> QED BY <1>5, <1>6

\* The terms of what is spent.
LEMMA SpentIs ==
  ASSUME Inv, NEW s \in Sides, NEW i \in IdSpace, NEW o, o = Other(s)
  PROVE  /\ o \in Sides /\ s = Other(o)
         /\ Spent(s, i) = Carries(frames[o], "data", i) + Waiting(inq[o], i) + owed[o][i]
                          + Carries(frames[s], "window", i)
         /\ Carries(frames[o], "data", i) \in Nat /\ Waiting(inq[o], i) \in Nat
         /\ owed[o][i] \in Nat /\ Carries(frames[s], "window", i) \in Nat
         /\ Spent(s, i) \in Nat
  <1>1. o \in Sides /\ s = Other(o)
    BY DEF Other, Sides
  <1>2. Spent(s, i) = Carries(frames[o], "data", i) + Unwritten(o, i) + owed[o][i]
                      + Carries(frames[s], "window", i)
    BY DEF Spent
  <1>3. frames[o] \in Seq(Frames) /\ frames[s] \in Seq(Frames)
    BY <1>1, QueuesOf
  <1>4. owed[o][i] \in Nat
    BY <1>1 DEF Inv, CreditTypes
  <1>5. Carries(frames[o], "data", i) \in Nat /\ Carries(frames[s], "window", i) \in Nat
    BY <1>3, CarriesIs
  <1>6. Unwritten(o, i) = Waiting(inq[o], i) /\ Waiting(inq[o], i) \in Nat
    BY <1>1, UnwrittenIs
  <1>7. Spent(s, i) \in Nat
    BY <1>2, <1>4, <1>5, <1>6
  <1> QED BY <1>1, <1>2, <1>4, <1>5, <1>6, <1>7

LEMMA SpentNext ==
  ASSUME plan' = plan, NEW s \in Sides, NEW i, NEW o, o = Other(s)
  PROVE  Spent(s, i)' = Carries(frames'[o], "data", i) + Waiting(inq'[o], i)
                        + owed'[o][i] + Carries(frames'[s], "window", i)
  <1>1. Spent(s, i)' = Carries(frames[o], "data", i)' + Unwritten(o, i)'
                       + owed'[o][i] + Carries(frames[s], "window", i)'
    BY DEF Spent, Other
  <1>2. /\ Carries(frames[o], "data", i)' = Carries(frames'[o], "data", i)
        /\ Carries(frames[s], "window", i)' = Carries(frames'[s], "window", i)
    BY CarriesNext
  <1>3. Unwritten(o, i)' = Waiting(inq'[o], i)
    BY UnwrittenNext
  <1> QED BY <1>1, <1>2, <1>3

-----------------------------------------------------------------------------
(* What is queued, on which the credit rests.                                *)

\* A frame of data costs one.
DataOnes ==
  \A s \in Sides : \A k \in 1..Len(frames[s]) :
    frames[s][k].kind = "data" => frames[s][k].n = 1

\* Only a pump that runs has messages, a close behind all others; one that has its
\* entry has no close yet.
QueuesFit ==
  \A s \in Sides, d \in Streams :
    /\ inq[s][d] # <<>> => wp[s][d] = "runs"
    /\ \A k \in 1..Len(inq[s][d]) : inq[s][d][k] = "close" => k = Len(inq[s][d])
    /\ sink[s][Id(d)] = d => ~HasClose(inq[s][d])

\* What is owed is of an id under which the other end sends.
OwedFit == \A s \in Sides, i \in IdSpace : owed[s][i] > 0 => i \in SenderIds(Other(s))

Queueing == DataOnes /\ QueuesFit /\ OwedFit

LEMMA FrameIn ==
  ASSUME NEW kind \in {"fds", "data", "close", "window"}, NEW d \in Streams, NEW n \in Nat
  PROVE  /\ Frame(kind, d, n) \in Frames /\ Frame(kind, d, n).kind = kind
         /\ Frame(kind, d, n).of = d /\ Frame(kind, d, n).n = n
  BY DEF Frame, Frames

LEMMA DataOnesQueued ==
  ASSUME Inv, DataOnes, NEW t \in Sides, NEW f \in Frames, f.kind = "data" => f.n = 1, Queues(t, f)
  PROVE  DataOnes'
  <1>1. frames \in [Sides -> Seq(Frames)]
    BY DEF Inv, FrameTypes
  <1>2. CASE frames' = frames
    BY <1>2 DEF DataOnes
  <1>3. CASE frames' = [frames EXCEPT ![Other(t)] = Append(@, f)]
    <2> SUFFICES ASSUME NEW s \in Sides, NEW k \in 1..Len(frames'[s]),
                        frames'[s][k].kind = "data"
                 PROVE  frames'[s][k].n = 1
      BY DEF DataOnes
    <2>1. CASE s # Other(t)
      BY <1>1, <1>3, <2>1 DEF DataOnes
    <2>2. CASE s = Other(t)
      <3> DEFINE q == frames[s]
                 r == Append(q, f)
      <3>1. q \in Seq(Frames) /\ frames'[s] = r
        BY <1>1, <1>3, <2>2
      <3>2. /\ Len(r) = Len(q) + 1 /\ Len(q) \in Nat /\ r[Len(q) + 1] = f
            /\ \A j \in 1..Len(q) : r[j] = q[j]
        BY <3>1, AppendFacts
      <3> HIDE DEF r
      <3>3. k = Len(q) + 1 \/ k \in 1..Len(q)
        BY <3>1, <3>2
      <3> QED BY <3>1, <3>2, <3>3 DEF DataOnes
    <2> QED BY <2>1, <2>2
  <1> QED BY <1>2, <1>3 DEF Queues

LEMMA DataOnesRead ==
  ASSUME Inv, DataOnes, NEW t \in Sides, frames[t] # <<>>, Rest(t)
  PROVE  DataOnes'
  <1>1. frames \in [Sides -> Seq(Frames)]
    BY DEF Inv, FrameTypes
  <1> SUFFICES ASSUME NEW s \in Sides, NEW k \in 1..Len(frames'[s]),
                      frames'[s][k].kind = "data"
               PROVE  frames'[s][k].n = 1
    BY DEF DataOnes
  <1>2. CASE s # t
    BY <1>1, <1>2 DEF DataOnes, Rest
  <1>3. CASE s = t
    <2> DEFINE q == frames[s]
               r == Tail(q)
    <2>1. q \in Seq(Frames) /\ q # <<>> /\ frames'[s] = r
      BY <1>1, <1>3 DEF Rest
    <2>2. /\ Len(q) \in Nat /\ Len(q) > 0 /\ Len(r) = Len(q) - 1
          /\ \A j \in 1..Len(r) : r[j] = q[j + 1]
      BY <2>1, TailFacts
    <2> HIDE DEF r
    <2>3. k + 1 \in 1..Len(q) /\ r[k] = q[k + 1]
      BY <2>1, <2>2
    <2> QED BY <2>1, <2>3 DEF DataOnes
  <1> QED BY <1>2, <1>3

\* Every step queues a frame, reads one, loses them all or leaves them.
LEMMA DataOnesStep ==
  ASSUME Inv, DataOnes, [Next]_vars
  PROVE  DataOnes'
  <1>0. CASE frames' = frames
    BY <1>0 DEF DataOnes
  <1>1. CASE Loses
    <2>1. frames' = [s \in Sides |-> <<>>]
      BY <1>1 DEF Loses
    <2> QED BY <2>1 DEF DataOnes
  <1>2. CASE Delegates
    <2>1. sent + 1 \in Streams
      BY <1>2, PlanFacts DEF Inv, Delegates
    <2>2. Queues("near", Frame("fds", sent + 1, 0))
      BY <1>2 DEF Delegates
    <2> QED BY <2>1, <2>2, FrameIn, DataOnesQueued DEF Sides
  <1>3. ASSUME NEW s \in Sides, NEW d \in Streams, SendsData(s, d) \/ SendsClose(s, d)
        PROVE  DataOnes'
    BY <1>3, FrameIn, DataOnesQueued DEF SendsData, SendsClose
  <1>4. ASSUME NEW s \in Sides, NEW d \in Streams, Consumes(s, d)
        PROVE  DataOnes'
    BY <1>4, FrameIn, DataOnesQueued DEF Consumes
  <1>5. ASSUME NEW s \in Sides, NEW d \in Streams, Abandons(s, d)
        PROVE  DataOnes'
    <2> DEFINE n == Cardinality({k \in DOMAIN inq[s][d] : inq[s][d][k] = "data"})
    <2>1. n \in Nat
      <3>1. inq[s][d] \in Seq(Messages)
        BY DEF Inv, QueueTypes, OfStreams, Messages
      <3> QED BY <3>1, DataInNat DEF DataIn
    <2>2. Queues(s, Frame("window", d, n))
      BY <1>5 DEF Abandons
    <2> HIDE DEF n
    <2> QED BY <2>1, <2>2, FrameIn, DataOnesQueued
  <1>6. ASSUME NEW s \in Sides, NEW kind, Reads1(s, kind), Rest(s)
        PROVE  DataOnes'
    BY <1>6, DataOnesRead DEF Reads1
  <1>7. ASSUME NEW s \in Sides, Pays(s)
        PROVE  DataOnes'
    <2>1. PICK i \in IdSpace :
            /\ owed[s][i] > 0
            /\ Queues(s, Frame("window", CHOOSE d \in Streams : Id(d) = i, owed[s][i]))
      BY <1>7 DEF Pays
    <2>2. (CHOOSE d \in Streams : Id(d) = i) \in Streams /\ owed[s][i] \in Nat
      BY <2>1 DEF Inv, CreditTypes
    <2> QED BY <2>1, <2>2, FrameIn, DataOnesQueued
  <1>8. CASE OpensPumps \/ OpensFail
    BY <1>0, <1>8 DEF OpensPumps, OpensFail
  <1>9. ASSUME NEW s \in Sides, Takes(s) \/ Drops(s) PROVE DataOnes'
    <2>1. CASE TakesData(s)
      BY <2>1, <1>6 DEF TakesData
    <2>2. CASE TakesStreamClose(s)
      BY <2>2, <1>6 DEF TakesStreamClose
    <2>3. CASE TakesWindow(s)
      BY <2>3, <1>6 DEF TakesWindow
    <2>4. CASE TakesEnd(s) \/ Drops(s)
      BY <2>4, <1>0 DEF TakesEnd, Drops
    <2>5. CASE s = "far" /\ TakesFds
      BY <2>5, <1>6 DEF TakesFds
    <2> QED BY <1>9, <2>1, <2>2, <2>3, <2>4, <2>5 DEF Takes
  <1>10. ASSUME NEW s \in Sides, NEW d \in Streams, Reader(s, d) PROVE DataOnes'
    <2>1. CASE NearCancels(d) \/ FarCancels(d)
      BY <2>1, <1>0 DEF NearCancels, FarCancels
    <2>2. CASE NearReads(d)
      BY <2>2, <1>3 DEF NearReads, Sides
    <2>3. CASE FarReads(d)
      BY <2>3, <1>0, <1>3 DEF FarReads, Sides
    <2> QED BY <1>10, <2>1, <2>2, <2>3 DEF Reader
  <1>11. ASSUME NEW s \in Sides, NEW d \in Streams, Writer(s, d) PROVE DataOnes'
    <2>1. CASE TakesClose(s, d) \/ Orphaned(s, d)
      BY <2>1, <1>0 DEF TakesClose, Orphaned
    <2>2. CASE NearWrites(d)
      BY <2>2, <1>4, <1>5 DEF NearWrites, Sides
    <2>3. CASE FarWrites(d)
      BY <2>3, <1>4, <1>5 DEF FarWrites, Sides
    <2>4. CASE FarHangsUp(d)
      BY <2>4, <1>5 DEF FarHangsUp, Sides
    <2> QED BY <1>11, <2>1, <2>2, <2>3, <2>4 DEF Writer
  <1>12. ASSUME NEW d \in Streams, Holder(d) PROVE DataOnes'
    BY <1>12, <1>0 DEF Holder, HolderWrites, HolderReads, HolderShuts, HolderCloses
  <1>13. CASE UNCHANGED vars
    BY <1>13, <1>0 DEF vars
  <1> QED BY <1>1, <1>2, <1>7, <1>8, <1>9, <1>10, <1>11, <1>12, <1>13 DEF Next

\* The queues are what they were.
LEMMA QueuesStay ==
  ASSUME Inv, QueuesFit, UNCHANGED <<plan, inq>>,
         \A t \in Sides, e \in Streams : inq[t][e] # <<>> /\ wp[t][e] = "runs" => wp'[t][e] = "runs",
         \A t \in Sides, e \in Streams :
           sink'[t][Id(e)] = e => sink[t][Id(e)] = e \/ inq[t][e] = <<>>
  PROVE  QueuesFit'
  <1> SUFFICES ASSUME NEW t \in Sides, NEW e \in Streams
               PROVE  /\ inq[t][e] # <<>> => wp'[t][e] = "runs"
                      /\ \A k \in 1..Len(inq[t][e]) : inq[t][e][k] = "close" => k = Len(inq[t][e])
                      /\ sink'[t][Id(e)] = e => ~HasClose(inq[t][e])
    BY Fixed DEF QueuesFit
  <1>1. inq[t][e] = <<>> => ~HasClose(inq[t][e])
    BY DEF HasClose
  <1> QED BY <1>1 DEF QueuesFit

\* One of them becomes r, which fits, and nothing else is disturbed.
FitsChanged(t, e, r) ==
  /\ inq' = [inq EXCEPT ![t][e] = r]
  /\ r # <<>> => wp'[t][e] = "runs"
  /\ \A k \in 1..Len(r) : r[k] = "close" => k = Len(r)
  /\ sink'[t][Id(e)] = e => ~HasClose(r)
  /\ \A u \in Sides, d \in Streams :
       u # t \/ d # e => /\ wp'[u][d] = wp[u][d]
                         /\ sink'[u][Id(d)] = d => sink[u][Id(d)] = d

LEMMA QueueChanges ==
  ASSUME Inv, QueuesFit, plan' = plan, NEW t \in Sides, NEW e \in Streams, NEW r,
         FitsChanged(t, e, r)
  PROVE  QueuesFit'
  <1>1. inq \in [Sides -> [Streams -> Seq(Messages)]]
    BY DEF Inv, QueueTypes, OfStreams, Messages
  <1>2. SUFFICES ASSUME NEW u \in Sides, NEW d \in Streams
                 PROVE  /\ inq'[u][d] # <<>> => wp'[u][d] = "runs"
                        /\ \A k \in 1..Len(inq'[u][d]) :
                             inq'[u][d][k] = "close" => k = Len(inq'[u][d])
                        /\ sink'[u][Id(d)] = d => ~HasClose(inq'[u][d])
    BY Fixed DEF QueuesFit
  <1>3. CASE u = t /\ d = e
    <2>1. inq'[u][d] = r
      BY <1>1, <1>3 DEF FitsChanged
    <2> QED BY <1>3, <2>1 DEF FitsChanged
  <1>4. CASE u # t \/ d # e
    <2>1. inq'[u][d] = inq[u][d]
      BY <1>1, <1>4 DEF FitsChanged
    <2> QED BY <1>4, <2>1 DEF QueuesFit, FitsChanged
  <1> QED BY <1>3, <1>4

\* A writer pump ends, and its queue with it.
LEMMA QueueEnds ==
  ASSUME Inv, QueuesFit, plan' = plan, NEW s \in Sides, NEW d \in Streams, WriterEnds(s, d),
         inq' = [inq EXCEPT ![s][d] = <<>>]
  PROVE  QueuesFit'
  <1>1. \A u \in Sides, e \in Streams : u # s \/ e # d => wp'[u][e] = wp[u][e]
    BY DEF WriterEnds, Inv, PumpTypes, OfStreams
  <1>2. \A u \in Sides, e \in Streams : sink'[u][Id(e)] = e => sink[u][Id(e)] = e
    <2>1. \A e \in Streams : Id(e) \in IdSpace /\ e # None
      BY PlanFacts DEF Inv, None
    <2> QED BY <2>1 DEF WriterEnds, Unlisted, Inv, TableTypes
  <1>3. ~HasClose(<<>>) /\ \A k \in 1..Len(<<>>) : FALSE
    BY DEF HasClose
  <1>4. FitsChanged(s, d, <<>>)
    BY <1>1, <1>2, <1>3 DEF FitsChanged
  <1> QED BY <1>4, QueueChanges

\* The first message is taken.
LEMMA QueueTaken ==
  ASSUME Inv, QueuesFit, plan' = plan, NEW s \in Sides, NEW d \in Streams,
         Message(s, d, "data"), inq' = [inq EXCEPT ![s][d] = Tail(@)], UNCHANGED <<wp, sink>>
  PROVE  QueuesFit'
  <1> DEFINE q == inq[s][d]
             r == Tail(q)
  <1>1. q \in Seq(Messages) /\ q # <<>> /\ wp[s][d] = "runs"
    BY MessageFacts DEF Messages
  <1>2. /\ r \in Seq(Messages) /\ Len(q) \in Nat /\ Len(r) = Len(q) - 1
        /\ \A k \in 1..Len(r) : r[k] = q[k + 1]
    BY <1>1, TailFacts
  <1>3. inq' = [inq EXCEPT ![s][d] = r]
    OBVIOUS
  <1> HIDE DEF r
  <1>4. \A k \in 1..Len(r) : r[k] = "close" => k = Len(r)
    <2> SUFFICES ASSUME NEW k \in 1..Len(r), r[k] = "close" PROVE k = Len(r)
      OBVIOUS
    <2>1. k + 1 \in 1..Len(q) /\ q[k + 1] = "close"
      BY <1>2
    <2>2. k + 1 = Len(q)
      BY <2>1 DEF QueuesFit
    <2> QED BY <1>2, <2>2
  <1>5. sink'[s][Id(d)] = d => ~HasClose(r)
    <2> SUFFICES ASSUME sink[s][Id(d)] = d, NEW k \in 1..Len(r), r[k] = "close" PROVE FALSE
      BY DEF HasClose
    <2>1. k + 1 \in 1..Len(q) /\ q[k + 1] = "close"
      BY <1>2
    <2> QED BY <2>1 DEF QueuesFit, HasClose
  <1> HIDE DEF q
  <1>6. FitsChanged(s, d, r)
    BY <1>1, <1>3, <1>4, <1>5 DEF FitsChanged
  <1> QED BY <1>6, QueueChanges

\* A message comes for a stream that has its entry.
LEMMA QueueGrows ==
  ASSUME Inv, QueuesFit, plan' = plan, NEW s \in Sides, NEW i \in IdSpace, sink[s][i] # None,
         NEW msg \in Messages, inq' = [inq EXCEPT ![s][sink[s][i]] = Append(@, msg)], wp' = wp,
         IF msg = "data" THEN sink' = sink ELSE sink' = [sink EXCEPT ![s][i] = None]
  PROVE  QueuesFit'
  <1> DEFINE d == sink[s][i]
             q == inq[s][d]
             r == Append(q, msg)
  <1>1. d \in Streams /\ wp[s][d] = "runs" /\ Id(d) = i
    BY DEF Inv, EntriesRun, TableTypes
  <1>2. q \in Seq(Messages)
    BY <1>1 DEF Inv, QueueTypes, OfStreams, Messages
  <1>3. /\ r \in Seq(Messages) /\ Len(r) = Len(q) + 1 /\ Len(q) \in Nat
        /\ r[Len(q) + 1] = msg /\ \A k \in 1..Len(q) : r[k] = q[k]
    <2> HIDE DEF q
    <2> QED BY <1>2, AppendFacts
  <1>4. inq' = [inq EXCEPT ![s][d] = r]
    OBVIOUS
  <1>5. ~HasClose(q)
    BY <1>1 DEF QueuesFit
  <1>6. \A u \in Sides, e \in Streams : sink'[u][Id(e)] = e => sink[u][Id(e)] = e
    <2>1. \A e \in Streams : Id(e) \in IdSpace /\ e # None
      BY PlanFacts DEF Inv, None
    <2> QED BY <2>1 DEF Inv, TableTypes
  <1>7. sink'[s][Id(d)] = d => msg = "data"
    BY <1>1, PlanFacts DEF Inv, TableTypes, None
  <1> HIDE DEF r, q, d
  <1>8. \A k \in 1..Len(r) : r[k] = "close" => k = Len(r)
    BY <1>3, <1>5 DEF HasClose
  <1>9. sink'[s][Id(d)] = d => ~HasClose(r)
    BY <1>3, <1>5, <1>7 DEF HasClose
  <1>10. \A u \in Sides, e \in Streams :
           u # s \/ e # d => /\ wp'[u][e] = wp[u][e]
                             /\ sink'[u][Id(e)] = e => sink[u][Id(e)] = e
    BY <1>6
  <1>11. r # <<>> => wp'[s][d] = "runs"
    BY <1>1
  <1>12. FitsChanged(s, d, r)
    BY <1>4, <1>8, <1>9, <1>10, <1>11, Zenon DEF FitsChanged
  <1> QED BY <1>1, <1>12, QueueChanges

\* Pumps are started; they have no messages yet.
LEMMA QueueOpens ==
  ASSUME Inv, QueuesFit, UNCHANGED <<plan, inq>>, NEW s \in Sides, NEW d \in Streams,
         NEW reads \in BOOLEAN, NEW writes \in BOOLEAN, Opens(s, d, reads, writes),
         ~Started(s, d)
  PROVE  QueuesFit'
  <1>1. inq[s][d] = <<>>
    BY DEF QueuesFit, Started
  <1>2. \A e \in Streams : Id(e) \in IdSpace
    BY PlanFacts DEF Inv
  <1>3. \A t \in Sides, e \in Streams : wp[t][e] = "runs" => wp'[t][e] = "runs"
    BY OpensFacts
  <1>4. \A t \in Sides, e \in Streams :
          sink'[t][Id(e)] = e => sink[t][Id(e)] = e \/ inq[t][e] = <<>>
    BY <1>1, <1>2, OpensFacts
  <1> QED BY <1>3, <1>4, QueuesStay

\* The stream of an Fds frame that is read is new at the far end.
LEMMA FdsIsNew ==
  ASSUME Inv, Reads1("far", "fds")
  PROVE  LET d == Head(frames["far"]).of IN
         /\ d \in Streams /\ d <= sent /\ ~Started("far", d)
         /\ Reads(d) \in BOOLEAN /\ Writes(d) \in BOOLEAN
         /\ \A e \in Streams : Started("far", e) => e < d
  <1> DEFINE q == frames["far"]
             d == Head(q).of
  <1>1. /\ q # <<>> /\ q \in Seq(Frames) /\ Head(q) = q[1] /\ q[1].kind = "fds"
        /\ d \in Streams /\ Len(q) \in Nat /\ Len(q) > 0
    BY ReadsFacts, QueuesOf, TailFacts DEF Sides
  <1>2. d <= sent /\ \A e \in Streams : holder[e] # "none" => e < d
    BY <1>1 DEF Inv, FdsInOrder
  <1>3. d \in Nat
    BY <1>1, PlanFacts DEF Inv
  <1>4. holder[d] = "none" /\ \A e \in Streams : Started("far", e) => e < d
    BY <1>1, <1>2, <1>3 DEF Inv, StandInsFit
  <1>5. ~Started("far", d)
    BY <1>1, <1>4, <1>3
  <1> QED BY <1>1, <1>2, <1>4, <1>5 DEF Reads, Writes, HasDir

LEMMA QueuesFitStep ==
  ASSUME Inv, QueuesFit, [Next]_vars
  PROVE  QueuesFit'
  <1>0. CASE UNCHANGED <<plan, inq, wp, sink>>
    BY <1>0, QueuesStay
  <1>1. CASE Loses \/ Delegates
    BY <1>1, <1>0 DEF Loses, Delegates, delegation, tables, pumps
  <1>2. CASE OpensPumps
    <2>1. sent \in Streams /\ ~Started("near", sent)
      BY <1>2, PlanFacts DEF OpensPumps, Inv, PlanTypes, PumpsFit
    <2> QED BY <1>2, <2>1, QueueOpens DEF OpensPumps, Reads, Writes, HasDir, Sides
  <1>3. CASE OpensFail
    <2>1. sent \in Streams /\ ~Started("near", sent)
      BY <1>3, PlanFacts DEF OpensFail, Inv, PlanTypes, PumpsFit
    <2>2. CASE Opens("near", sent, FALSE, TRUE)
      BY <1>3, <2>1, <2>2, QueueOpens DEF OpensFail, Sides
    <2>3. CASE /\ sink' = IF Writes(sent) THEN [sink EXCEPT !["near"][Id(sent)] = None] ELSE sink
               /\ UNCHANGED wp
      <3>1. \A e \in Streams : Id(e) \in IdSpace /\ e # None
        BY PlanFacts DEF Inv, None
      <3>2. \A t \in Sides, e \in Streams : sink'[t][Id(e)] = e => sink[t][Id(e)] = e
        BY <2>3, <3>1 DEF Inv, TableTypes
      <3> QED BY <1>3, <2>3, <3>2, QueuesStay DEF OpensFail
    <2> QED BY <1>3, <2>2, <2>3 DEF OpensFail
  <1>4. ASSUME NEW s \in Sides, TakesData(s) PROVE QueuesFit'
    <2> DEFINE i == Id(Head(frames[s]).of)
    <2>1. i \in IdSpace
      BY <1>4, ReadsFacts DEF TakesData
    <2>2. plan' = plan /\ wp' = wp /\ sink' = sink
      BY <1>4 DEF TakesData, delegation, tables
    <2>3. CASE sink[s][i] # None
      <3>1. inq' = [inq EXCEPT ![s][sink[s][i]] = Append(@, "data")]
        BY <1>4, <2>3 DEF TakesData
      <3> HIDE DEF i
      <3> QED BY <2>1, <2>2, <2>3, <3>1, QueueGrows DEF Messages
    <2>4. CASE sink[s][i] = None
      BY <1>4, <1>0, <2>2, <2>4 DEF TakesData
    <2> QED BY <2>3, <2>4
  <1>5. ASSUME NEW s \in Sides, TakesStreamClose(s) PROVE QueuesFit'
    <2> DEFINE i == Id(Head(frames[s]).of)
    <2>1. i \in IdSpace
      BY <1>5, ReadsFacts DEF TakesStreamClose
    <2>2. plan' = plan /\ wp' = wp /\ sink' = [sink EXCEPT ![s][i] = None]
      BY <1>5 DEF TakesStreamClose, delegation
    <2>3. CASE sink[s][i] # None
      <3>1. inq' = [inq EXCEPT ![s][sink[s][i]] = Append(@, "close")]
        BY <1>5, <2>3 DEF TakesStreamClose
      <3> HIDE DEF i
      <3> QED BY <2>1, <2>2, <2>3, <3>1, QueueGrows DEF Messages
    <2>4. CASE sink[s][i] = None
      <3>1. inq' = inq
        BY <1>5, <2>4 DEF TakesStreamClose
      <3> HIDE DEF i
      <3>2. sink' = sink
        BY <2>1, <2>2, <2>4 DEF Inv, TableTypes
      <3> QED BY <1>0, <2>2, <3>1, <3>2
    <2> QED BY <2>3, <2>4
  <1>6. ASSUME NEW s \in Sides, Takes(s) \/ Pays(s) \/ Drops(s) PROVE QueuesFit'
    <2>1. CASE TakesWindow(s) \/ TakesEnd(s) \/ Pays(s) \/ Drops(s)
      BY <2>1, <1>0 DEF TakesWindow, TakesEnd, Pays, Drops, delegation, tables, pumps
    <2>2. CASE s = "far" /\ TakesFds
      <3> DEFINE d == Head(frames["far"]).of
      <3>1. d \in Streams /\ ~Started("far", d) /\ Reads(d) \in BOOLEAN /\ Writes(d) \in BOOLEAN
        BY <2>2, FdsIsNew DEF TakesFds
      <3>2. plan' = plan /\ inq' = inq
        BY <2>2 DEF TakesFds, delegation, pumps
      <3>3. Opens("far", d, Writes(d), Reads(d)) \/ UNCHANGED <<sink, wp>>
        BY <2>2 DEF TakesFds, tables, pumps
      <3> HIDE DEF d
      <3> QED BY <1>0, <3>1, <3>2, <3>3, QueueOpens DEF Sides
    <2> QED BY <1>4, <1>5, <1>6, <2>1, <2>2 DEF Takes
  <1>7. ASSUME NEW s \in Sides, NEW d \in Streams, Reader(s, d) PROVE QueuesFit'
    <2>1. UNCHANGED <<plan, inq, wp, sink>>
      BY <1>7 DEF Reader, NearReads, NearCancels, FarReads, FarCancels, delegation
    <2> QED BY <1>0, <2>1
  <1>8. ASSUME NEW s \in Sides, NEW d \in Streams, Writer(s, d) PROVE QueuesFit'
    <2>1. plan' = plan
      BY <1>8 DEF Writer, NearWrites, FarWrites, FarHangsUp, TakesClose, Orphaned, delegation
    <2>2. ASSUME NEW t \in Sides, Message(t, d, "data"), Consumes(t, d), UNCHANGED <<wp, sink>>
          PROVE  QueuesFit'
      BY <2>1, <2>2, QueueTaken DEF Consumes
    <2>3. ASSUME NEW t \in Sides, Abandons(t, d) PROVE QueuesFit'
      BY <2>1, <2>3, QueueEnds DEF Abandons
    <2>4. CASE NearWrites(d)
      BY <2>2, <2>3, <2>4 DEF NearWrites, Sides
    <2>5. CASE FarWrites(d)
      BY <2>2, <2>3, <2>5 DEF FarWrites, Sides
    <2>6. CASE FarHangsUp(d)
      BY <2>3, <2>6 DEF FarHangsUp, Sides
    <2>7. CASE TakesClose(s, d)
      BY <2>1, <2>7, QueueEnds DEF TakesClose
    <2>8. CASE Orphaned(s, d)
      <3>1. inq' = inq /\ inq[s][d] = <<>> /\ WriterEnds(s, d)
        BY <2>8 DEF Orphaned
      <3>2. inq' = [inq EXCEPT ![s][d] = <<>>]
        BY <3>1 DEF Inv, QueueTypes, OfStreams
      <3> QED BY <2>1, <3>1, <3>2, QueueEnds
    <2> QED BY <1>8, <2>4, <2>5, <2>6, <2>7, <2>8 DEF Writer
  <1>9. ASSUME NEW d \in Streams, Holder(d) PROVE QueuesFit'
    <2>1. UNCHANGED <<plan, inq, wp, sink>>
      BY <1>9 DEF Holder, HolderWrites, HolderReads, HolderShuts, HolderCloses,
                  delegation, tables, pumps
    <2> QED BY <1>0, <2>1
  <1>10. CASE UNCHANGED vars
    BY <1>10, <1>0 DEF vars, delegation, tables, pumps
  <1> QED BY <1>1, <1>2, <1>3, <1>6, <1>7, <1>8, <1>9, <1>10 DEF Next

LEMMA SenderIdsStay ==
  ASSUME plan' = plan, NEW s
  PROVE  SenderIds(s)' = SenderIds(s)
  <1>1. \A d : Id(d)' = Id(d) /\ Reads(d)' = Reads(d) /\ Writes(d)' = Writes(d)
    BY Fixed
  <1> DEFINE S == {d \in Streams : IF s = "near" THEN Reads(d) ELSE Writes(d)}
  <1>2. S' = S
    BY <1>1
  <1>3. SenderIds(s)' = {Id(d)' : d \in S'}
    BY DEF SenderIds
  <1> HIDE DEF S
  <1>4. {Id(d)' : d \in S'} = {Id(d) : d \in S}
    BY <1>1, <1>2
  <1> QED BY <1>3, <1>4 DEF SenderIds, S

\* Data is read only of a stream that the other end sends.
LEMMA DataHasSender ==
  ASSUME Inv, NEW s \in Sides, Reads1(s, "data")
  PROVE  Id(Head(frames[s]).of) \in SenderIds(Other(s))
  <1> DEFINE q == frames[s]
             e == Head(q).of
  <1>1. /\ q # <<>> /\ q \in Seq(Frames) /\ Head(q) = q[1] /\ q[1].kind = "data" /\ ~ended[s]
        /\ e \in Streams /\ Len(q) \in Nat /\ Len(q) > 0
    BY ReadsFacts, QueuesOf, TailFacts
  <1>2. CASE s = "far"
    <2>1. InTime(1)
      BY <1>1, <1>2 DEF Inv, DataInTime
    <2>2. Reads(e) /\ Other(s) = "near"
      BY <1>1, <1>2, <2>1 DEF InTime, Other
    <2> QED BY <1>1, <2>2 DEF SenderIds
  <1>3. CASE s = "near"
    <2>1. wp["near"][e] # "no"
      BY <1>1, <1>3 DEF Inv, DataInTime
    <2>2. Writes(e) /\ Other(s) = "far"
      BY <1>1, <1>3, <2>1 DEF Inv, PumpsFit, Other
    <2> QED BY <1>1, <2>2 DEF SenderIds
  <1> QED BY <1>2, <1>3 DEF Sides

\* The plan of a channel stays as it is.
LEMMA PlanStays ==
  ASSUME [Next]_vars
  PROVE  plan' = plan
  <1>1. CASE Delegates \/ OpensPumps \/ OpensFail \/ Loses \/ UNCHANGED vars
    BY <1>1 DEF Delegates, OpensPumps, OpensFail, Loses, vars, delegation
  <1>2. ASSUME NEW s \in Sides, Takes(s) \/ Pays(s) \/ Drops(s) PROVE plan' = plan
    BY <1>2 DEF Takes, TakesData, TakesStreamClose, TakesWindow, TakesEnd, TakesFds, Pays, Drops,
       delegation
  <1>3. ASSUME NEW s \in Sides, NEW d \in Streams, Reader(s, d) PROVE plan' = plan
    BY <1>3 DEF Reader, NearReads, NearCancels, FarReads, FarCancels, delegation
  <1>4. ASSUME NEW s \in Sides, NEW d \in Streams, Writer(s, d) PROVE plan' = plan
    BY <1>4 DEF Writer, NearWrites, FarWrites, FarHangsUp, TakesClose, Orphaned, delegation
  <1>5. ASSUME NEW d \in Streams, Holder(d) PROVE plan' = plan
    BY <1>5 DEF Holder, HolderWrites, HolderReads, HolderShuts, HolderCloses, delegation
  <1> QED BY <1>1, <1>2, <1>3, <1>4, <1>5 DEF Next

\* Only data and grants change what is owed.
LEMMA OwedStays ==
  ASSUME [Next]_vars, \A s \in Sides : ~TakesData(s) /\ ~Pays(s)
  PROVE  owed' = owed
  <1>1. CASE Delegates \/ OpensPumps \/ OpensFail \/ Loses \/ UNCHANGED vars
    BY <1>1 DEF Delegates, OpensPumps, OpensFail, Loses, vars, credit
  <1>2. ASSUME NEW s \in Sides, Takes(s) \/ Pays(s) \/ Drops(s) PROVE owed' = owed
    BY <1>2 DEF Takes, TakesStreamClose, TakesWindow, TakesEnd, TakesFds, Drops, credit
  <1>3. ASSUME NEW s \in Sides, NEW d \in Streams, Reader(s, d) PROVE owed' = owed
    BY <1>3 DEF Reader, NearReads, NearCancels, FarReads, FarCancels, credit
  <1>4. ASSUME NEW s \in Sides, NEW d \in Streams, Writer(s, d) PROVE owed' = owed
    BY <1>4 DEF Writer, NearWrites, FarWrites, FarHangsUp, TakesClose, Orphaned, credit
  <1>5. ASSUME NEW d \in Streams, Holder(d) PROVE owed' = owed
    BY <1>5 DEF Holder, HolderWrites, HolderReads, HolderShuts, HolderCloses, credit
  <1> QED BY <1>1, <1>2, <1>3, <1>4, <1>5 DEF Next

LEMMA OwedFitStep ==
  ASSUME Inv, OwedFit, [Next]_vars
  PROVE  OwedFit'
  <1>plan. plan' = plan
    BY PlanStays
  <1>same. IdSpace' = IdSpace /\ \A s : SenderIds(Other(s))' = SenderIds(Other(s))
    BY <1>plan, Fixed, SenderIdsStay DEF Other
  <1>0. CASE owed' = owed
    BY <1>0, <1>same DEF OwedFit
  <1>1. ASSUME NEW s \in Sides, TakesData(s) PROVE OwedFit'
    <2> DEFINE i == Id(Head(frames[s]).of)
    <2>1. i \in IdSpace /\ i \in SenderIds(Other(s))
      BY <1>1, ReadsFacts, DataHasSender DEF TakesData
    <2>2. owed' = owed \/ owed' = [owed EXCEPT ![s][i] = @ + 1]
      BY <1>1 DEF TakesData
    <2> HIDE DEF i
    <2> QED BY <1>0, <1>same, <2>1, <2>2 DEF OwedFit, Inv, CreditTypes
  <1>2. ASSUME NEW s \in Sides, Pays(s) PROVE OwedFit'
    <2>1. PICK i \in IdSpace : owed' = [owed EXCEPT ![s][i] = 0]
      BY <1>2 DEF Pays
    <2> QED BY <1>same, <2>1 DEF OwedFit, Inv, CreditTypes
  <1> QED BY <1>0, <1>1, <1>2, OwedStays

LEMMA AlwaysQueueing == Spec => []Queueing
  <1>1. Init => Inv /\ Queueing
    <2> SUFFICES ASSUME Init PROVE Queueing
      BY Initially
    <2>1. DataOnes
      BY DEF Init, DataOnes
    <2>2. QueuesFit
      BY DEF Init, QueuesFit, Both, HasClose
    <2>3. OwedFit
      BY DEF Init, OwedFit
    <2> QED BY <2>1, <2>2, <2>3 DEF Queueing
  <1>2. Inv /\ Queueing /\ [Next]_vars => Inv' /\ Queueing'
    BY Inductive, DataOnesStep, QueuesFitStep, OwedFitStep DEF Queueing
  <1> QED BY <1>1, <1>2, PTL DEF Spec

-----------------------------------------------------------------------------
(* The credit is kept.                                                       *)

\* No other stream has the id of d.
Alone(d) == d \in DOMAIN Dirs /\ \A e \in DOMAIN Dirs : Id(e) = Id(d) => e = d

\* A pump whose credit is accounted for, and what the account says.
Live(s, d) ==
  /\ rp[s][d] = "runs" /\ ~Replaced(s, d) /\ ~ended[Other(s)] /\ ~lost
  /\ Cardinality(SenderIds(s)) <= MaxOwed

Kept(s, d, i) ==
  /\ avail[s][d] + Spent(s, i) >= Window
  /\ Alone(d) => avail[s][d] + Spent(s, i) = Window

KeptAll ==
  \A s \in Sides, d \in Streams, i \in IdSpace : i = Id(d) /\ Live(s, d) => Kept(s, d, i)

\* Nothing was spent under the id of a stream that has no other and is not started.
Silent ==
  \A s \in Sides, d \in Streams, i \in IdSpace :
    i = Id(d) /\ Alone(d) /\ rp[s][d] = "no" => Spent(s, i) = 0

Credits == Silent /\ KeptAll

\* A pump is of a stream of the plan.
LEMMA StartedPlanned ==
  ASSUME Inv, NEW s \in Sides, NEW d \in Streams, Started(s, d)
  PROVE  d \in DOMAIN Dirs
  <1>1. Dirs \in Seq({"read", "write", "both"})
    BY StreamsAssumption DEF StreamsAssumption, Inv, PlanTypes, Dirs
  <1>2. d \in Nat /\ d >= 1 /\ d <= sent /\ sent <= Len(Dirs) /\ sent \in Nat /\ Len(Dirs) \in Nat
    BY PlanFacts DEF Inv, PumpsFit
  <1> QED BY <1>1, <1>2

LEMMA CreditIs == Inv /\ KeptAll => CreditKept
  <1> SUFFICES ASSUME Inv, KeptAll, NEW s \in Sides, NEW d \in Streams, Live(s, d)
               PROVE  /\ avail[s][d] + Spent(s, Id(d)) >= Window
                      /\ (\A e \in DOMAIN Dirs : Id(e) = Id(d) => e = d) =>
                           avail[s][d] + Spent(s, Id(d)) = Window
    BY DEF CreditKept, Live
  <1>1. Kept(s, d, Id(d))
    BY PlanFacts DEF KeptAll, Inv
  <1>2. d \in DOMAIN Dirs
    BY StartedPlanned DEF Live, Started
  <1> QED BY <1>1, <1>2 DEF Kept, Alone

\* What every step does to the pumps that read.
PumpsGo ==
  /\ plan' = plan
  /\ \A s \in Sides, d \in Streams : Replaced(s, d) => Replaced(s, d)'
  /\ \A s \in Sides : ended[s] => ended'[s]
  /\ lost => lost'
  /\ \A s \in Sides, d \in Streams :
       /\ rp'[s][d] = "no" => rp[s][d] = "no"
       /\ rp'[s][d] = "runs" =>
            rp[s][d] = "runs" \/ (rp[s][d] = "no" /\ avail'[s][d] = Window)

LEMMA Going ==
  ASSUME Inv, plan' = plan, step = "failed" => UNCHANGED <<sent, step>>,
         \A s \in Sides : ended[s] => ended'[s], lost => lost',
         \A s \in Sides, d \in Streams :
           /\ wp'[s][d] = "no" => wp[s][d] = "no"
           /\ rp'[s][d] = "no" => rp[s][d] = "no"
           /\ rp'[s][d] = "runs" =>
                rp[s][d] = "runs" \/ (rp[s][d] = "no" /\ avail'[s][d] = Window)
  PROVE  PumpsGo
  <1>1. \A s \in Sides, d \in Streams : Started(s, d) => Started(s, d)'
    BY DEF Started
  <1>2. \A s \in Sides, d \in Streams : Replaced(s, d) => Replaced(s, d)'
    BY <1>1, ReplacedStays DEF Inv
  <1> QED BY <1>2 DEF PumpsGo

\* Pumps that run, or end.
LEMMA GoingOn ==
  ASSUME Inv, UNCHANGED delegation, \A s \in Sides : ended[s] => ended'[s], lost => lost', PumpsEnd
  PROVE  PumpsGo
  <1>1. \A s \in Sides, d \in Streams :
          /\ wp'[s][d] = "no" => wp[s][d] = "no"
          /\ rp'[s][d] = "no" => rp[s][d] = "no"
          /\ rp'[s][d] = "runs" => rp[s][d] = "runs"
    BY DEF PumpsEnd
  <1> QED BY <1>1, Going DEF delegation

\* Pumps that start.
LEMMA GoingAhead ==
  ASSUME Inv, plan' = plan, step # "failed", UNCHANGED ends,
         NEW s \in Sides, NEW d \in Streams, NEW reads \in BOOLEAN, NEW writes \in BOOLEAN,
         Opens(s, d, reads, writes), ~Started(s, d)
  PROVE  PumpsGo
  <1>1. \A t \in Sides, e \in Streams :
          /\ rp'[t][e] = IF t = s /\ e = d /\ reads THEN "runs" ELSE rp[t][e]
          /\ wp'[t][e] = IF t = s /\ e = d /\ writes THEN "runs" ELSE wp[t][e]
    BY OpensFacts
  <1>2. reads => avail'[s][d] = Window
    BY DEF Opens, Inv, CreditTypes, OfStreams
  <1>3. rp[s][d] = "no" /\ wp[s][d] = "no"
    BY DEF Started
  <1> QED BY <1>1, <1>2, <1>3, Going DEF ends

LEMMA WriterEndsPumps ==
  ASSUME Inv, NEW s \in Sides, NEW d \in Streams, wp[s][d] = "runs", WriterEnds(s, d), rp' = rp
  PROVE  PumpsEnd
  BY DEF PumpsEnd, WriterEnds, Inv, PumpTypes, OfStreams

LEMMA ReaderEndsPumps ==
  ASSUME Inv, NEW s \in Sides, NEW d \in Streams, rp[s][d] = "runs", ReaderEnds(s, d), wp' = wp
  PROVE  PumpsEnd
  BY DEF PumpsEnd, ReaderEnds, Inv, PumpTypes, OfStreams

LEMMA PumpsGoing ==
  ASSUME Inv, [Next]_vars
  PROVE  PumpsGo
  <1>0. CASE UNCHANGED <<delegation, rp, wp>> /\ (\A s \in Sides : ended[s] => ended'[s])
             /\ (lost => lost')
    BY <1>0, GoingOn DEF PumpsEnd
  <1>1. CASE Delegates
    BY <1>1, Going DEF Delegates, pumps, ends
  <1>2. CASE OpensPumps
    <2>1. sent \in Streams /\ ~Started("near", sent)
      BY <1>2, PlanFacts DEF OpensPumps, Inv, PlanTypes, PumpsFit
    <2> QED BY <1>2, <2>1, GoingAhead DEF OpensPumps, Reads, Writes, HasDir, Sides
  <1>3. CASE OpensFail
    <2>1. sent \in Streams /\ ~Started("near", sent)
      BY <1>3, PlanFacts DEF OpensFail, Inv, PlanTypes, PumpsFit
    <2>2. CASE Opens("near", sent, FALSE, TRUE)
      BY <1>3, <2>1, <2>2, GoingAhead DEF OpensFail, Sides
    <2>3. CASE UNCHANGED <<wp, rp>>
      BY <1>3, <2>3, Going DEF OpensFail, ends
    <2> QED BY <1>3, <2>2, <2>3 DEF OpensFail
  <1>4. CASE Loses
    BY <1>4, <1>0 DEF Loses, pumps
  <1>5. ASSUME NEW s \in Sides, Takes(s) \/ Pays(s) \/ Drops(s) PROVE PumpsGo
    <2>1. CASE TakesData(s) \/ TakesStreamClose(s) \/ TakesWindow(s) \/ Pays(s)
      <3>1. UNCHANGED <<delegation, rp, wp, ends>>
        BY <2>1, Zenon DEF TakesData, TakesStreamClose, TakesWindow, Pays, pumps
      <3> QED BY <3>1, <1>0 DEF ends
    <2>2. CASE TakesEnd(s) \/ Drops(s)
      <3>1. \A t \in Sides : ended[t] => ended'[t]
        BY <2>2 DEF TakesEnd, Drops, CloseFlow, Inv, EndTypes
      <3> QED BY <2>2, <3>1, <1>0 DEF TakesEnd, Drops, pumps
    <2>3. CASE TakesFds
      <3> DEFINE d == Head(frames["far"]).of
      <3>1. d \in Streams /\ ~Started("far", d) /\ Reads(d) \in BOOLEAN /\ Writes(d) \in BOOLEAN
        BY <2>3, FdsIsNew DEF TakesFds
      <3>2. UNCHANGED <<delegation, lost>>
        BY <2>3 DEF TakesFds
      <3>3. CASE Opens("far", d, Writes(d), Reads(d)) /\ ended' = ended
        <4>1. \A t \in Sides, e \in Streams :
                /\ rp'[t][e] = IF t = "far" /\ e = d /\ Writes(d) THEN "runs" ELSE rp[t][e]
                /\ wp'[t][e] = IF t = "far" /\ e = d /\ Reads(d) THEN "runs" ELSE wp[t][e]
          BY <3>1, <3>2, <3>3, OpensFacts DEF Sides, delegation
        <4>2. Writes(d) => avail'["far"][d] = Window
          BY <3>1, <3>3 DEF Opens, Inv, CreditTypes, OfStreams, Sides
        <4>3. rp["far"][d] = "no" /\ wp["far"][d] = "no"
          BY <3>1 DEF Started
        <4> HIDE DEF d
        <4> QED BY <3>2, <3>3, <4>1, <4>2, <4>3, Going DEF delegation
      <3>4. CASE CloseFlow("far") /\ UNCHANGED pumps
        <4>1. \A t \in Sides : ended[t] => ended'[t]
          BY <3>4 DEF CloseFlow, Inv, EndTypes
        <4> QED BY <3>2, <3>4, <4>1, <1>0 DEF pumps
      <3> QED BY <2>3, <3>3, <3>4 DEF TakesFds
    <2> QED BY <1>5, <2>1, <2>2, <2>3 DEF Takes
  <1>6. ASSUME NEW s \in Sides, NEW d \in Streams, Reader(s, d) PROVE PumpsGo
    <2>1. PICK t \in Sides : rp[t][d] = "runs" /\ (ReaderEnds(t, d) \/ UNCHANGED rp)
      BY <1>6 DEF Reader, NearReads, NearCancels, FarReads, FarCancels, SendsData, SendsClose, Sides
    <2>2. UNCHANGED <<delegation, wp, ends>>
      BY <1>6 DEF Reader, NearReads, NearCancels, FarReads, FarCancels
    <2>3. PumpsEnd
      BY <2>1, <2>2, ReaderEndsPumps DEF PumpsEnd
    <2> QED BY <2>2, <2>3, GoingOn DEF ends
  <1>7. ASSUME NEW s \in Sides, NEW d \in Streams, Writer(s, d) PROVE PumpsGo
    <2>1. PICK t \in Sides : wp[t][d] = "runs" /\ (WriterEnds(t, d) \/ UNCHANGED wp)
      BY <1>7 DEF Writer, NearWrites, FarWrites, FarHangsUp, TakesClose, Orphaned, Message, Abandons,
                  Sides
    <2>2. UNCHANGED <<delegation, rp, ends>>
      BY <1>7 DEF Writer, NearWrites, FarWrites, FarHangsUp, TakesClose, Orphaned
    <2>3. PumpsEnd
      BY <2>1, <2>2, WriterEndsPumps DEF PumpsEnd
    <2> QED BY <2>2, <2>3, GoingOn DEF ends
  <1>8. ASSUME NEW d \in Streams, Holder(d) PROVE PumpsGo
    BY <1>8, <1>0 DEF Holder, HolderWrites, HolderReads, HolderShuts, HolderCloses, pumps, ends
  <1>9. CASE UNCHANGED vars
    BY <1>9, <1>0 DEF vars, pumps, ends
  <1> QED BY <1>1, <1>2, <1>3, <1>4, <1>5, <1>6, <1>7, <1>8, <1>9 DEF Next

SpentFits == \A s \in Sides, i \in IdSpace : Spent(s, i) \in Nat

LEMMA SpentNat == Inv => SpentFits
  <1> SUFFICES ASSUME Inv, NEW s \in Sides, NEW i \in IdSpace PROVE Spent(s, i) \in Nat
    BY DEF SpentFits
  <1> QED BY SpentIs

LEMMA AloneStays ==
  ASSUME plan' = plan, NEW d
  PROVE  Alone(d)' = Alone(d)
  <1>1. Dirs' = Dirs /\ \A e : Id(e)' = Id(e)
    BY Fixed
  <1> QED BY <1>1 DEF Alone

\* What a step has to do for the account to hold.
LEMMA CreditMoves ==
  ASSUME Inv, Inv', Credits, PumpsGo,
         \A s \in Sides, d \in Streams, i \in IdSpace :
           i = Id(d) /\ Alone(d) /\ rp[s][d] = "no" => Spent(s, i)' <= Spent(s, i),
         \A s \in Sides, d \in Streams, i \in IdSpace :
           i = Id(d) /\ Live(s, d) /\ Live(s, d)' =>
             /\ avail'[s][d] + Spent(s, i)' >= avail[s][d] + Spent(s, i)
             /\ Alone(d) => avail'[s][d] + Spent(s, i)' = avail[s][d] + Spent(s, i)
  PROVE  Credits'
  <1>same. IdSpace' = IdSpace /\ \A d : Id(d)' = Id(d) /\ Alone(d)' = Alone(d)
    BY Fixed, AloneStays DEF PumpsGo
  <1>spent. \A s \in Sides, i \in IdSpace : Spent(s, i) \in Nat /\ Spent(s, i)' \in Nat
    <2>1. SpentFits /\ SpentFits'
      BY SpentNat, PTL
    <2> QED BY <2>1, <1>same DEF SpentFits
  <1>avail. avail \in OfStreams(Nat) /\ avail' \in OfStreams(Nat) /\ Window \in Nat
    BY StreamsAssumption DEF StreamsAssumption, Inv, CreditTypes
  <1>1. Silent'
    <2> SUFFICES ASSUME NEW s \in Sides, NEW d \in Streams, NEW i \in IdSpace,
                        i = Id(d), Alone(d), rp'[s][d] = "no"
                 PROVE  Spent(s, i)' = 0
      BY <1>same DEF Silent
    <2>1. rp[s][d] = "no"
      BY DEF PumpsGo
    <2>2. Spent(s, i) = 0
      BY <2>1 DEF Credits, Silent
    <2> QED BY <2>1, <2>2, <1>spent
  <1>2. KeptAll'
    <2> SUFFICES ASSUME NEW s \in Sides, NEW d \in Streams, NEW i \in IdSpace,
                        i = Id(d), Live(s, d)'
                 PROVE  /\ avail'[s][d] + Spent(s, i)' >= Window
                        /\ Alone(d) => avail'[s][d] + Spent(s, i)' = Window
      BY <1>same DEF KeptAll, Kept
    <2>1. rp'[s][d] = "runs" /\ ~Replaced(s, d)' /\ ~ended'[Other(s)] /\ ~lost'
          /\ Cardinality(SenderIds(s)) <= MaxOwed
      BY SenderIdsStay DEF Live, Other, PumpsGo
    <2>2. CASE rp[s][d] = "runs"
      <3>1. Live(s, d)
        BY <2>1, <2>2 DEF Live, PumpsGo, Other, Sides
      <3>2. Kept(s, d, i)
        BY <3>1 DEF Credits, KeptAll
      <3>3. /\ avail'[s][d] + Spent(s, i)' >= avail[s][d] + Spent(s, i)
            /\ Alone(d) => avail'[s][d] + Spent(s, i)' = avail[s][d] + Spent(s, i)
        BY <3>1
      <3>4. /\ avail[s][d] \in Nat /\ avail'[s][d] \in Nat /\ Spent(s, i) \in Nat
            /\ Spent(s, i)' \in Nat /\ Window \in Nat
        BY <1>spent, <1>avail DEF OfStreams
      <3> QED BY <3>2, <3>3, <3>4 DEF Kept
    <2>3. CASE rp[s][d] = "no" /\ avail'[s][d] = Window
      <3>1. Alone(d) => Spent(s, i) = 0 /\ Spent(s, i)' <= Spent(s, i)
        BY <2>3 DEF Credits, Silent
      <3> QED BY <2>3, <3>1, <1>spent, <1>avail
    <2> QED BY <2>1, <2>2, <2>3 DEF PumpsGo
  <1> QED BY <1>1, <1>2 DEF Credits

-----------------------------------------------------------------------------
(* Steps that neither spend credit nor hand it back move it on.              *)

Flows(s) ==
  /\ ~lost' /\ ~ended'[Other(s)] /\ Cardinality(SenderIds(s)) <= MaxOwed
  /\ \E d \in Streams : rp'[s][d] = "runs"

Keeps ==
  \A s \in Sides, i \in IdSpace :
    /\ Spent(s, i)' <= Spent(s, i)
    /\ Flows(s) => Spent(s, i)' = Spent(s, i)

LEMMA KeepsCredits ==
  ASSUME Inv, Inv', Credits, PumpsGo, Keeps,
         \A s \in Sides, d \in Streams : rp[s][d] = "runs" => avail'[s][d] = avail[s][d]
  PROVE  Credits'
  <1>spent. \A s \in Sides, i \in IdSpace : Spent(s, i) \in Nat
    BY SpentNat DEF SpentFits
  <1>1. \A s \in Sides, d \in Streams, i \in IdSpace :
          i = Id(d) /\ Alone(d) /\ rp[s][d] = "no" => Spent(s, i)' <= Spent(s, i)
    BY DEF Keeps
  <1>2. ASSUME NEW s \in Sides, NEW d \in Streams, NEW i \in IdSpace, Live(s, d), Live(s, d)'
        PROVE  /\ avail'[s][d] + Spent(s, i)' >= avail[s][d] + Spent(s, i)
               /\ avail'[s][d] + Spent(s, i)' = avail[s][d] + Spent(s, i)
    <2>1. Flows(s)
      BY <1>2, SenderIdsStay DEF Live, Flows, Other, PumpsGo
    <2>2. Spent(s, i)' = Spent(s, i) /\ Spent(s, i) \in Nat
      BY <2>1, <1>spent DEF Keeps
    <2>3. avail'[s][d] = avail[s][d] /\ avail[s][d] \in Nat
      BY <1>2 DEF Live, Inv, CreditTypes, OfStreams
    <2> QED BY <2>2, <2>3
  <1> QED BY <1>1, <1>2, CreditMoves

\* A step keeps the credit if it does so at each end.
LEMMA KeepsAt ==
  ASSUME Inv, plan' = plan,
         \A s \in Sides, o \in Sides, i \in IdSpace : o = Other(s) /\ s = Other(o) =>
           LET before == Carries(frames[o], "data", i) + Waiting(inq[o], i) + owed[o][i]
                         + Carries(frames[s], "window", i)
               after == Carries(frames'[o], "data", i) + Waiting(inq'[o], i) + owed'[o][i]
                        + Carries(frames'[s], "window", i)
           IN  after <= before /\ (Flows(s) => after = before)
  PROVE  Keeps
  <1> SUFFICES ASSUME NEW s \in Sides, NEW i \in IdSpace
               PROVE  Spent(s, i)' <= Spent(s, i) /\ (Flows(s) => Spent(s, i)' = Spent(s, i))
    BY DEF Keeps
  <1>1. PICK o \in Sides : o = Other(s) /\ s = Other(o)
    BY DEF Other, Sides
  <1>2. Spent(s, i) = Carries(frames[o], "data", i) + Waiting(inq[o], i) + owed[o][i]
                      + Carries(frames[s], "window", i)
    BY <1>1, SpentIs
  <1>3. Spent(s, i)' = Carries(frames'[o], "data", i) + Waiting(inq'[o], i) + owed'[o][i]
                       + Carries(frames'[s], "window", i)
    BY <1>1, SpentNext
  <1> QED BY <1>1, <1>2, <1>3

\* The terms are numbers.
LEMMA TermsNat ==
  ASSUME Inv, NEW u \in Sides, NEW i \in IdSpace
  PROVE  /\ Carries(frames[u], "data", i) \in Nat /\ Carries(frames[u], "window", i) \in Nat
         /\ Waiting(inq[u], i) \in Nat /\ owed[u][i] \in Nat
  <1>1. frames[u] \in Seq(Frames) /\ owed[u][i] \in Nat
    BY QueuesOf DEF Inv, CreditTypes
  <1> QED BY <1>1, CarriesIs, UnwrittenIs

\* Nothing moves.
LEMMA KeepsAll ==
  ASSUME Inv, plan' = plan,
         \A u \in Sides, i \in IdSpace :
           /\ Carries(frames'[u], "data", i) = Carries(frames[u], "data", i)
           /\ Carries(frames'[u], "window", i) = Carries(frames[u], "window", i)
           /\ Waiting(inq'[u], i) = Waiting(inq[u], i) /\ owed'[u][i] = owed[u][i]
  PROVE  Keeps
  <1>1. ASSUME NEW s \in Sides, NEW o \in Sides, NEW i \in IdSpace
        PROVE  LET before == Carries(frames[o], "data", i) + Waiting(inq[o], i) + owed[o][i]
                             + Carries(frames[s], "window", i)
                   after == Carries(frames'[o], "data", i) + Waiting(inq'[o], i) + owed'[o][i]
                            + Carries(frames'[s], "window", i)
               IN  after <= before /\ after = before
    BY TermsNat
  <1> QED BY <1>1, KeepsAt

LEMMA KeepsQuiet ==
  ASSUME Inv, plan' = plan, frames' = frames, inq' = inq, owed' = owed
  PROVE  Keeps
  BY KeepsAll

\* A frame is queued that carries nothing.
LEMMA KeepsQueued ==
  ASSUME Inv, plan' = plan, inq' = inq, owed' = owed, NEW t \in Sides, NEW d \in Streams,
         NEW msg \in {"fds", "close"}, Queues(t, Frame(msg, d, 0))
  PROVE  Keeps
  <1>1. PICK f \in Frames : f = Frame(msg, d, 0) /\ f.kind # "data" /\ f.kind # "window"
    BY FrameIn
  <1>2. Queues(t, f)
    BY <1>1
  <1>q. \A u \in Sides : \A c, k :
           /\ u = Other(t) /\ ~Gone(t) /\ f.kind = c /\ Id(f.of) = k =>
                Carries(frames'[u], c, k) = Carries(frames[u], c, k) + f.n
           /\ ~(u = Other(t) /\ ~Gone(t) /\ f.kind = c /\ Id(f.of) = k) =>
                Carries(frames'[u], c, k) = Carries(frames[u], c, k)
    BY <1>2, CarriesQueued, Zenon
  <1>3. \A u \in Sides, i \in IdSpace :
          /\ Carries(frames'[u], "data", i) = Carries(frames[u], "data", i)
          /\ Carries(frames'[u], "window", i) = Carries(frames[u], "window", i)
    BY <1>1, <1>q
  <1> QED BY <1>3, KeepsAll

\* A frame is read that carries nothing.
LEMMA KeepsRead ==
  ASSUME Inv, plan' = plan, owed' = owed, NEW t \in Sides, NEW msg \in {"fds", "close"},
         Reads1(t, msg), Rest(t),
         \A u \in Sides, i \in IdSpace : Waiting(inq'[u], i) = Waiting(inq[u], i)
  PROVE  Keeps
  <1>1. PICK h : h = Head(frames[t]) /\ h.kind # "data" /\ h.kind # "window" /\ frames[t] # <<>>
    BY ReadsFacts
  <1>q. \A u \in Sides : \A c, k :
           /\ u = t /\ h.kind = c /\ Id(h.of) = k =>
                Carries(frames[u], c, k) = Carries(frames'[u], c, k) + h.n
           /\ ~(u = t /\ h.kind = c /\ Id(h.of) = k) =>
                Carries(frames[u], c, k) = Carries(frames'[u], c, k)
           /\ Carries(frames'[u], c, k) \in Nat
    <2>1. HasRead(t, h)
      BY <1>1 DEF HasRead
    <2> QED BY <2>1, CarriesRead, Zenon
  <1>2. ASSUME NEW u \in Sides, NEW i \in IdSpace
        PROVE  /\ Carries(frames'[u], "data", i) = Carries(frames[u], "data", i)
               /\ Carries(frames'[u], "window", i) = Carries(frames[u], "window", i)
    <2>1. Carries(frames[u], "data", i) = Carries(frames'[u], "data", i)
      BY <1>1, <1>q
    <2>2. Carries(frames[u], "window", i) = Carries(frames'[u], "window", i)
      BY <1>1, <1>q
    <2> QED BY <2>1, <2>2
  <1> QED BY <1>2, KeepsAll

\* The peer of a pump that runs is not gone from its channel while that lives.
LEMMA FlowsNotGone ==
  ASSUME Inv, rp' = rp, lost' = lost, NEW t \in Sides, Flows(Other(t))
  PROVE  ~Gone(t)
  <1>1. PICK d \in Streams : rp[Other(t)][d] = "runs"
    BY DEF Flows
  <1>2. ~LetsGo(Other(t))
    BY <1>1 DEF LetsGo
  <1> QED BY <1>2 DEF Gone, Flows

\* A writer pump grants what it takes out of its queue.
LEMMA KeepsGranted ==
  ASSUME Inv, plan' = plan, rp' = rp, lost' = lost, owed' = owed, NEW t \in Sides,
         NEW e \in Streams, NEW r \in Seq(Messages), Becomes(t, e, r),
         NEW n \in Nat, DataIn(r) + n = DataIn(inq[t][e]), Queues(t, Frame("window", e, n))
  PROVE  Keeps
  <1>1. PICK f \in Frames : f = Frame("window", e, n) /\ f.kind = "window" /\ f.of = e /\ f.n = n
    BY FrameIn
  <1>2. Queues(t, f)
    BY <1>1
  <1> SUFFICES ASSUME NEW s \in Sides, NEW o \in Sides, NEW i \in IdSpace,
                      o = Other(s), s = Other(o)
               PROVE  LET before == Carries(frames[o], "data", i) + Waiting(inq[o], i)
                                    + owed[o][i] + Carries(frames[s], "window", i)
                          after == Carries(frames'[o], "data", i) + Waiting(inq'[o], i)
                                   + owed'[o][i] + Carries(frames'[s], "window", i)
                      IN  after <= before /\ (Flows(s) => after = before)
    BY KeepsAt
  <1>q. \A u \in Sides : \A c, k :
           /\ u = Other(t) /\ ~Gone(t) /\ f.kind = c /\ Id(f.of) = k =>
                Carries(frames'[u], c, k) = Carries(frames[u], c, k) + f.n
           /\ ~(u = Other(t) /\ ~Gone(t) /\ f.kind = c /\ Id(f.of) = k) =>
                Carries(frames'[u], c, k) = Carries(frames[u], c, k)
    BY <1>2, CarriesQueued, Zenon
  <1>w. /\ \A u \in Sides : \A k :
              /\ u = t /\ Id(e) = k =>
                   Waiting(inq'[u], k) + DataIn(inq[t][e]) = Waiting(inq[u], k) + DataIn(r)
              /\ u # t \/ Id(e) # k => Waiting(inq'[u], k) = Waiting(inq[u], k)
              /\ Waiting(inq'[u], k) \in Nat
         /\ DataIn(inq[t][e]) \in Nat /\ DataIn(r) \in Nat
    <2>1. \A x \in Sides : \A k :
            /\ x = t /\ Id(e) = k =>
                 Waiting(inq'[x], k) + DataIn(inq[t][e]) = Waiting(inq[x], k) + DataIn(r)
            /\ x # t \/ Id(e) # k => Waiting(inq'[x], k) = Waiting(inq[x], k)
            /\ Waiting(inq'[x], k) \in Nat
      BY WaitingSet
    <2>2. DataIn(inq[t][e]) \in Nat /\ DataIn(r) \in Nat
      BY WaitingSet
    <2> QED BY <2>1, <2>2
  <1>3. Carries(frames'[o], "data", i) = Carries(frames[o], "data", i)
    BY <1>1, <1>q
  <1>4. /\ Carries(frames[o], "data", i) \in Nat /\ Waiting(inq[o], i) \in Nat
        /\ owed[o][i] \in Nat /\ Carries(frames[s], "window", i) \in Nat
    BY TermsNat
  <1>5. Waiting(inq'[o], i) \in Nat /\ DataIn(inq[t][e]) \in Nat /\ DataIn(r) \in Nat
    BY <1>w
  <1>6. CASE o = t /\ Id(e) = i
    <2>1. Waiting(inq'[o], i) + DataIn(inq[t][e]) = Waiting(inq[o], i) + DataIn(r)
      BY <1>6, <1>w
    <2>2. Waiting(inq'[o], i) + n = Waiting(inq[o], i)
      <3> DEFINE a == Waiting(inq'[o], i)
                 b == Waiting(inq[o], i)
                 x == DataIn(inq[t][e])
                 y == DataIn(r)
      <3>1. a \in Nat /\ b \in Nat /\ x \in Nat /\ y \in Nat /\ y + n = x /\ a + x = b + y
        BY <1>4, <1>5, <2>1
      <3> HIDE DEF a, b, x, y
      <3>2. a + n = b
        BY <3>1
      <3> QED BY <3>2 DEF a, b
    <2>3. Flows(s) => ~Gone(t)
      BY <1>6, FlowsNotGone
    <2>4. CASE ~Gone(t)
      <3>1. Carries(frames'[s], "window", i) = Carries(frames[s], "window", i) + n
        <4>1. s = Other(t) /\ "window" = f.kind /\ i = Id(f.of)
          BY <1>1, <1>6, <2>4
        <4> QED BY <1>1, <2>4, <4>1, <1>q
      <3> DEFINE c == Carries(frames[o], "data", i)
                 c1 == Carries(frames'[o], "data", i)
                 m == Waiting(inq[o], i)
                 m1 == Waiting(inq'[o], i)
                 g == Carries(frames[s], "window", i)
                 g1 == Carries(frames'[s], "window", i)
      <3>2. /\ c1 = c /\ m1 + n = m /\ g1 = g + n /\ owed'[o][i] = owed[o][i]
            /\ c \in Nat /\ m1 \in Nat /\ g \in Nat /\ owed[o][i] \in Nat
        <4>1. c1 = c /\ c \in Nat
          BY <1>3, <1>4, <1>5
        <4>2. m1 + n = m /\ m1 \in Nat
          BY <1>3, <1>4, <1>5, <2>2
        <4>3. g1 = g + n /\ g \in Nat
          BY <1>3, <1>4, <1>5, <3>1
        <4>4. owed'[o][i] = owed[o][i] /\ owed[o][i] \in Nat
          BY <1>3, <1>4, <1>5
        <4> QED BY <4>1, <4>2, <4>3, <4>4
      <3> HIDE DEF c, c1, m, m1, g, g1
      <3>3. /\ c1 + m1 + owed'[o][i] + g1 = c + m + owed[o][i] + g
            /\ c1 + m1 + owed'[o][i] + g1 <= c + m + owed[o][i] + g
        BY <3>2
      <3> QED BY <3>3, Zenon DEF c, c1, m, m1, g, g1
    <2>5. CASE Gone(t)
      <3>1. Carries(frames'[s], "window", i) = Carries(frames[s], "window", i)
        BY <2>5, <1>q
      <3> QED BY <1>3, <1>4, <1>5, <2>2, <2>3, <2>5, <3>1
    <2> QED BY <2>4, <2>5
  <1>7. CASE ~(o = t /\ Id(e) = i)
    <2>1. s # Other(t) \/ Id(f.of) # i
      BY <1>1, <1>7 DEF Other, Sides
    <2>2. Carries(frames'[s], "window", i) = Carries(frames[s], "window", i)
      BY <2>1, <1>q
    <2>3. Waiting(inq'[o], i) = Waiting(inq[o], i)
      <3>1. o # t \/ Id(e) # i
        BY <1>7
      <3> QED BY <3>1, <1>w
    <2> QED BY <1>3, <1>4, <2>2, <2>3
  <1> QED BY <1>6, <1>7

\* A message without credit comes or goes.
LEMMA WaitingSame ==
  ASSUME Inv, NEW t \in Sides, NEW e \in Streams, NEW r \in Seq(Messages),
         Becomes(t, e, r), DataIn(inq[t][e]) = DataIn(r),
         NEW u \in Sides, NEW i \in IdSpace
  PROVE  Waiting(inq'[u], i) = Waiting(inq[u], i)
  <1>1. /\ u = t /\ Id(e) = i =>
             Waiting(inq'[u], i) + DataIn(inq[t][e]) = Waiting(inq[u], i) + DataIn(r)
        /\ u # t \/ Id(e) # i => Waiting(inq'[u], i) = Waiting(inq[u], i)
        /\ Waiting(inq'[u], i) \in Nat /\ DataIn(inq[t][e]) \in Nat /\ DataIn(r) \in Nat
    <2>1. \A x \in Sides : \A k :
            /\ x = t /\ Id(e) = k =>
                 Waiting(inq'[x], k) + DataIn(inq[t][e]) = Waiting(inq[x], k) + DataIn(r)
            /\ x # t \/ Id(e) # k => Waiting(inq'[x], k) = Waiting(inq[x], k)
            /\ Waiting(inq'[x], k) \in Nat
      BY WaitingSet
    <2>2. DataIn(inq[t][e]) \in Nat /\ DataIn(r) \in Nat
      BY WaitingSet
    <2> QED BY <2>1, <2>2
  <1>2. Waiting(inq[u], i) \in Nat
    BY TermsNat
  <1>3. CASE u = t /\ Id(e) = i
    <2>1. /\ Waiting(inq'[u], i) + DataIn(r) = Waiting(inq[u], i) + DataIn(r)
          /\ Waiting(inq'[u], i) \in Nat /\ DataIn(r) \in Nat
      BY <1>1, <1>3
    <2> QED BY <1>2, <2>1
  <1>4. CASE ~(u = t /\ Id(e) = i)
    <2>1. u # t \/ Id(e) # i
      BY <1>4
    <2> QED BY <1>1, <2>1, Zenon
  <1> QED BY <1>3, <1>4

\* The channel fails, and what was on its way is gone.
LEMMA KeepsLost ==
  ASSUME Inv, lost', plan' = plan, inq' = inq, owed' = owed, frames' = [s \in Sides |-> <<>>]
  PROVE  Keeps
  <1>1. \A kind, i : Carries(<<>>, kind, i) = 0
    <2>1. <<>> \in Seq(Frames)
      OBVIOUS
    <2> QED BY <2>1, CarriesIs, WeighEmpty, Zenon
  <1>2. \A s \in Sides : frames'[s] = <<>> /\ ~Flows(s)
    BY DEF Flows
  <1>3. ASSUME NEW s \in Sides, NEW o \in Sides, NEW i \in IdSpace
        PROVE  LET before == Carries(frames[o], "data", i) + Waiting(inq[o], i) + owed[o][i]
                             + Carries(frames[s], "window", i)
                   after == Carries(frames'[o], "data", i) + Waiting(inq'[o], i) + owed'[o][i]
                            + Carries(frames'[s], "window", i)
               IN  after <= before /\ ~Flows(s)
    BY <1>1, <1>2, TermsNat
  <1> QED BY <1>3, KeepsAt

\* Data is queued for its pump, or owed; too many owe only if more ids are sent under.
LEMMA KeepsData ==
  ASSUME Inv, Queueing, NEW t \in Sides, TakesData(t)
  PROVE  Keeps
  <1>1. PICK h : h = Head(frames[t])
    OBVIOUS
  <1>2. PICK j \in IdSpace : j = Id(h.of)
    BY <1>1, ReadsFacts DEF TakesData
  <1>3. /\ frames[t] # <<>> /\ Rest(t) /\ h.kind = "data" /\ plan' = plan /\ j \in SenderIds(Other(t))
    BY <1>1, <1>2, ReadsFacts, DataHasSender DEF TakesData, delegation
  <1>q. \A u \in Sides : \A c, k :
           /\ u = t /\ h.kind = c /\ Id(h.of) = k =>
                Carries(frames[u], c, k) = Carries(frames'[u], c, k) + h.n
           /\ ~(u = t /\ h.kind = c /\ Id(h.of) = k) =>
                Carries(frames[u], c, k) = Carries(frames'[u], c, k)
           /\ Carries(frames'[u], c, k) \in Nat
    <2>1. HasRead(t, h)
      BY <1>1, <1>3 DEF HasRead
    <2> QED BY <2>1, CarriesRead, Zenon
  <1>4. h.n = 1
    <2>1. /\ frames[t] \in Seq(Frames) /\ frames[t] # <<>> /\ h = frames[t][1]
          /\ Len(frames[t]) \in Nat /\ Len(frames[t]) > 0
      BY <1>1, <1>3, QueuesOf, TailFacts
    <2> QED BY <1>3, <2>1 DEF Queueing, DataOnes
  <1> SUFFICES ASSUME NEW s \in Sides, NEW o \in Sides, NEW i \in IdSpace,
                      o = Other(s), s = Other(o)
               PROVE  LET before == Carries(frames[o], "data", i) + Waiting(inq[o], i)
                                    + owed[o][i] + Carries(frames[s], "window", i)
                          after == Carries(frames'[o], "data", i) + Waiting(inq'[o], i)
                                   + owed'[o][i] + Carries(frames'[s], "window", i)
                      IN  after <= before /\ (Flows(s) => after = before)
    BY <1>3, KeepsAt
  <1>5. /\ Carries(frames[o], "data", i) \in Nat /\ Waiting(inq[o], i) \in Nat
        /\ owed[o][i] \in Nat /\ Carries(frames[s], "window", i) \in Nat
    BY TermsNat
  <1>6. /\ o = t /\ i = j => Carries(frames[o], "data", i) = Carries(frames'[o], "data", i) + 1
        /\ ~(o = t /\ i = j) => Carries(frames[o], "data", i) = Carries(frames'[o], "data", i)
        /\ Carries(frames[s], "window", i) = Carries(frames'[s], "window", i)
        /\ Carries(frames'[o], "data", i) \in Nat
    <2>1. ASSUME o = t, i = j
          PROVE  Carries(frames[o], "data", i) = Carries(frames'[o], "data", i) + 1
      <3>1. Carries(frames[t], "data", i) = Carries(frames'[t], "data", i) + h.n
        BY <1>2, <1>3, <2>1, <1>q
      <3> QED BY <1>4, <2>1, <3>1
    <2>2. ASSUME ~(o = t /\ i = j)
          PROVE  Carries(frames[o], "data", i) = Carries(frames'[o], "data", i)
      <3>1. o # t \/ Id(h.of) # i
        BY <1>2, <2>2
      <3> QED BY <3>1, <1>q
    <2>3. h.kind # "window"
      BY <1>3
    <2>4. Carries(frames[s], "window", i) = Carries(frames'[s], "window", i)
      BY <2>3, <1>q
    <2>5. Carries(frames'[o], "data", i) \in Nat
      BY <1>q
    <2> QED BY <2>1, <2>2, <2>4, <2>5
  <1>7. owed \in [Sides -> [IdSpace -> Nat]]
    BY DEF Inv, CreditTypes
  <1>8. CASE sink[t][j] # None
    <2>1. PICK d \in Streams : d = sink[t][j] /\ Id(d) = j
      BY <1>8 DEF Inv, EntriesRun, TableTypes
    <2>2. PICK q \in Seq(Messages) : q = inq[t][d]
      BY QueuesTyped
    <2>3. inq' = [inq EXCEPT ![t][d] = Append(q, "data")] /\ owed' = owed
      BY <1>1, <1>2, <1>8, <2>1, <2>2 DEF TakesData
    <2>4. PICK r \in Seq(Messages) : r = Append(q, "data") /\ DataIn(r) = DataIn(q) + 1
      BY DataInAppend, AppendFacts DEF Messages
    <2>5. inq' = [inq EXCEPT ![t][d] = r]
      BY <2>3, <2>4
    <2>w. /\ \A u \in Sides : \A k :
              /\ u = t /\ Id(d) = k =>
                   Waiting(inq'[u], k) + DataIn(inq[t][d]) = Waiting(inq[u], k) + DataIn(r)
              /\ u # t \/ Id(d) # k => Waiting(inq'[u], k) = Waiting(inq[u], k)
              /\ Waiting(inq'[u], k) \in Nat
         /\ DataIn(inq[t][d]) \in Nat /\ DataIn(r) \in Nat
      <3>1. Becomes(t, d, r)
        BY <2>5 DEF Becomes
      <3> QED BY <2>1, <3>1, WaitingSet, Zenon
    <2>6. /\ o = t /\ i = j => Waiting(inq'[o], i) + DataIn(q) = Waiting(inq[o], i) + DataIn(r)
          /\ ~(o = t /\ i = j) => Waiting(inq'[o], i) = Waiting(inq[o], i)
          /\ Waiting(inq'[o], i) \in Nat /\ DataIn(q) \in Nat /\ DataIn(r) \in Nat
      <3>1. ASSUME o = t, i = j
            PROVE  Waiting(inq'[o], i) + DataIn(q) = Waiting(inq[o], i) + DataIn(r)
        BY <2>1, <2>2, <3>1, <2>w
      <3>2. ASSUME ~(o = t /\ i = j) PROVE Waiting(inq'[o], i) = Waiting(inq[o], i)
        <4>1. o # t \/ Id(d) # i
          BY <2>1, <3>2
        <4> QED BY <4>1, <2>w
      <3>3. Waiting(inq'[o], i) \in Nat /\ DataIn(q) \in Nat /\ DataIn(r) \in Nat
        BY <2>2, <2>w
      <3> QED BY <3>1, <3>2, <3>3
    <2>7. o = t /\ i = j => Waiting(inq'[o], i) = Waiting(inq[o], i) + 1
      <3> DEFINE a == Waiting(inq'[o], i)
                 b == Waiting(inq[o], i)
                 x == DataIn(q)
                 y == DataIn(r)
      <3> SUFFICES ASSUME o = t, i = j PROVE a = b + 1
        OBVIOUS
      <3>1. a \in Nat /\ b \in Nat /\ x \in Nat /\ y = x + 1 /\ a + x = b + y
        BY <1>5, <2>4, <2>6
      <3>2. \A m, n, k \in Nat : m + k = n + (k + 1) => m = n + 1
        OBVIOUS
      <3> HIDE DEF a, b, x, y
      <3>3. a + x = b + (x + 1)
        BY <3>1, Zenon
      <3> QED BY <3>1, <3>2, <3>3, Zenon
    <2>8. CASE o = t /\ i = j
      <3>1. Carries(frames[o], "data", i) = Carries(frames'[o], "data", i) + 1
        BY <1>6, <2>8
      <3>2. Waiting(inq'[o], i) = Waiting(inq[o], i) + 1
        BY <2>7, <2>8
      <3> DEFINE c == Carries(frames[o], "data", i)
                 c1 == Carries(frames'[o], "data", i)
                 m == Waiting(inq[o], i)
                 m1 == Waiting(inq'[o], i)
                 g == Carries(frames[s], "window", i)
                 g1 == Carries(frames'[s], "window", i)
      <3>3. /\ c = c1 + 1 /\ m1 = m + 1 /\ g1 = g /\ owed'[o][i] = owed[o][i]
            /\ c1 \in Nat /\ m \in Nat /\ g \in Nat /\ owed[o][i] \in Nat
        BY <1>5, <1>6, <2>3, <3>1, <3>2
      <3> HIDE DEF c, c1, m, m1, g, g1
      <3>4. /\ c1 + m1 + owed'[o][i] + g1 = c + m + owed[o][i] + g
            /\ c1 + m1 + owed'[o][i] + g1 <= c + m + owed[o][i] + g
        BY <3>3
      <3> QED BY <3>4 DEF c, c1, m, m1, g, g1
    <2>9. CASE ~(o = t /\ i = j)
      BY <1>5, <1>6, <2>3, <2>6, <2>9
    <2> QED BY <2>8, <2>9
  <1>9. CASE sink[t][j] = None /\ owed' = [owed EXCEPT ![t][j] = @ + 1]
    <2>1. inq' = inq
      BY <1>1, <1>2, <1>9 DEF TakesData
    <2>2. owed'[o][i] = IF o = t /\ i = j THEN owed[o][i] + 1 ELSE owed[o][i]
      BY <1>7, <1>9
    <2> QED BY <1>5, <1>6, <2>1, <2>2
  <1>10. CASE sink[t][j] = None /\ owed' = owed /\ owed[t][j] = 0
              /\ Cardinality({k \in IdSpace : owed[t][k] > 0}) >= MaxOwed
    <2>1. inq' = inq
      BY <1>1, <1>2, <1>10 DEF TakesData
    <2>2. o = t => ~Flows(s)
      <3> SUFFICES ASSUME o = t, Cardinality(SenderIds(s)) <= MaxOwed PROVE FALSE
        BY DEF Flows
      <3> DEFINE S == SenderIds(s)
                 W == {k \in IdSpace : owed[t][k] > 0}
      <3>1. IsFiniteSet(S)
        <4>1. IsFiniteSet(Streams)
          BY PlanFacts, FS_Interval DEF Streams, Inv
        <4> DEFINE D == {d \in Streams : IF s = "near" THEN Reads(d) ELSE Writes(d)}
        <4>2. IsFiniteSet(D)
          BY <4>1, FS_Subset
        <4> HIDE DEF D
        <4> DEFINE f == [d \in D |-> Id(d)]
                   T == {Id(d) : d \in D}
        <4>f. f \in Surjection(D, T)
          BY DEF Surjection
        <4> HIDE DEF f, T
        <4>3. IsFiniteSet(T)
          BY <4>2, <4>f, FS_Surjection
        <4> QED BY <4>3 DEF SenderIds, D, T
      <3>2. W \subseteq S
        BY <1>3 DEF Queueing, OwedFit
      <3>3. j \in S /\ j \notin W
        BY <1>3, <1>10
      <3> HIDE DEF S, W
      <3>4. IsFiniteSet(W) /\ Cardinality(W) < Cardinality(S)
        <4>1. IsFiniteSet(S \ {j}) /\ Cardinality(S \ {j}) = Cardinality(S) - 1
          BY <3>1, <3>3, FS_RemoveElement
        <4>2. W \subseteq S \ {j}
          BY <3>2, <3>3
        <4>3. IsFiniteSet(W) /\ Cardinality(W) <= Cardinality(S \ {j})
          BY <4>1, <4>2, FS_Subset
        <4>4. Cardinality(W) \in Nat /\ Cardinality(S) \in Nat
          BY <3>1, <4>3, FS_CardinalityType
        <4> QED BY <4>1, <4>3, <4>4
      <3>5. Cardinality(W) \in Nat /\ Cardinality(S) \in Nat /\ MaxOwed \in Nat
        BY <3>1, <3>4, FS_CardinalityType, StreamsAssumption DEF StreamsAssumption
      <3>6. Cardinality(W) >= MaxOwed /\ Cardinality(S) <= MaxOwed
        BY <1>10 DEF S, W
      <3> QED BY <3>4, <3>5, <3>6
    <2> QED BY <1>5, <1>6, <1>10, <2>1, <2>2
  <1>11. \/ sink[t][j] # None
         \/ sink[t][j] = None /\ owed' = [owed EXCEPT ![t][j] = @ + 1]
         \/ /\ sink[t][j] = None /\ owed' = owed /\ owed[t][j] = 0
            /\ Cardinality({k \in IdSpace : owed[t][k] > 0}) >= MaxOwed
    <2> DEFINE W == {k \in IdSpace : owed[t][k] > 0}
    <2>1. sink[t][j] = None =>
            owed' = IF Cardinality(W) >= MaxOwed /\ j \notin W THEN owed
                    ELSE [owed EXCEPT ![t][j] = @ + 1]
      BY <1>1, <1>2 DEF TakesData
    <2>2. j \notin W => owed[t][j] = 0
      BY <1>7
    <2> HIDE DEF W
    <2>3. \/ sink[t][j] # None
          \/ sink[t][j] = None /\ owed' = [owed EXCEPT ![t][j] = @ + 1]
          \/ sink[t][j] = None /\ owed' = owed /\ owed[t][j] = 0 /\ Cardinality(W) >= MaxOwed
      BY <2>1, <2>2, Zenon
    <2> QED BY <2>3, Zenon DEF W
  <1> QED BY <1>8, <1>9, <1>10, <1>11

\* What is owed is granted.
LEMMA KeepsPaid ==
  ASSUME Inv, NEW t \in Sides, Pays(t)
  PROVE  Keeps
  <1>1. PICK j \in IdSpace :
          /\ owed[t][j] > 0
          /\ Queues(t, Frame("window", CHOOSE d \in Streams : Id(d) = j, owed[t][j]))
          /\ owed' = [owed EXCEPT ![t][j] = 0]
    BY DEF Pays
  <1>2. plan' = plan /\ inq' = inq /\ ~Gone(t)
    BY DEF Pays, delegation, pumps
  <1>3. owed \in [Sides -> [IdSpace -> Nat]]
    BY DEF Inv, CreditTypes
  <1>4. PICK d \in Streams : Id(d) = j /\ d = CHOOSE e \in Streams : Id(e) = j
    BY <1>1 DEF Inv, CreditTypes
  <1>5. PICK f \in Frames : /\ f = Frame("window", d, owed[t][j]) /\ f.kind = "window"
                            /\ f.of = d /\ f.n = owed[t][j]
    BY <1>3, FrameIn
  <1>6. Queues(t, f)
    BY <1>1, <1>4, <1>5
  <1> SUFFICES ASSUME NEW s \in Sides, NEW o \in Sides, NEW i \in IdSpace,
                      o = Other(s), s = Other(o)
               PROVE  LET before == Carries(frames[o], "data", i) + Waiting(inq[o], i)
                                    + owed[o][i] + Carries(frames[s], "window", i)
                          after == Carries(frames'[o], "data", i) + Waiting(inq'[o], i)
                                   + owed'[o][i] + Carries(frames'[s], "window", i)
                      IN  after = before /\ after <= before
    BY <1>2, KeepsAt
  <1>7. /\ Carries(frames[o], "data", i) \in Nat /\ Waiting(inq[o], i) \in Nat
        /\ owed[o][i] \in Nat /\ Carries(frames[s], "window", i) \in Nat
    BY TermsNat
  <1>q. \A u \in Sides : \A c, k :
           /\ u = Other(t) /\ ~Gone(t) /\ f.kind = c /\ Id(f.of) = k =>
                Carries(frames'[u], c, k) = Carries(frames[u], c, k) + f.n
           /\ ~(u = Other(t) /\ ~Gone(t) /\ f.kind = c /\ Id(f.of) = k) =>
                Carries(frames'[u], c, k) = Carries(frames[u], c, k)
    BY <1>6, CarriesQueued, Zenon
  <1>8. Carries(frames'[o], "data", i) = Carries(frames[o], "data", i)
    BY <1>5, <1>q
  <1>9. (s = Other(t)) = (o = t)
    BY DEF Other, Sides
  <1>10. CASE o = t /\ i = j
    <2>1. Carries(frames'[s], "window", i) = Carries(frames[s], "window", i) + owed[o][i]
      BY <1>2, <1>4, <1>5, <1>9, <1>10, <1>q
    <2>2. owed'[o][i] = 0
      BY <1>1, <1>3, <1>10
    <2> QED BY <1>2, <1>7, <1>8, <2>1, <2>2
  <1>11. CASE ~(o = t /\ i = j)
    <2>1. Carries(frames'[s], "window", i) = Carries(frames[s], "window", i)
      BY <1>4, <1>5, <1>9, <1>11, <1>q
    <2>2. owed'[o][i] = owed[o][i]
      BY <1>1, <1>3, <1>11
    <2> QED BY <1>2, <1>7, <1>8, <2>1, <2>2
  <1> QED BY <1>10, <1>11

\* A pump spends credit.
LEMMA SendsCredits ==
  ASSUME Inv, Inv', Credits, PumpsGo, NEW t \in Sides, NEW e \in Streams, rp[t][e] = "runs",
         avail[t][e] > 0, SendsData(t, e), inq' = inq, owed' = owed
  PROVE  Credits'
  <1>1. PICK f \in Frames : /\ f = Frame("data", e, 1) /\ f.kind = "data"
                            /\ f.of = e /\ f.n = 1
    BY FrameIn
  <1>2. Queues(t, f) /\ avail' = [avail EXCEPT ![t][e] = @ - 1] /\ plan' = plan
    BY <1>1 DEF SendsData, PumpsGo
  <1>q. \A u \in Sides : \A c, k :
          /\ u = Other(t) /\ ~Gone(t) /\ f.kind = c /\ Id(f.of) = k =>
               Carries(frames'[u], c, k) = Carries(frames[u], c, k) + f.n
          /\ ~(u = Other(t) /\ ~Gone(t) /\ f.kind = c /\ Id(f.of) = k) =>
               Carries(frames'[u], c, k) = Carries(frames[u], c, k)
    BY <1>2, CarriesQueued, Zenon
  <1>3. ASSUME NEW s \in Sides, NEW i \in IdSpace
        PROVE  /\ s = t /\ ~Gone(t) /\ i = Id(e) => Spent(s, i)' = Spent(s, i) + 1
               /\ ~(s = t /\ ~Gone(t) /\ i = Id(e)) => Spent(s, i)' = Spent(s, i)
               /\ Spent(s, i) \in Nat
    <2>1. PICK o \in Sides : o = Other(s) /\ s = Other(o)
      BY DEF Other, Sides
    <2>2. /\ Spent(s, i) = Carries(frames[o], "data", i) + Waiting(inq[o], i) + owed[o][i]
                           + Carries(frames[s], "window", i)
          /\ Spent(s, i) \in Nat
      BY <2>1, SpentIs
    <2>3. Spent(s, i)' = Carries(frames'[o], "data", i) + Waiting(inq'[o], i) + owed'[o][i]
                         + Carries(frames'[s], "window", i)
      BY <1>2, <2>1, SpentNext
    <2>4. /\ Carries(frames[o], "data", i) \in Nat /\ Waiting(inq[o], i) \in Nat
          /\ owed[o][i] \in Nat /\ Carries(frames[s], "window", i) \in Nat
      BY TermsNat
    <2>5. Carries(frames'[s], "window", i) = Carries(frames[s], "window", i)
      BY <1>1, <1>q
    <2>6. (o = Other(t)) = (s = t)
      BY <2>1 DEF Other, Sides
    <2>7. CASE s = t /\ ~Gone(t) /\ i = Id(e)
      <3>1. Carries(frames'[o], "data", i) = Carries(frames[o], "data", i) + 1
        BY <1>1, <1>q, <2>6, <2>7
      <3> QED BY <2>2, <2>3, <2>4, <2>5, <2>7, <3>1
    <2>8. CASE ~(s = t /\ ~Gone(t) /\ i = Id(e))
      <3>1. Carries(frames'[o], "data", i) = Carries(frames[o], "data", i)
        BY <1>1, <1>q, <2>6, <2>8
      <3> QED BY <2>2, <2>3, <2>4, <2>5, <2>8, <3>1
    <2> QED BY <2>7, <2>8
  <1>4. ASSUME NEW d \in Streams, Alone(d), Id(e) = Id(d) PROVE e = d
    <2>1. e \in DOMAIN Dirs
      BY StartedPlanned DEF Started
    <2> QED BY <1>4, <2>1 DEF Alone
  <1>5. \A s \in Sides, d \in Streams, i \in IdSpace :
          i = Id(d) /\ Alone(d) /\ rp[s][d] = "no" => Spent(s, i)' <= Spent(s, i)
    <2> SUFFICES ASSUME NEW s \in Sides, NEW d \in Streams, NEW i \in IdSpace,
                        i = Id(d), Alone(d), rp[s][d] = "no"
                 PROVE  Spent(s, i)' <= Spent(s, i)
      OBVIOUS
    <2>1. ~(s = t /\ i = Id(e))
      BY <1>4
    <2>2. Spent(s, i)' = Spent(s, i) /\ Spent(s, i) \in Nat
      BY <1>3, <2>1
    <2> QED BY <2>2
  <1>6. ASSUME NEW s \in Sides, NEW d \in Streams, NEW i \in IdSpace, i = Id(d), Live(s, d)
        PROVE  /\ avail'[s][d] + Spent(s, i)' >= avail[s][d] + Spent(s, i)
               /\ Alone(d) => avail'[s][d] + Spent(s, i)' = avail[s][d] + Spent(s, i)
    <2>0. avail \in [Sides -> [Streams -> Nat]]
      BY DEF Inv, CreditTypes, OfStreams
    <2>1. avail[s][d] \in Nat /\ Spent(s, i) \in Nat
      BY <1>3, <2>0
    <2>2. CASE s = t /\ d = e
      <3>1. ~Gone(t)
        BY <1>6, <2>2 DEF Live, Gone, LetsGo, Inv, EndTypes, Other, Sides
      <3>2. Spent(s, i)' = Spent(s, i) + 1
        BY <1>3, <1>6, <2>2, <3>1
      <3>3. avail'[s][d] = avail[s][d] - 1
        BY <1>2, <2>0, <2>2
      <3> QED BY <2>1, <3>2, <3>3
    <2>3. CASE ~(s = t /\ d = e)
      <3>1. avail'[s][d] = avail[s][d]
        BY <1>2, <2>0, <2>3
      <3>2. Alone(d) => ~(s = t /\ i = Id(e))
        BY <1>4, <1>6, <2>3
      <3>3. CASE s = t /\ ~Gone(t) /\ i = Id(e)
        <4>1. Spent(s, i)' = Spent(s, i) + 1
          BY <1>3, <3>3
        <4> QED BY <2>1, <3>1, <3>2, <3>3, <4>1
      <3>4. CASE ~(s = t /\ ~Gone(t) /\ i = Id(e))
        <4>1. Spent(s, i)' = Spent(s, i)
          BY <1>3, <3>4
        <4> QED BY <2>1, <3>1, <4>1
      <3> QED BY <3>3, <3>4
    <2> QED BY <2>2, <2>3
  <1> QED BY <1>5, <1>6, CreditMoves

\* A grant comes back to the pump that has the id.
LEMMA WindowCredits ==
  ASSUME Inv, Inv', Credits, PumpsGo, NEW t \in Sides, TakesWindow(t)
  PROVE  Credits'
  <1>1. PICK h : h = Head(frames[t])
    OBVIOUS
  <1>2. PICK j \in IdSpace : j = Id(h.of)
    BY <1>1, ReadsFacts DEF TakesWindow
  <1>3. PICK n \in Nat : n = h.n
    BY <1>1, ReadsFacts DEF TakesWindow
  <1>4. HasRead(t, h) /\ h.kind = "window"
    BY <1>1, ReadsFacts DEF TakesWindow, HasRead
  <1>5. inq' = inq /\ owed' = owed /\ plan' = plan
    BY DEF TakesWindow, pumps, delegation
  <1>6. avail' = IF prog[t][j] = None THEN avail ELSE [avail EXCEPT ![t][prog[t][j]] = @ + n]
    BY <1>1, <1>2, <1>3 DEF TakesWindow
  <1>q. \A u \in Sides : \A c, k :
          /\ u = t /\ h.kind = c /\ Id(h.of) = k =>
               Carries(frames[u], c, k) = Carries(frames'[u], c, k) + h.n
          /\ ~(u = t /\ h.kind = c /\ Id(h.of) = k) =>
               Carries(frames[u], c, k) = Carries(frames'[u], c, k)
          /\ Carries(frames'[u], c, k) \in Nat
    BY <1>4, CarriesRead, Zenon
  <1>7. ASSUME NEW s \in Sides, NEW i \in IdSpace
        PROVE  /\ s = t /\ i = j => Spent(s, i) = Spent(s, i)' + n
               /\ ~(s = t /\ i = j) => Spent(s, i) = Spent(s, i)'
               /\ Spent(s, i)' \in Nat
    <2>1. PICK o \in Sides : o = Other(s) /\ s = Other(o)
      BY DEF Other, Sides
    <2>2. Spent(s, i) = Carries(frames[o], "data", i) + Waiting(inq[o], i) + owed[o][i]
                        + Carries(frames[s], "window", i)
      BY <2>1, SpentIs
    <2>3. Spent(s, i)' = Carries(frames'[o], "data", i) + Waiting(inq[o], i) + owed[o][i]
                         + Carries(frames'[s], "window", i)
      BY <1>5, <2>1, SpentNext
    <2>4. /\ Carries(frames[o], "data", i) \in Nat /\ Waiting(inq[o], i) \in Nat
          /\ owed[o][i] \in Nat /\ Carries(frames[s], "window", i) \in Nat
          /\ Carries(frames'[s], "window", i) \in Nat
      BY TermsNat, <1>q
    <2>5. Carries(frames'[o], "data", i) = Carries(frames[o], "data", i)
      BY <1>4, <1>q
    <2>6. CASE s = t /\ i = j
      <3>1. Carries(frames[s], "window", i) = Carries(frames'[s], "window", i) + n
        BY <1>2, <1>3, <1>4, <1>q, <2>6
      <3> QED BY <2>2, <2>3, <2>4, <2>5, <2>6, <3>1
    <2>7. CASE ~(s = t /\ i = j)
      <3>1. Carries(frames[s], "window", i) = Carries(frames'[s], "window", i)
        BY <1>2, <1>q, <2>7
      <3> QED BY <2>2, <2>3, <2>4, <2>5, <2>7, <3>1
    <2> QED BY <2>6, <2>7
  <1>8. \A s \in Sides, i \in IdSpace : Spent(s, i)' <= Spent(s, i)
    <2> SUFFICES ASSUME NEW s \in Sides, NEW i \in IdSpace PROVE Spent(s, i)' <= Spent(s, i)
      OBVIOUS
    <2>1. CASE s = t /\ i = j
      <3>1. Spent(s, i) = Spent(s, i)' + n /\ Spent(s, i)' \in Nat
        BY <1>7, <2>1
      <3> QED BY <3>1
    <2>2. CASE ~(s = t /\ i = j)
      <3>1. Spent(s, i) = Spent(s, i)' /\ Spent(s, i)' \in Nat
        BY <1>7, <2>2
      <3> QED BY <3>1
    <2> QED BY <2>1, <2>2
  <1>9. ASSUME NEW s \in Sides, NEW d \in Streams, NEW i \in IdSpace, i = Id(d), Live(s, d)
        PROVE  /\ avail'[s][d] + Spent(s, i)' >= avail[s][d] + Spent(s, i)
               /\ avail'[s][d] + Spent(s, i)' = avail[s][d] + Spent(s, i)
    <2>0. avail \in [Sides -> [Streams -> Nat]]
      BY DEF Inv, CreditTypes, OfStreams
    <2>1. prog[s][i] = d /\ d # None
      BY <1>9, PlanFacts DEF Live, Inv, AllListed, Listed, None
    <2>2. CASE s = t /\ i = j
      <3>1. avail'[s][d] = avail[s][d] + n /\ avail[s][d] \in Nat
        BY <1>6, <2>0, <2>1, <2>2
      <3>2. Spent(s, i) = Spent(s, i)' + n /\ Spent(s, i)' \in Nat
        BY <1>7, <2>2
      <3> QED BY <3>1, <3>2
    <2>3. CASE ~(s = t /\ i = j)
      <3>1. s # t \/ d # prog[t][j]
        BY <1>9, <2>1, <2>3 DEF Inv, EntriesRun
      <3>2. avail'[s][d] = avail[s][d] /\ avail[s][d] \in Nat
        BY <1>6, <2>0, <3>1
      <3>3. Spent(s, i) = Spent(s, i)' /\ Spent(s, i)' \in Nat
        BY <1>7, <2>3
      <3> QED BY <3>2, <3>3
    <2> QED BY <2>2, <2>3
  <1> QED BY <1>8, <1>9, CreditMoves

LEMMA CreditsStep ==
  ASSUME Inv, Inv', Queueing, Credits, [Next]_vars
  PROVE  Credits'
  <1>go. PumpsGo /\ plan' = plan
    BY PumpsGoing DEF PumpsGo
  <1>kept. ASSUME Keeps, \A s \in Sides, d \in Streams : rp[s][d] = "runs" => avail'[s][d] = avail[s][d]
           PROVE  Credits'
    BY <1>go, <1>kept, KeepsCredits
  <1>same. ASSUME Keeps, avail' = avail PROVE Credits'
    BY <1>kept, <1>same
  <1>0. CASE frames' = frames /\ inq' = inq /\ owed' = owed /\ avail' = avail
    BY <1>0, <1>go, <1>same, KeepsQuiet
  <1>opens. ASSUME NEW t \in Sides, NEW e \in Streams, ~Started(t, e), NEW reads \in BOOLEAN,
                   NEW writes \in BOOLEAN, Opens(t, e, reads, writes)
            PROVE  \A s \in Sides, d \in Streams :
                     rp[s][d] = "runs" => avail'[s][d] = avail[s][d]
    BY <1>opens DEF Opens, Started, Inv, CreditTypes, OfStreams
  <1>1. CASE Delegates
    <2>1. sent + 1 \in Streams
      BY <1>1, PlanFacts DEF Inv, Delegates
    <2>2. /\ Queues("near", Frame("fds", sent + 1, 0))
          /\ inq' = inq /\ owed' = owed /\ avail' = avail
      BY <1>1 DEF Delegates, pumps, credit
    <2>3. Keeps
      BY <1>go, <2>1, <2>2, KeepsQueued DEF Sides
    <2> QED BY <1>same, <2>2, <2>3
  <1>2. CASE OpensPumps
    <2>1. sent \in Streams /\ ~Started("near", sent)
      BY <1>2, PlanFacts DEF OpensPumps, Inv, PlanTypes, PumpsFit
    <2>2. /\ Opens("near", sent, Reads(sent), Writes(sent))
          /\ frames' = frames /\ inq' = inq /\ owed' = owed
      BY <1>2 DEF OpensPumps
    <2>3. Keeps
      BY <1>go, <2>2, KeepsQuiet
    <2> QED BY <1>opens, <1>kept, <2>1, <2>2, <2>3 DEF Reads, Writes, HasDir, Sides
  <1>3. CASE OpensFail
    <2>1. sent \in Streams /\ ~Started("near", sent)
      BY <1>3, PlanFacts DEF OpensFail, Inv, PlanTypes, PumpsFit
    <2>2. /\ avail' = avail \/ Opens("near", sent, FALSE, TRUE)
          /\ frames' = frames /\ inq' = inq /\ owed' = owed
      BY <1>3 DEF OpensFail
    <2>3. Keeps
      BY <1>go, <2>2, KeepsQuiet
    <2> QED BY <1>opens, <1>kept, <2>1, <2>2, <2>3 DEF Sides
  <1>4. CASE Loses
    <2>1. /\ lost' /\ inq' = inq /\ owed' = owed /\ frames' = [s \in Sides |-> <<>>]
          /\ avail' = avail
      BY <1>4 DEF Loses, pumps, credit
    <2>2. Keeps
      BY <1>go, <2>1, KeepsLost
    <2> QED BY <1>same, <2>1, <2>2
  <1>5. ASSUME NEW t \in Sides, TakesData(t) PROVE Credits'
    <2>1. Keeps
      BY <1>5, KeepsData
    <2>2. avail' = avail
      BY <1>5 DEF TakesData
    <2> QED BY <1>same, <2>1, <2>2
  <1>6. ASSUME NEW t \in Sides, TakesStreamClose(t) PROVE Credits'
    <2>1. Reads1(t, "close") /\ Rest(t) /\ owed' = owed /\ avail' = avail
      BY <1>6 DEF TakesStreamClose, credit
    <2>2. PICK j \in IdSpace : j = Id(Head(frames[t]).of)
      BY <2>1, ReadsFacts
    <2>3. CASE sink[t][j] = None
      <3>1. inq' = inq
        BY <1>6, <2>2, <2>3 DEF TakesStreamClose
      <3>2. Keeps
        BY <1>go, <2>1, <3>1, KeepsRead
      <3> QED BY <1>same, <2>1, <3>2
    <2>4. CASE sink[t][j] # None
      <3>1. PICK d \in Streams : d = sink[t][j]
        BY <2>4 DEF Inv, TableTypes
      <3>2. PICK q \in Seq(Messages) : q = inq[t][d]
        BY QueuesTyped
      <3>3. inq' = [inq EXCEPT ![t][d] = Append(q, "close")]
        BY <1>6, <2>2, <2>4, <3>1, <3>2 DEF TakesStreamClose
      <3>4. PICK r \in Seq(Messages) : r = Append(q, "close") /\ DataIn(r) = DataIn(q)
        BY DataInAppend, AppendFacts DEF Messages
      <3>5. Becomes(t, d, r) /\ DataIn(inq[t][d]) = DataIn(r)
        BY <3>2, <3>3, <3>4 DEF Becomes
      <3>6. \A u \in Sides, i \in IdSpace : Waiting(inq'[u], i) = Waiting(inq[u], i)
        BY <3>5, WaitingSame
      <3>7. Keeps
        BY <1>go, <2>1, <3>6, KeepsRead
      <3> QED BY <1>same, <2>1, <3>7
    <2> QED BY <2>3, <2>4
  <1>7. CASE TakesFds
    <2> DEFINE d == Head(frames["far"]).of
    <2>1. d \in Streams /\ ~Started("far", d) /\ Reads(d) \in BOOLEAN /\ Writes(d) \in BOOLEAN
      BY <1>7, FdsIsNew DEF TakesFds
    <2>2. /\ Reads1("far", "fds") /\ Rest("far") /\ inq' = inq /\ owed' = owed
          /\ avail' = avail \/ Opens("far", d, Writes(d), Reads(d))
      BY <1>7 DEF TakesFds, pumps
    <2> HIDE DEF d
    <2>3. Keeps
      BY <1>go, <2>2, KeepsRead DEF Sides
    <2> QED BY <1>opens, <1>kept, <2>1, <2>2, <2>3 DEF Sides
  <1>8. ASSUME NEW t \in Sides, Takes(t) \/ Pays(t) \/ Drops(t) PROVE Credits'
    <2>1. CASE TakesWindow(t)
      BY <1>go, <2>1, WindowCredits
    <2>2. CASE TakesEnd(t) \/ Drops(t)
      BY <1>0, <2>2 DEF TakesEnd, Drops, pumps, credit
    <2>3. CASE Pays(t)
      <3>1. Keeps /\ avail' = avail
        BY <2>3, KeepsPaid DEF Pays
      <3> QED BY <1>same, <3>1
    <2> QED BY <1>5, <1>6, <1>7, <1>8, <2>1, <2>2, <2>3 DEF Takes
  <1>sends. ASSUME NEW t \in Sides, NEW d \in Streams, rp[t][d] = "runs", avail[t][d] > 0,
                   SendsData(t, d), inq' = inq, owed' = owed
            PROVE  Credits'
    BY <1>go, <1>sends, SendsCredits
  <1>closes. ASSUME NEW t \in Sides, NEW d \in Streams, SendsClose(t, d), inq' = inq,
                    owed' = owed, avail' = avail
             PROVE  Credits'
    <2>1. Keeps
      BY <1>go, <1>closes, KeepsQueued DEF SendsClose
    <2> QED BY <1>same, <1>closes, <2>1
  <1>9. ASSUME NEW s \in Sides, NEW d \in Streams, Reader(s, d) PROVE Credits'
    <2>1. CASE NearReads(d)
      BY <2>1, <1>sends, <1>closes DEF NearReads, Sides
    <2>2. CASE FarReads(d)
      BY <2>2, <1>sends, <1>closes, <1>0 DEF FarReads, Sides
    <2>3. CASE NearCancels(d) \/ FarCancels(d)
      BY <2>3, <1>0 DEF NearCancels, FarCancels, credit
    <2> QED BY <1>9, <2>1, <2>2, <2>3 DEF Reader
  <1>queue. \A s \in Sides, d \in Streams : inq[s][d] \in Seq(Messages)
    BY QueuesTyped
  <1>consumes. ASSUME NEW t \in Sides, NEW d \in Streams, Message(t, d, "data"), Consumes(t, d),
                      UNCHANGED <<delegation, rp, credit, ends>>
               PROVE  Credits'
    <2>1. PICK q \in Seq(Messages) : q = inq[t][d] /\ q # <<>> /\ Head(q) = "data"
      BY <1>queue, <1>consumes, MessageFacts
    <2>2. PICK r \in Seq(Messages) : r = Tail(q) /\ DataIn(r) + 1 = DataIn(q)
      BY <2>1, DataInTail, TailFacts
    <2>3. Becomes(t, d, r) /\ Queues(t, Frame("window", d, 1))
      BY <1>consumes, <2>1, <2>2 DEF Consumes, Becomes
    <2>4. rp' = rp /\ lost' = lost /\ owed' = owed /\ avail' = avail
      BY <1>consumes DEF credit, ends
    <2>5. Keeps
      BY <1>go, <2>1, <2>2, <2>3, <2>4, KeepsGranted
    <2> QED BY <1>same, <2>4, <2>5
  <1>abandons. ASSUME NEW t \in Sides, NEW d \in Streams, Abandons(t, d),
                      UNCHANGED <<delegation, rp, credit, ends>>
               PROVE  Credits'
    <2>1. PICK r \in Seq(Messages) : r = <<>> /\ DataIn(r) = 0
      <3>1. <<>> \in Seq(Messages)
        OBVIOUS
      <3> QED BY <3>1, DataInEmpty, Zenon
    <2>2. PICK n \in Nat : n = DataIn(inq[t][d])
      BY <1>queue, DataInNat
    <2>3. Becomes(t, d, r) /\ Queues(t, Frame("window", d, n))
      BY <1>abandons, <2>1, <2>2 DEF Abandons, Becomes, DataIn
    <2>4. rp' = rp /\ lost' = lost /\ owed' = owed /\ avail' = avail
      BY <1>abandons DEF credit, ends
    <2>5. DataIn(r) + n = DataIn(inq[t][d])
      BY <2>1, <2>2
    <2>6. Keeps
      BY <1>go, <2>3, <2>4, <2>5, KeepsGranted
    <2> QED BY <1>same, <2>4, <2>6
  <1>10. ASSUME NEW t \in Sides, NEW d \in Streams, TakesClose(t, d) PROVE Credits'
    <2>1. PICK q \in Seq(Messages) : q = inq[t][d] /\ q # <<>> /\ Head(q) = "close"
      BY <1>queue, <1>10, MessageFacts DEF TakesClose
    <2>2. \A k \in 1..Len(q) : q[k] = "close" => k = Len(q)
      BY <2>1 DEF Queueing, QueuesFit
    <2>3. DataIn(q) = 0
      BY <2>1, <2>2, DataInClose
    <2>4. PICK r \in Seq(Messages) : r = <<>> /\ DataIn(r) = 0
      <3>1. <<>> \in Seq(Messages)
        OBVIOUS
      <3> QED BY <3>1, DataInEmpty, Zenon
    <2>5. Becomes(t, d, r) /\ DataIn(inq[t][d]) = DataIn(r)
      BY <1>10, <2>1, <2>3, <2>4 DEF TakesClose, Becomes
    <2>6. \A u \in Sides, i \in IdSpace : Waiting(inq'[u], i) = Waiting(inq[u], i)
      BY <2>5, WaitingSame
    <2>7. frames' = frames /\ owed' = owed /\ avail' = avail
      BY <1>10 DEF TakesClose, credit
    <2>8. Keeps
      BY <1>go, <2>6, <2>7, KeepsAll
    <2> QED BY <1>same, <2>7, <2>8
  <1>11. ASSUME NEW s \in Sides, NEW d \in Streams, Writer(s, d) PROVE Credits'
    <2>1. CASE NearWrites(d)
      BY <2>1, <1>consumes, <1>abandons DEF NearWrites, Sides
    <2>2. CASE FarWrites(d)
      BY <2>2, <1>consumes, <1>abandons DEF FarWrites, Sides
    <2>3. CASE FarHangsUp(d)
      BY <2>3, <1>abandons DEF FarHangsUp, Sides
    <2>4. CASE Orphaned(s, d)
      BY <2>4, <1>0 DEF Orphaned, credit
    <2> QED BY <1>10, <1>11, <2>1, <2>2, <2>3, <2>4 DEF Writer
  <1>12. ASSUME NEW d \in Streams, Holder(d) PROVE Credits'
    BY <1>12, <1>0 DEF Holder, HolderWrites, HolderReads, HolderShuts, HolderCloses, pumps, credit
  <1>13. CASE UNCHANGED vars
    BY <1>13, <1>0 DEF vars, pumps, credit
  <1> QED BY <1>1, <1>2, <1>3, <1>4, <1>8, <1>9, <1>11, <1>12, <1>13 DEF Next

LEMMA CreditsFirst ==
  ASSUME Init
  PROVE  Credits
  <1>1. Inv
    BY Initially
  <1>2. \A s \in Sides, d \in Streams : rp[s][d] # "runs"
    BY DEF Init, Both
  <1>3. KeptAll
    BY <1>2 DEF KeptAll, Live
  <1>4. ASSUME NEW s \in Sides, NEW i \in IdSpace PROVE Spent(s, i) = 0
    <2>1. PICK o \in Sides : o = Other(s) /\ s = Other(o)
      BY DEF Other, Sides
    <2>2. Spent(s, i) = Carries(frames[o], "data", i) + Waiting(inq[o], i) + owed[o][i]
                        + Carries(frames[s], "window", i)
      BY <1>1, <2>1, SpentIs
    <2>3. /\ frames[o] = <<>> /\ frames[s] = <<>> /\ owed[o][i] = 0
          /\ inq[o] = [d \in Streams |-> <<>>]
      BY DEF Init, Both
    <2>4. \A kind : Carries(<<>>, kind, i) = 0
      <3>1. <<>> \in Seq(Frames)
        OBVIOUS
      <3> QED BY <3>1, CarriesIs, WeighEmpty, Zenon
    <2>5. Waiting([d \in Streams |-> <<>>], i) = 0
      <3> DEFINE row == Row([d \in Streams |-> <<>>], i)
      <3>1. row = [d \in 1..Most |-> 0] /\ Most \in Nat
        BY <1>1, DataInEmpty, PlanFacts DEF Row, Streams, Inv
      <3> HIDE DEF row
      <3>2. Total([d \in 1..Most |-> 0]) = 0
        BY <3>1, TotalZeros
      <3> QED BY <3>1, <3>2, Zenon DEF Waiting, row
    <2> QED BY <2>2, <2>3, <2>4, <2>5
  <1> QED BY <1>3, <1>4 DEF Credits, Silent

\* No credit of a sender is lost while its pump runs under its own id and the other
\* end reads the channel, and none is made for a stream that shares its id with no
\* other: every step that spends, drops, owes or grants credit moves it on
\* (charge, StreamSink::abandon, forward_data's owed map, Flow::grant).
THEOREM StreamsCreditKept == Spec => []CreditKept
  <1>1. Init => Credits
    BY CreditsFirst
  <1>2. Inv /\ Inv' /\ Queueing /\ Credits /\ [Next]_vars => Credits'
    BY CreditsStep
  <1>3. Inv /\ Credits => CreditKept
    BY CreditIs DEF Credits
  <1> QED BY <1>1, <1>2, <1>3, Always, AlwaysQueueing, PTL DEF Spec
=============================================================================
