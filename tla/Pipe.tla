-------------------------------- MODULE Pipe --------------------------------
(***************************************************************************)
(* What a delegated stream promises: the pipe its descriptor stands for.    *)
(* Items come out in the order they went in, and end of file comes behind   *)
(* the last of them. Once the pipe is broken (its reader closed it, or what *)
(* carries it failed) the items farthest behind may be lost, never one      *)
(* ahead of another that is delivered.                                      *)
(***************************************************************************)
EXTENDS Naturals, Sequences

CONSTANT Items

VARIABLES buf, got, closed, eof, broken

vars == <<buf, got, closed, eof, broken>>

Init == buf = <<>> /\ got = 0 /\ closed = FALSE /\ eof = FALSE /\ broken = FALSE

Put ==
  /\ ~closed
  /\ \E item \in Items : buf' = Append(buf, item)
  /\ UNCHANGED <<got, closed, eof, broken>>

Close ==
  /\ closed' = TRUE
  /\ UNCHANGED <<buf, got, eof, broken>>

Get ==
  /\ buf # <<>> /\ ~eof
  /\ got' = Head(buf)
  /\ buf' = Tail(buf)
  /\ UNCHANGED <<closed, eof, broken>>

Eof ==
  /\ buf = <<>> /\ (closed \/ broken)
  /\ eof' = TRUE
  /\ UNCHANGED <<buf, got, closed, broken>>

\* The pipe breaks, or loses more once it is broken.
Lose ==
  /\ broken' = TRUE
  /\ \E n \in 0..Len(buf) : buf' = SubSeq(buf, 1, n)
  /\ UNCHANGED <<got, closed, eof>>

Next == Put \/ Close \/ Get \/ Eof \/ Lose

Spec == Init /\ [][Next]_vars
=============================================================================
