------------------------------- MODULE Report -------------------------------
(***************************************************************************)
(* What a client is told of the program it had run, whichever way its       *)
(* session travels: the exit at most once, after it, and behind everything  *)
(* the program wrote before it. Only if the way to the client broke is      *)
(* output lost, or the client told no exit but that the channel closed      *)
(* (crates/capsudo-core/src/client.rs, await_outcome).                      *)
(***************************************************************************)
EXTENDS Naturals

CONSTANT Outputs

VARIABLES
  runs,    \* the program runs
  owed,    \* by output: written by it and still to come
  told,    \* "nothing", "exited" or "closed"
  broken   \* something on the way to the client failed

vars == <<runs, owed, told, broken>>

Nothing == [o \in Outputs |-> 0]

Init == runs = TRUE /\ owed = Nothing /\ told = "nothing" /\ broken = FALSE

\* What is written once the way is broken need not come.
Write(o) ==
  /\ runs /\ ~broken
  /\ owed' = [owed EXCEPT ![o] = @ + 1]
  /\ UNCHANGED <<runs, told, broken>>

Show(o) ==
  /\ \E n \in 1..owed[o] : owed' = [owed EXCEPT ![o] = @ - n]
  /\ UNCHANGED <<runs, told, broken>>

Exit ==
  /\ runs' = FALSE
  /\ UNCHANGED <<owed, told, broken>>

\* The way breaks, or what was still to come is lost on it.
Break ==
  /\ broken' = TRUE
  /\ owed' \in {owed, Nothing}
  /\ UNCHANGED <<runs, told>>

Tell ==
  /\ told = "nothing"
  /\ \/ told' = "exited" /\ ~runs /\ owed = Nothing
     \/ told' = "closed" /\ broken
  /\ UNCHANGED <<runs, owed, broken>>

Next == (\E o \in Outputs : Write(o) \/ Show(o)) \/ Exit \/ Break \/ Tell

Spec == Init /\ [][Next]_vars
=============================================================================
