---------------------------- MODULE MessageQueue ----------------------------
(***************************************************************************)
(* What a Transport promises to one who receives (the trait's comments in   *)
(* crates/capsudo-transport/src/traits.rs): whole messages, in order, once, *)
(* each with the descriptors that were sent with it. The end of the stream  *)
(* is clean behind the last of them; at most one message, on its way when   *)
(* the sender went, is lost, and that is an error and no clean end.         *)
(***************************************************************************)
EXTENDS Naturals, Sequences

CONSTANT Messages  \* what the sender sends, in order, if it lives

VARIABLES
  begun,  \* how many of them it has begun to send
  got,    \* what was received
  ended   \* "no", "clean" or "error"

vars == <<begun, got, ended>>

Init == begun = 0 /\ got = <<>> /\ ended = "no"

Put ==
  /\ begun < Len(Messages)
  /\ begun' = begun + 1
  /\ UNCHANGED <<got, ended>>

Get ==
  /\ ended = "no" /\ Len(got) < begun
  /\ got' = Append(got, Messages[Len(got) + 1])
  /\ UNCHANGED <<begun, ended>>

End ==
  /\ ended = "no"
  /\ \/ Len(got) = begun /\ ended' = "clean"
     \/ begun <= Len(got) + 1 /\ ended' = "error"
  /\ UNCHANGED <<begun, got>>

Next == Put \/ Get \/ End

Spec == Init /\ [][Next]_vars
=============================================================================
