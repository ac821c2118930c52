----------------------------- MODULE MCStreams -----------------------------
(* Channels for MuxStreams: a descriptor that is read and written; two with    *)
(* ids of their own, of which one may live at once; and two that share an id,  *)
(* of which both may live, or one on a channel that may fail.                  *)
EXTENDS MuxStreams

Plan(dirs, ids, live, fails) ==
  [dirs |-> dirs, ids |-> ids, live |-> live, fails |-> fails]

MCOne == {Plan(<<"both">>, 1, 1, TRUE)}

MCPlans == MCOne \cup {
  Plan(<<"write", "read">>, 2, 1, TRUE),
  Plan(<<"write", "write">>, 1, 2, FALSE),
  Plan(<<"write", "write">>, 1, 1, TRUE)}
=============================================================================
