----------------------------- MODULE Capability -----------------------------
(***************************************************************************)
(* What a capability promises to one client: its program runs at most once, *)
(* as the policy permits it and the whole request asks for it, and the      *)
(* client is told what happened, or that nobody knows.                      *)
(***************************************************************************)
EXTENDS Integers, Sequences

VARIABLES policy, request, ran, prog, code, told

vars == <<policy, request, ran, prog, code, told>>

Shell == "sh"
Or(chosen, default) == IF chosen = <<>> THEN default ELSE chosen

\* What the policy makes of the request.
Permitted ==
  [argv |-> Or(policy.args \o (IF policy.noArgv THEN <<>> ELSE request.args), <<Shell>>),
   envp |-> policy.env \o (IF policy.noEnv THEN <<>> ELSE request.env),
   type |-> request.type]

Untold == told.kind = "none"

Init == ran = <<>> /\ prog = "none" /\ code = 0 /\ Untold

Run ==
  /\ Untold /\ ran = <<>>
  /\ ran' = <<Permitted>> /\ prog' = "running"
  /\ UNCHANGED <<policy, request, code, told>>

End ==
  /\ prog = "running"
  /\ prog' = "exited" /\ code' \in Int
  /\ UNCHANGED <<policy, request, ran, told>>

\* "exited" is the program's own status, "failed", "refused" and "unreachable"
\* say that it never ran, and "error" says nothing of it.
Tell ==
  /\ Untold
  /\ told'.kind \in {"exited", "failed", "refused", "unreachable", "error"}
  /\ told'.kind = "exited" => prog = "exited" /\ told'.code = code
  /\ told'.kind \in {"failed", "refused", "unreachable"} => ran = <<>>
  /\ UNCHANGED <<policy, request, ran, prog, code>>

Next == Run \/ End \/ Tell

Spec == Init /\ [][Next]_vars
=============================================================================
