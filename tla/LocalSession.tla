---------------------------- MODULE LocalSession ----------------------------
(***************************************************************************)
(* An interactive session on the local socket: what serve_connection makes  *)
(* of UnixTransport and PtyBridge. The daemon takes the client's messages   *)
(* until End (receive_configuration), starts the program on the descriptors *)
(* that came with Fd, and from then on receives only to see resizes and the *)
(* client's end (winsize_loop), for as long as the select lasts.            *)
(***************************************************************************)
EXTENDS UnixTransport, PtyBridge

VARIABLE pc  \* the daemon's: "config", "session", or "refused" without a program

\* Fd, End and a resize; what comes before Fd takes the same way as it.
FdMsg  == 1
EndMsg == 2
SessionMessages ==
  <<[size |-> 1, fds |-> 3], [size |-> 0, fds |-> 0], [size |-> 0, fds |-> 0]>>

ASSUME SessionAssumption == Messages = SessionMessages /\ Config = EndMsg /\ MaxScmFds >= 3

vars == <<sockVars, bridgeVars, pc>>

Init == SockInit /\ BridgeInit /\ pc = "config"

-----------------------------------------------------------------------------
ClientSends == Sends /\ UNCHANGED <<bridgeVars, pc>>

\* The client may go at any time. Only what the daemon answered can be unread.
ClientEnds ==
  /\ SenderGoes
  /\ sEnd' = "reset" => pc = "refused" \/ main = "done"
  /\ UNCHANGED <<bridgeVars, pc>>

\* The daemon receives in receive_configuration and in winsize_loop.
Listens == pc = "config" \/ (pc = "session" /\ main = "select")

\* A message that is no Fd with three descriptors is refused as Fd; with End the
\* program is started, or cannot be.
DaemonRecvs ==
  /\ Listens
  /\ RecvsHeader \/ RecvsPayload
  /\ LET handled(m) == pc = "config" /\ got' # got /\ Len(got') = m IN
       \/ handled(FdMsg) /\ pc' = IF got'[FdMsg].fds = 3 THEN "config" ELSE "refused"
       \/ handled(EndMsg) /\ pc' \in {"session", "refused"}
       \/ ~handled(FdMsg) /\ ~handled(EndMsg) /\ UNCHANGED pc
  /\ UNCHANGED bridgeVars

\* The client is gone: before End that ends the connection, behind it the program.
DaemonLosesClient ==
  /\ Listens /\ RecvsEnd
  /\ \/ pc = "config" /\ pc' = "refused" /\ UNCHANGED bridgeVars
     \/ pc = "session" /\ ClientGoes /\ UNCHANGED pc

SessionRuns == pc = "session" /\ BridgeStep /\ UNCHANGED <<sockVars, pc>>

\* serve_connection returns, and the socket is dropped.
DaemonCloses ==
  /\ pc = "refused" \/ (pc = "session" /\ main \in {"done", "failed"})
  /\ ReceiverGoes
  /\ UNCHANGED <<bridgeVars, pc>>

Terminated ==
  /\ \/ pc = "refused" /\ rpc \notin {"header", "payload"}
     \/ pc = "session" /\ BridgeTerminated
  /\ UNCHANGED vars

Receives == DaemonRecvs \/ DaemonLosesClient

Next ==
  \/ ClientSends \/ ClientEnds \/ Receives \/ SessionRuns \/ DaemonCloses \/ Terminated

Spec == Init /\ [][Next]_vars

-----------------------------------------------------------------------------
\* The shape of the state, where no program runs before its configuration is whole.
TypeOK ==
  /\ SockTypeOK /\ BridgeTypeOK
  /\ pc \in {"config", "session", "refused"}

\* The daemon serves a request only with the three descriptors the client sent
\* with Fd, and never refuses one for what the socket made of it: a request is
\* refused because the client went or the program cannot be started.
Served == pc = "refused" => sEnd # "open" \/ Len(got) = EndMsg

-----------------------------------------------------------------------------
(* Both ends of the socket run, and all that PtyBridge assumes of the session *)
(* does once it is there.                                                    *)
Runs(A) == pc = "session" /\ A /\ UNCHANGED <<sockVars, pc>>

Fairness ==
  /\ WF_vars(ClientSends) /\ WF_vars(Receives) /\ WF_vars(DaemonCloses)
  /\ WF_vars(Runs(Input)) /\ WF_vars(Runs(Output)) /\ WF_vars(Runs(Main))
  /\ WF_vars(Runs(OutputRead))

FairSpec == Spec /\ Fairness

\* A request is taken to its end, however small the socket is, unless the client
\* went; then the connection is closed (receive_configuration returns ClientClosed).
ConfigEnds == pc = "config" ~> pc # "config"

\* A client that dies or hangs up, wherever it is in a message, takes its program
\* with it (run_interactive: "tear down the child rather than linger").
HangupEndsProgram == sEnd \in {"closed", "reset"} ~> pc = "refused" \/ prog = "exited"
=============================================================================
