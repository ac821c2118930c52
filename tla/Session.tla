------------------------------ MODULE Session ------------------------------
(***************************************************************************)
(* One use of a capability over a Unix socket: the client that sends its    *)
(* request and waits for the outcome, once more with a secret if it is      *)
(* challenged (crates/capsudo-core/src/client.rs, crates/capsudo/src/       *)
(* main.rs); the front-end that may stand before the daemon                 *)
(* (crates/capsudod-pwauth/src/main.rs); the daemon that takes the request, *)
(* applies its policy, runs the program and reports (daemon.rs, pty.rs,     *)
(* exit.rs); and the client's terminal, whose size the program is to see.   *)
(*                                                                         *)
(* The socket keeps messages whole: a reader takes what the other end wrote *)
(* before it closed, and only then learns of the close; a writer learns of  *)
(* it at once. How output drains ahead of an exit is MuxSession's subject.   *)
(***************************************************************************)
EXTENDS Integers, SequencesExt

CONSTANTS
  Policies,  \* what daemons may be configured with (DaemonConfig)
  Requests,  \* what clients may ask for: argv, environment and session type
  FrontEnds, \* whether an authenticating front-end stands before the daemon
  TermSizes, \* sizes of a terminal
  Default,   \* DEFAULT_WINSIZE
  Codes,     \* exit codes of programs
  Buffer,    \* messages the socket holds towards the daemon
  Resizes    \* bound on the resizes of the client's terminal

\* Arguments and variables of an environment.
Words == {"sh"} \cup UNION {UNION {Range(p.args), Range(p.env)} : p \in Policies}
               \cup UNION {UNION {Range(r.args), Range(r.env)} : r \in Requests}
Types == {"pty", "direct"}

ASSUME SessionAssumption ==
  /\ \A p \in Policies :
       /\ {p.args, p.env} \subseteq Seq(Words) /\ {p.noArgv, p.noEnv} \subseteq BOOLEAN
  /\ \A r \in Requests : {r.args, r.env} \subseteq Seq(Words) /\ r.type \in Types
  /\ FrontEnds \subseteq BOOLEAN
  /\ Default \in TermSizes
  /\ Codes \subseteq Nat
  /\ Buffer \in Nat \ {0}
  /\ Resizes \in Nat

Killed == 137   \* exit_code of a program killed with SIGKILL
NoSecret == "none"
NoSize == "none"
Secrets == {"right", "wrong"}

VARIABLES
  \* Fixed from the start.
  policy, request, chained,
  \* The client's terminal.
  term, resizes,
  \* The client: where it is, what it presents, how far it sent its request.
  cpc,       \* "connect", "send", "recv", "prompt", "done" or "dead"
  secret, next,
  failure,   \* an Error was received
  outcome,   \* what the user is told
  \* The resize forwarder, and SIGWINCH as far as it is pending for it.
  fwd, winch, fsize,
  \* The socket.
  up, down,
  \* The other end: the front-end, or the daemon, of this connection.
  srv,       \* "front", "config", "start", "run", "kill", "stuck" in Bridge::stop,
             \* "report", "drop" or "closed"
  challenged,\* the front-end asked for a secret on it (auxiliary)
  sigchld,   \* "default" or "ignored", as the daemon inherited it
  got,       \* the request as far as it was received
  \* The program.
  ran,       \* what was started for this client (auxiliary)
  prog, code, ptySize

fixed    == <<policy, request, chained>>
terminal == <<term, resizes>>
config   == <<secret, next>>
forward  == <<fwd, winch, fsize>>
server   == <<srv, challenged, sigchld, got>>
program  == <<ran, prog, code, ptySize>>
vars == <<fixed, terminal, cpc, config, failure, outcome, forward, up, down,
          server, program>>

Message(kind, value) == [kind |-> kind, value |-> value]
Error        == [kind |-> "error"]
Unauthorized == [kind |-> "unauthorized"]
Exit(status) == [kind |-> "exit", code |-> status]
\* The other end gives up (fail, send_spawn_failure).
Refusal(status) == <<Error, Exit(status)>>
Told(kind)   == [kind |-> kind]

\* The client's end is closed: it has returned, or it died.
Hangup == cpc \in {"done", "dead"}

\* DaemonConfig, before anything of the client's.
Received ==
  [argv |-> policy.args, envp |-> policy.env, type |-> "direct", fds |-> FALSE,
   size |-> Default]

-----------------------------------------------------------------------------
(* The size is read, for an interactive session on a terminal, before the    *)
(* client connects.                                                          *)
Init ==
  /\ policy \in Policies /\ chained \in FrontEnds
  /\ term \in TermSizes /\ resizes = 0
  /\ \E asked \in Requests, size \in {term, NoSize} :
       /\ asked.type = "direct" => size = NoSize
       /\ request = [args |-> asked.args, env |-> asked.env, type |-> asked.type,
                     size |-> size]
  /\ cpc = "connect" /\ secret = NoSecret /\ next = 1
  /\ failure = FALSE /\ outcome = Told("none")
  /\ fwd = "off" /\ winch = FALSE /\ fsize = NoSize
  /\ up = <<>> /\ down = <<>>
  /\ srv = "closed" /\ challenged = FALSE /\ sigchld = "default" /\ got = Received
  /\ ran = <<>> /\ prog = "none" /\ code = 0 /\ ptySize = NoSize

-----------------------------------------------------------------------------
(* The client's terminal, and the forwarder of its size.                     *)

\* SIGWINCH is lost on a process that does not listen for it yet, and further
\* ones are merged into one that was not taken.
Resize ==
  /\ resizes < Resizes
  /\ resizes' = resizes + 1
  /\ term' \in TermSizes \ {term}
  /\ winch' = (winch \/ fwd \in {"waiting", "writing"})
  /\ UNCHANGED <<fixed, cpc, config, failure, outcome, fwd, fsize, up, down,
                 server, program>>

FwdRegisters ==
  /\ fwd = "spawned"
  /\ fwd' = "waiting"
  /\ UNCHANGED <<fixed, terminal, cpc, config, failure, outcome, winch, fsize, up,
                 down, server, program>>

FwdWakes ==
  /\ fwd = "waiting" /\ winch
  /\ fwd' = "writing" /\ winch' = FALSE /\ fsize' = term
  /\ UNCHANGED <<fixed, terminal, cpc, config, failure, outcome, up, down, server,
                 program>>

\* Mutant: SIGWINCH is taken off after the size was sent.
FwdWrites_Clears ==
  /\ fwd = "writing"
  /\ LET written == srv # "closed" /\ Len(up) < Buffer IN
       /\ fwd' = IF written THEN "waiting" ELSE "failed"
       /\ up' = IF written THEN Append(up, Message("winsize", fsize)) ELSE up
  /\ winch' = FALSE
  /\ UNCHANGED <<fixed, terminal, cpc, config, failure, outcome, fsize, down, server,
                 program>>

\* A write that finds no room, or nobody at the other end, ends the forwarder.
\* The socket is nonblocking for its dup as well.
FwdWrites ==
  /\ fwd = "writing"
  /\ LET written == srv # "closed" /\ Len(up) < Buffer IN
       /\ fwd' = IF written THEN "waiting" ELSE "failed"
       /\ up' = IF written THEN Append(up, Message("winsize", fsize)) ELSE up
  /\ UNCHANGED <<fixed, terminal, cpc, config, failure, outcome, winch, fsize, down,
                 server, program>>

Forwarder == FwdRegisters \/ FwdWakes \/ FwdWrites

-----------------------------------------------------------------------------
(* The client.                                                               *)

\* send_configuration, in the order of its calls.
Configuration ==
  (IF secret = NoSecret THEN <<>> ELSE <<Message("secret", secret)>>)
  \o [i \in DOMAIN request.env |-> Message("env", request.env[i])]
  \o [i \in DOMAIN request.args |-> Message("arg", request.args[i])]
  \o <<Message("type", request.type)>>
  \o (IF request.size = NoSize THEN <<>> ELSE <<Message("winsize", request.size)>>)
  \o <<Message("fds", "three"), Message("end", "")>>

Connects ==
  /\ cpc = "connect"
  /\ cpc' = "send" /\ next' = 1 /\ failure' = FALSE
  /\ up' = <<>> /\ down' = <<>>
  /\ srv' = IF chained THEN "front" ELSE "config"
  /\ challenged' = FALSE /\ sigchld' = "default" /\ got' = Received
  /\ UNCHANGED <<fixed, terminal, secret, outcome, forward, program>>

CannotConnect ==
  /\ cpc = "connect"
  /\ cpc' = "done" /\ outcome' = Told("unreachable")
  /\ UNCHANGED <<fixed, terminal, config, failure, forward, up, down, server, program>>

\* With the last message sent, and a terminal whose size was asked for, the
\* forwarder starts.
Sends ==
  /\ cpc = "send" /\ srv # "closed" /\ Len(up) < Buffer
  /\ up' = Append(up, Configuration[next])
  /\ next' = next + 1
  /\ IF next < Len(Configuration)
       THEN UNCHANGED <<cpc, fwd>>
       ELSE cpc' = "recv" /\ fwd' = IF request.size = NoSize THEN "off" ELSE "spawned"
  /\ UNCHANGED <<fixed, terminal, secret, failure, outcome, winch, fsize, down, server,
                 program>>

\* Mutant: a failed send is surfaced at once.
SendFails_Surfaces ==
  /\ cpc = "send" /\ srv = "closed"
  /\ cpc' = "done" /\ outcome' = Told("error")
  /\ UNCHANGED <<fixed, terminal, config, failure, forward, up, down, server, program>>

\* The other end is gone. Why it went may be waiting to be read.
SendFails ==
  /\ cpc = "send" /\ srv = "closed"
  /\ cpc' = "recv"
  /\ UNCHANGED <<fixed, terminal, config, failure, outcome, forward, up, down, server,
                 program>>

StopsForwarding == fwd' = "off" /\ winch' = FALSE /\ UNCHANGED fsize

\* Error is carried until the Exit.
TakesError ==
  /\ cpc = "recv" /\ down # <<>> /\ Head(down) = Error
  /\ down' = Tail(down) /\ failure' = TRUE
  /\ UNCHANGED <<fixed, terminal, cpc, config, outcome, forward, up, server, program>>

TakesExit ==
  /\ cpc = "recv" /\ down # <<>> /\ Head(down).kind = "exit"
  /\ down' = Tail(down) /\ cpc' = "done"
  /\ outcome' = [kind |-> IF failure THEN "failed" ELSE "exited", code |-> Head(down).code]
  /\ StopsForwarding
  /\ UNCHANGED <<fixed, terminal, config, failure, up, server, program>>

\* A second challenge is final.
TakesChallenge ==
  /\ cpc = "recv" /\ down # <<>> /\ Head(down) = Unauthorized
  /\ down' = Tail(down) /\ StopsForwarding
  /\ IF secret = NoSecret
       THEN cpc' = "prompt" /\ UNCHANGED outcome
       ELSE cpc' = "done" /\ outcome' = Told("refused")
  /\ UNCHANGED <<fixed, terminal, config, failure, up, server, program>>

RecvFails ==
  /\ cpc = "recv" /\ down = <<>> /\ srv = "closed"
  /\ cpc' = "done" /\ outcome' = Told("error")
  /\ StopsForwarding
  /\ UNCHANGED <<fixed, terminal, config, failure, up, down, server, program>>

\* The old transport is dropped, and the client connects again.
Prompts ==
  /\ cpc = "prompt"
  /\ secret' \in Secrets /\ cpc' = "connect"
  /\ UNCHANGED <<fixed, terminal, next, failure, outcome, forward, up, down, server,
                 program>>

GivesNoSecret ==
  /\ cpc = "prompt"
  /\ cpc' = "done" /\ outcome' = Told("refused")
  /\ UNCHANGED <<fixed, terminal, config, failure, forward, up, down, server, program>>

Dies ==
  /\ cpc \notin {"done", "dead"}
  /\ cpc' = "dead" /\ StopsForwarding
  /\ UNCHANGED <<fixed, terminal, config, failure, outcome, up, down, server, program>>

Recv == TakesError \/ TakesExit \/ TakesChallenge \/ RecvFails
Client == Connects \/ CannotConnect \/ Sends \/ SendFails \/ Recv

-----------------------------------------------------------------------------
(* The front-end: handle_client.                                             *)

\* Who the peer is cannot be told.
FrontFails ==
  /\ srv = "front"
  /\ srv' = "drop" /\ down' = down \o Refusal(1)
  /\ UNCHANGED <<fixed, terminal, cpc, config, failure, outcome, forward, up, challenged,
                 sigchld, got, program>>

FrontHungUp ==
  /\ srv = "front" /\ up = <<>> /\ Hangup
  /\ srv' = "drop"
  /\ UNCHANGED <<fixed, terminal, cpc, config, failure, outcome, forward, up, down,
                 challenged, sigchld, got, program>>

FrontChallenges ==
  /\ srv = "front" /\ up # <<>> /\ Head(up).kind # "secret"
  /\ up' = Tail(up) /\ down' = Append(down, Unauthorized)
  /\ srv' = "drop" /\ challenged' = TRUE
  /\ UNCHANGED <<fixed, terminal, cpc, config, failure, outcome, forward, sigchld, got,
                 program>>

FrontRefuses ==
  /\ srv = "front" /\ up # <<>> /\ Head(up).kind = "secret" /\ Head(up).value # "right"
  /\ up' = Tail(up) /\ down' = down \o Refusal(1)
  /\ srv' = "drop"
  /\ UNCHANGED <<fixed, terminal, cpc, config, failure, outcome, forward, challenged,
                 sigchld, got, program>>

\* The socket becomes the stdin of a daemon, which also inherits that SIGCHLD is
\* ignored; or that daemon cannot be started.
FrontHandsOver ==
  /\ srv = "front" /\ up # <<>>
  /\ Head(up) = Message("secret", "right")
  /\ up' = Tail(up) /\ srv' \in {"config", "drop"}
  /\ sigchld' = "ignored"
  /\ UNCHANGED <<fixed, terminal, cpc, config, failure, outcome, forward, down,
                 challenged, got, program>>

FrontEnd == FrontFails \/ FrontHungUp \/ FrontChallenges \/ FrontRefuses \/ FrontHandsOver

-----------------------------------------------------------------------------
(* The daemon: serve_connection.                                             *)

\* receive_configuration: what one message adds to the request.
With(message) ==
  CASE message.kind = "arg" /\ ~policy.noArgv -> [got EXCEPT !.argv = Append(@, message.value)]
    [] message.kind = "env" /\ ~policy.noEnv -> [got EXCEPT !.envp = Append(@, message.value)]
    [] message.kind = "type" -> [got EXCEPT !.type = message.value]
    [] message.kind = "winsize" -> [got EXCEPT !.size = message.value]
    [] message.kind = "fds" -> [got EXCEPT !.fds = TRUE]
    [] OTHER -> got

DTakes ==
  /\ srv = "config" /\ up # <<>> /\ Head(up).kind # "end"
  /\ up' = Tail(up) /\ got' = With(Head(up))
  /\ UNCHANGED <<fixed, terminal, cpc, config, failure, outcome, forward, down, srv,
                 challenged, sigchld, program>>

\* A session with no program is a shell.
DTakesEnd ==
  /\ srv = "config" /\ up # <<>> /\ Head(up).kind = "end" /\ got.fds
  /\ up' = Tail(up) /\ srv' = "start"
  /\ got' = [got EXCEPT !.argv = IF @ = <<>> THEN <<"sh">> ELSE @]
  /\ UNCHANGED <<fixed, terminal, cpc, config, failure, outcome, forward, down,
                 challenged, sigchld, program>>

\* The client hung up, or asked for nothing to run on.
NoRequest == IF up = <<>> THEN Hangup ELSE Head(up).kind = "end" /\ ~got.fds

\* Mutant: the session goes on after the refusal.
DRefuses_GoesOn ==
  /\ srv = "config" /\ NoRequest
  /\ down' = down \o Refusal(1)
  /\ UNCHANGED <<fixed, terminal, cpc, config, failure, outcome, forward, up, server,
                 program>>

\* Mutant: what came of the request is run although the client hung up.
DRefuses_Runs ==
  /\ srv = "config" /\ NoRequest
  /\ srv' = "start"
  /\ UNCHANGED <<fixed, terminal, cpc, config, failure, outcome, forward, up, down,
                 challenged, sigchld, got, program>>

DRefuses ==
  /\ srv = "config" /\ NoRequest
  /\ down' = down \o Refusal(1) /\ srv' = "drop"
  /\ UNCHANGED <<fixed, terminal, cpc, config, failure, outcome, forward, up,
                 challenged, sigchld, got, program>>

\* A pty has the size that was last received.
Spawned ==
  /\ ran' = Append(ran, [argv |-> got.argv, envp |-> got.envp, type |-> got.type])
  /\ prog' = "running" /\ UNCHANGED code
  /\ ptySize' = IF got.type = "pty" THEN got.size ELSE NoSize

DSpawns ==
  /\ srv = "start"
  /\ Spawned /\ srv' = "run"
  /\ UNCHANGED <<fixed, terminal, cpc, config, failure, outcome, forward, up, down,
                 challenged, sigchld, got>>

\* send_spawn_failure. With SIGCHLD ignored the start that failed may itself fail to
\* wait for its child, and takes the daemon with it.
SpawnFails ==
  /\ srv = "start"
  /\ \/ down' = down \o Refusal(127)
     \/ sigchld = "ignored" /\ UNCHANGED down
  /\ srv' = "drop"
  /\ UNCHANGED <<fixed, terminal, cpc, config, failure, outcome, forward, up,
                 challenged, sigchld, got, program>>

\* No pty can be allocated, or, with the program already running, no bridge to
\* it: the session ends with no report.
PtyFails ==
  /\ srv = "start" /\ got.type = "pty"
  /\ Spawned \/ UNCHANGED program
  /\ srv' = "drop"
  /\ UNCHANGED <<fixed, terminal, cpc, config, failure, outcome, forward, up, down,
                 challenged, sigchld, got>>

\* winsize_loop, of an interactive session only.
DTakesSize ==
  /\ srv = "run" /\ got.type = "pty" /\ up # <<>>
  /\ up' = Tail(up)
  /\ ptySize' = IF Head(up).kind = "winsize" THEN Head(up).value ELSE ptySize
  /\ UNCHANGED <<fixed, terminal, cpc, config, failure, outcome, forward, down, server,
                 ran, prog, code>>

\* Mutant: the child is waited for, and not killed.
DHungUp_Lingers ==
  /\ srv = "run" /\ got.type = "pty" /\ up = <<>> /\ Hangup
  /\ UNCHANGED vars

\* The client hung up: start_kill.
DHungUp ==
  /\ srv = "run" /\ got.type = "pty" /\ up = <<>> /\ Hangup
  /\ srv' = "kill"
  /\ UNCHANGED <<fixed, terminal, cpc, config, failure, outcome, forward, up, down,
                 challenged, sigchld, got, program>>

ProgramExits ==
  /\ prog = "running"
  /\ prog' = "exited" /\ code' \in Codes
  /\ UNCHANGED <<fixed, terminal, cpc, config, failure, outcome, forward, up, down,
                 server, ran, ptySize>>

KillTakes ==
  /\ srv = "kill" /\ prog = "running"
  /\ prog' = "exited" /\ code' = Killed
  /\ UNCHANGED <<fixed, terminal, cpc, config, failure, outcome, forward, up, down,
                 server, ran, ptySize>>

\* An interactive session stops its bridge before it reports. Whatever keeps that
\* waiting (PtyBridge says what can) need not come to an end.
Reaped == IF got.type = "pty" THEN {"report", "stuck"} ELSE {"report"}

\* Mutant: the status of a program that failed is taken for a failed wait.
DReaps_Successes ==
  /\ srv \in {"run", "kill"} /\ prog = "exited"
  /\ srv' \in IF sigchld = "ignored" \/ code # 0 THEN {"drop"} ELSE Reaped
  /\ UNCHANGED <<fixed, terminal, cpc, config, failure, outcome, forward, up, down,
                 challenged, sigchld, got, program>>

\* child.wait returns. A process that ignores SIGCHLD has no status to wait for:
\* the wait fails once the program is gone, and the session with it.
DReaps ==
  /\ srv \in {"run", "kill"} /\ prog = "exited"
  /\ srv' \in IF sigchld = "ignored" THEN {"drop"} ELSE Reaped
  /\ UNCHANGED <<fixed, terminal, cpc, config, failure, outcome, forward, up, down,
                 challenged, sigchld, got, program>>

BridgeFreed ==
  /\ srv = "stuck"
  /\ srv' = "report"
  /\ UNCHANGED <<fixed, terminal, cpc, config, failure, outcome, forward, up, down,
                 challenged, sigchld, got, program>>

\* send_exit.
DReports ==
  /\ srv = "report"
  /\ down' = Append(down, Exit(code)) /\ srv' = "drop"
  /\ UNCHANGED <<fixed, terminal, cpc, config, failure, outcome, forward, up,
                 challenged, sigchld, got, program>>

\* Mutant: the front-end keeps the socket it handed over.
Drops_Held ==
  /\ srv = "drop" /\ sigchld = "default"
  /\ srv' = "closed" /\ up' = <<>>
  /\ UNCHANGED <<fixed, terminal, cpc, config, failure, outcome, forward, down,
                 challenged, sigchld, got, program>>

\* The transport is dropped. What was not read of the request is lost.
Drops ==
  /\ srv = "drop"
  /\ srv' = "closed" /\ up' = <<>>
  /\ UNCHANGED <<fixed, terminal, cpc, config, failure, outcome, forward, down,
                 challenged, sigchld, got, program>>

Start == DSpawns \/ SpawnFails \/ PtyFails
Daemon ==
  \/ DTakes \/ DTakesEnd \/ DRefuses \/ Start \/ DReaps \/ DReports \/ Drops

-----------------------------------------------------------------------------
Terminated == Hangup /\ srv = "closed" /\ prog # "running" /\ UNCHANGED vars

Next ==
  \/ Resize \/ Forwarder \/ Client \/ Prompts \/ GivesNoSecret \/ Dies
  \/ FrontEnd \/ Daemon \/ BridgeFreed \/ DTakesSize \/ DHungUp \/ ProgramExits
  \/ KillTakes
  \/ Terminated

Spec == Init /\ [][Next]_vars

-----------------------------------------------------------------------------
\* The state's shape: at most one program is started, and the socket never
\* holds more than it has room for.
TypeOK ==
  /\ policy \in Policies /\ chained \in FrontEnds /\ term \in TermSizes
  /\ resizes \in 0..Resizes
  /\ cpc \in {"connect", "send", "recv", "prompt", "done", "dead"}
  /\ secret \in Secrets \cup {NoSecret} /\ next \in 1..Len(Configuration) + 1
  /\ failure \in BOOLEAN
  /\ outcome.kind \in {"none", "exited", "failed", "refused", "unreachable", "error"}
  /\ fwd \in {"off", "spawned", "waiting", "writing", "failed"} /\ winch \in BOOLEAN
  /\ fsize \in TermSizes \cup {NoSize} /\ ptySize \in TermSizes \cup {NoSize}
  /\ Len(up) <= Buffer /\ Len(down) <= 2
  /\ srv \in {"front", "config", "start", "run", "kill", "stuck", "report", "drop",
              "closed"}
  /\ challenged \in BOOLEAN /\ sigchld \in {"default", "ignored"}
  /\ got.argv \in Seq(Words) /\ got.envp \in Seq(Words) /\ got.fds \in BOOLEAN
  /\ Len(ran) <= 1 /\ prog \in {"none", "running", "exited"} /\ code \in Nat

\* A session is a use of the capability: however the front-end, the retry, a
\* death of the client between two messages and the failures of a start
\* combine, at most one program runs, on the whole request as the policy
\* permits it, and what the client is told is what happened ("tell 'the
\* program ran and failed' from 'the program never ran'", client.rs:40-43).
Promise == INSTANCE Capability WITH told <- outcome
IsCapability == Promise!Spec

\* A challenge wins over the send that failed because the front-end closed
\* behind it (the comment in run_session).
ChallengeWins == challenged => outcome.kind # "error"

-----------------------------------------------------------------------------
(* Every task takes the steps it can. The user may leave the prompt, the     *)
(* program may run, and a bridge may be stuck, for ever.                     *)
Fairness ==
  /\ WF_vars(Client) /\ WF_vars(Forwarder) /\ WF_vars(FrontEnd) /\ WF_vars(Daemon)
  /\ WF_vars(DTakesSize) /\ WF_vars(DHungUp) /\ WF_vars(KillTakes)

FairSpec == Spec /\ Fairness

\* A client that has connected is answered, whatever refuses it and however far
\* it got, unless its program runs on.
Answered == cpc = "send" ~> cpc \notin {"send", "recv"} \/ prog = "running"

\* The client of a daemon that was not started by a front-end is told the exit of
\* its program, however the program came to its end (exit_code), unless the session
\* is interactive and the stop of its bridge is stuck; and when that is freed after
\* all, the client is told then.
ExitReported ==
  srv \in {"run", "report"} /\ prog = "exited" /\ ~chained ~>
    \/ outcome.kind = "exited" \/ cpc = "dead"
    \/ got.type = "pty" /\ srv = "stuck"

\* daemon.rs:4-6: the daemon, any daemon, "runs the requested program [...] and
\* relays the exit status back".
ExitRelayed == srv = "run" /\ prog = "exited" ~> outcome.kind = "exited" \/ cpc = "dead"

\* An interactive program does not outlive its client (run_interactive).
HangupEndsProgram ==
  srv = "run" /\ got.type = "pty" /\ Hangup ~> prog = "exited"

\* A resize the forwarder woke for reaches the pty, unless the program or the
\* client ends before, or the forwarder does.
ResizeArrives ==
  fwd = "waiting" /\ winch ~>
    ptySize = term \/ prog # "running" \/ Hangup \/ fwd = "failed"
=============================================================================
