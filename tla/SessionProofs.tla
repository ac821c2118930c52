--------------------------- MODULE SessionProofs ---------------------------
(***************************************************************************)
(* Theorems of Session, for every policy, request, deployment and bound:    *)
(* at most one program runs, what the client is told of it is true, a       *)
(* challenge is never lost, and what runs is what the policy makes of the   *)
(* request, so that Session implements Capability.                          *)
(***************************************************************************)
EXTENDS Session, SequenceTheorems, TLAPS

\* The other end has done all it does on this connection but close it.
Settled == srv \in {"drop", "closed"}

\* What it may have left for the client to read: a challenge, the exit of the
\* program, or a refusal in two messages.
Reports ==
  \/ down = <<>>
  \/ down = <<Unauthorized>>
  \/ \E c \in Int : down = <<Exit(c)>> \/ down = Refusal(c)

\* While the other end works it has reported nothing, and before it starts a
\* program there is none.
Server ==
  /\ ~Settled => down = <<>> /\ ~challenged /\ ~failure
  /\ srv \in {"front", "config", "start"} => ran = <<>>
  /\ srv \in {"stuck", "report"} => prog = "exited"
  /\ ran = <<>> \/ \E command : ran = <<command>>
  /\ prog \in {"none", "running", "exited"} /\ (prog = "none" <=> ran = <<>>)
  /\ code \in Int

\* What a report says is so.
Reporting ==
  /\ down = <<Unauthorized>> => challenged
  /\ challenged => ran = <<>> /\ (cpc \in {"send", "recv"} => down = <<Unauthorized>>)
  /\ failure => ran = <<>>
  /\ \A c \in Int :
       /\ down = Refusal(c) => ran = <<>>
       /\ down = <<Exit(c)>> /\ ~failure => prog = "exited" /\ code = c

\* A client connects, the first time and again, with nothing started.
Asking == cpc \in {"connect", "prompt"} => Settled /\ ran = <<>>

\* What the client is told is so, and stays so.
Telling ==
  /\ outcome.kind # "none" => cpc = "done"
  /\ outcome.kind = "exited" => prog = "exited" /\ outcome.code = code
  /\ outcome.kind \in {"failed", "refused", "unreachable"} => Settled /\ ran = <<>>
  /\ outcome.kind = "error" => srv = "closed" /\ ~challenged
  /\ outcome.kind \in {"none", "exited", "failed", "refused", "unreachable", "error"}

Inv == Reports /\ Server /\ Reporting /\ Asking /\ Telling

\* At most one program is started for a client, and what the client is told of
\* it is what happened: its own exit, or that it never ran (SessionOutcome).
Truth ==
  /\ Len(ran) <= 1
  /\ outcome.kind = "exited" => prog = "exited" /\ outcome.code = code
  /\ outcome.kind \in {"failed", "refused", "unreachable"} => ran = <<>>

-----------------------------------------------------------------------------
\* Reports are told apart, and read one message at a time.
LEMMA ReportFacts ==
  /\ <<>> \o Refusal(1) = Refusal(1) /\ <<>> \o Refusal(127) = Refusal(127)
  /\ Append(<<>>, Unauthorized) = <<Unauthorized>>
  /\ <<Unauthorized>> # <<>>
  /\ Head(<<Unauthorized>>) = Unauthorized /\ Tail(<<Unauthorized>>) = <<>>
  /\ Unauthorized # Error /\ Unauthorized.kind # "exit" /\ Error.kind # "exit"
  /\ \A c \in Int :
       /\ Append(<<>>, Exit(c)) = <<Exit(c)>>
       /\ Refusal(c) # <<>> /\ <<Exit(c)>> # <<>>
       /\ Refusal(c) # <<Unauthorized>> /\ <<Exit(c)>> # <<Unauthorized>>
       /\ Head(<<Exit(c)>>) = Exit(c) /\ Tail(<<Exit(c)>>) = <<>>
       /\ Head(Refusal(c)) = Error /\ Tail(Refusal(c)) = <<Exit(c)>>
       /\ Exit(c) # Error /\ Exit(c) # Unauthorized
       /\ Exit(c).kind = "exit" /\ Exit(c).code = c
       /\ \A d \in Int :
            /\ Refusal(c) # <<Exit(d)>>
            /\ <<Exit(c)>> = <<Exit(d)>> => c = d
  <1>1. /\ <<Unauthorized>> # <<>>
        /\ Head(<<Unauthorized>>) = Unauthorized /\ Tail(<<Unauthorized>>) = <<>>
        /\ Append(<<>>, Unauthorized) = <<Unauthorized>>
    OBVIOUS
  <1>2. Unauthorized # Error /\ Unauthorized.kind # "exit" /\ Error.kind # "exit"
    BY DEF Error, Unauthorized
  <1>3. <<>> \o Refusal(1) = Refusal(1) /\ <<>> \o Refusal(127) = Refusal(127)
    BY DEF Refusal
  <1>4. ASSUME NEW c \in Int
        PROVE  /\ Append(<<>>, Exit(c)) = <<Exit(c)>>
               /\ <<Exit(c)>> # <<>>
               /\ Head(<<Exit(c)>>) = Exit(c) /\ Tail(<<Exit(c)>>) = <<>>
    OBVIOUS
  <1>5. ASSUME NEW c \in Int
        PROVE  /\ Exit(c) # Error /\ Exit(c) # Unauthorized
               /\ Exit(c).kind = "exit" /\ Exit(c).code = c
    BY DEF Exit, Error, Unauthorized
  <1>6. ASSUME NEW c \in Int, NEW d \in Int
        PROVE  <<Exit(c)>> = <<Exit(d)>> => c = d
    <2> SUFFICES ASSUME <<Exit(c)>> = <<Exit(d)>> PROVE c = d
      OBVIOUS
    <2>1. Head(<<Exit(c)>>) = Head(<<Exit(d)>>)
      OBVIOUS
    <2> QED BY <2>1, <1>4, <1>5
  <1>7. ASSUME NEW c \in Int
        PROVE  <<Exit(c)>> # <<Unauthorized>>
    BY <1>1, <1>4, <1>5
  <1>8. ASSUME NEW c \in Int
        PROVE  /\ Refusal(c) # <<>> /\ Refusal(c) # <<Unauthorized>>
               /\ Head(Refusal(c)) = Error /\ Tail(Refusal(c)) = <<Exit(c)>>
               /\ \A d \in Int : Refusal(c) # <<Exit(d)>>
    BY DEF Refusal
  <1> QED BY <1>1, <1>2, <1>3, <1>4, <1>5, <1>6, <1>7, <1>8

\* A connection starts with nothing reported on it.
LEMMA ConnectsStep ==
  ASSUME Inv, Connects PROVE Inv'
  BY ReportFacts DEF Connects, Inv, Reports, Server, Reporting, Asking,
    Telling, Settled, fixed, terminal, config, forward, program

\* Nobody is reached only before a program is started.
LEMMA CannotConnectStep ==
  ASSUME Inv, CannotConnect PROVE Inv'
  BY ReportFacts DEF CannotConnect, Inv, Reports, Server, Reporting, Asking,
    Telling, Settled, fixed, terminal, config, forward, server, program,
    Told

LEMMA SendsStep ==
  ASSUME Inv, Sends PROVE Inv'
  BY ReportFacts DEF Sends, Inv, Reports, Server, Reporting, Asking,
    Telling, Settled, fixed, terminal, server, program

\* A failed send reports nothing.
LEMMA SendFailsStep ==
  ASSUME Inv, SendFails PROVE Inv'
  BY ReportFacts DEF SendFails, Inv, Reports, Server, Reporting, Asking,
    Telling, Settled, fixed, terminal, config, forward, server, program

\* The other end closed with nothing to read, so it did not challenge.
LEMMA RecvFailsStep ==
  ASSUME Inv, RecvFails PROVE Inv'
  BY ReportFacts DEF RecvFails, Inv, Reports, Server, Reporting, Asking,
    Telling, Settled, fixed, terminal, config, server, program,
    StopsForwarding, Told

LEMMA PromptsStep ==
  ASSUME Inv, Prompts PROVE Inv'
  BY ReportFacts DEF Prompts, Inv, Reports, Server, Reporting, Asking,
    Telling, Settled, fixed, terminal, forward, server, program

LEMMA GivesNoSecretStep ==
  ASSUME Inv, GivesNoSecret PROVE Inv'
  BY ReportFacts DEF GivesNoSecret, Inv, Reports, Server, Reporting, Asking,
    Telling, Settled, fixed, terminal, config, forward, server, program,
    Told

LEMMA DiesStep ==
  ASSUME Inv, Dies PROVE Inv'
  BY ReportFacts DEF Dies, Inv, Reports, Server, Reporting, Asking, Telling,
    Settled, fixed, terminal, config, server, program, StopsForwarding

LEMMA FrontHungUpStep ==
  ASSUME Inv, FrontHungUp PROVE Inv'
  BY ReportFacts DEF FrontHungUp, Inv, Reports, Server, Reporting, Asking,
    Telling, Settled, fixed, terminal, config, forward, program

\* A challenge is the only report of its connection.
LEMMA FrontChallengesStep ==
  ASSUME Inv, FrontChallenges PROVE Inv'
  BY ReportFacts DEF FrontChallenges, Inv, Reports, Server, Reporting,
    Asking, Telling, Settled, fixed, terminal, config, forward, program

LEMMA FrontHandsOverStep ==
  ASSUME Inv, FrontHandsOver PROVE Inv'
  BY ReportFacts DEF FrontHandsOver, Inv, Reports, Server, Reporting,
    Asking, Telling, Settled, fixed, terminal, config, forward, program

LEMMA DTakesEndStep ==
  ASSUME Inv, DTakesEnd PROVE Inv'
  BY ReportFacts DEF DTakesEnd, Inv, Reports, Server, Reporting, Asking,
    Telling, Settled, fixed, terminal, config, forward, program

\* A program is started where there was none.
LEMMA DSpawnsStep ==
  ASSUME Inv, DSpawns PROVE Inv'
  BY ReportFacts DEF DSpawns, Inv, Reports, Server, Reporting, Asking,
    Telling, Settled, fixed, terminal, config, forward, Spawned

LEMMA PtyFailsStep ==
  ASSUME Inv, PtyFails PROVE Inv'
  BY ReportFacts DEF PtyFails, Inv, Reports, Server, Reporting, Asking,
    Telling, Settled, fixed, terminal, config, forward, program, Spawned

LEMMA DHungUpStep ==
  ASSUME Inv, DHungUp PROVE Inv'
  BY ReportFacts DEF DHungUp, Inv, Reports, Server, Reporting, Asking,
    Telling, Settled, fixed, terminal, config, forward, program

\* No exit was reported of a program that runs.
LEMMA ProgramExitsStep ==
  ASSUME Inv, ProgramExits PROVE Inv'
  BY ReportFacts, SessionAssumption DEF ProgramExits, Inv, Reports, Server,
    Reporting, Asking, Telling, Settled, fixed, terminal, config, forward,
    server

LEMMA KillTakesStep ==
  ASSUME Inv, KillTakes PROVE Inv'
  BY ReportFacts DEF KillTakes, Inv, Reports, Server, Reporting, Asking,
    Telling, Settled, fixed, terminal, config, forward, server, Killed

LEMMA DReapsStep ==
  ASSUME Inv, DReaps PROVE Inv'
  BY ReportFacts DEF DReaps, Reaped, Inv, Reports, Server, Reporting, Asking,
    Telling, Settled, fixed, terminal, config, forward, program

LEMMA BridgeFreedStep ==
  ASSUME Inv, BridgeFreed PROVE Inv'
  BY ReportFacts DEF BridgeFreed, Inv, Reports, Server, Reporting, Asking,
    Telling, Settled, fixed, terminal, config, forward, program

LEMMA DropsStep ==
  ASSUME Inv, Drops PROVE Inv'
  BY ReportFacts DEF Drops, Inv, Reports, Server, Reporting, Asking,
    Telling, Settled, fixed, terminal, config, forward, program

\* The other end gives up, with no program started, in two messages.
LEMMA GivesUp ==
  ASSUME Inv, ~Settled, ran = <<>>, NEW n \in {1, 127},
         down' = down \o Refusal(n), srv' = "drop",
         UNCHANGED <<cpc, failure, outcome, challenged, ran, prog, code>>
  PROVE  Inv'
  <1>1. down = <<>> /\ ~challenged /\ ~failure
    BY DEF Inv, Server
  <1>2. down' = Refusal(n) /\ n \in Int
    BY <1>1, ReportFacts
  <1>3. Settled'
    BY DEF Settled
  <1>4. Reports'
    BY <1>2 DEF Reports
  <1>5. Server'
    BY <1>3 DEF Inv, Server
  <1>6. Reporting'
    BY <1>1, <1>2, ReportFacts DEF Reporting
  <1>7. Asking'
    BY <1>3 DEF Asking
  <1>8. Telling'
    BY <1>1, <1>3 DEF Inv, Telling, Settled
  <1> QED BY <1>4, <1>5, <1>6, <1>7, <1>8 DEF Inv

LEMMA FrontFailsStep ==
  ASSUME Inv, FrontFails PROVE Inv'
  BY GivesUp DEF FrontFails, Inv, Server, Settled, program

LEMMA FrontRefusesStep ==
  ASSUME Inv, FrontRefuses PROVE Inv'
  BY GivesUp DEF FrontRefuses, Inv, Server, Settled, program

LEMMA DRefusesStep ==
  ASSUME Inv, DRefuses PROVE Inv'
  BY GivesUp DEF DRefuses, Inv, Server, Settled, program

LEMMA SpawnFailsStep ==
  ASSUME Inv, SpawnFails PROVE Inv'
  <1>1. CASE down' = down
    BY <1>1, ReportFacts DEF SpawnFails, Inv, Reports, Server, Reporting, Asking,
      Telling, Settled, program
  <1>2. CASE down' = down \o Refusal(127)
    BY <1>2, GivesUp DEF SpawnFails, Inv, Server, Settled, program
  <1> QED BY <1>1, <1>2 DEF SpawnFails

\* The exit of the program is the only report of its connection.
LEMMA DReportsStep ==
  ASSUME Inv, DReports PROVE Inv'
  <1> USE DEF DReports, program
  <1>1. /\ ~Settled /\ down = <<>> /\ ~challenged /\ ~failure
        /\ prog = "exited" /\ code \in Int
    BY DEF Inv, Server, Settled
  <1>2. down' = <<Exit(code)>>
    BY <1>1, ReportFacts
  <1>3. Settled'
    BY DEF Settled
  <1>4. Reports'
    BY <1>1, <1>2 DEF Reports
  <1>5. Server'
    BY <1>3 DEF Inv, Server
  <1>6. Reporting'
    <2>1. down' # <<Unauthorized>>
      BY <1>1, <1>2, ReportFacts
    <2>2. ASSUME NEW c \in Int
          PROVE  down' # Refusal(c) /\ (down' = <<Exit(c)>> => code = c)
      BY <1>1, <1>2, ReportFacts
    <2> QED BY <1>1, <2>1, <2>2 DEF Reporting
  <1>7. Asking'
    BY <1>1, <1>3 DEF Inv, Asking
  <1>8. Telling'
    BY <1>1, <1>3 DEF Inv, Telling, Settled
  <1> QED BY <1>4, <1>5, <1>6, <1>7, <1>8 DEF Inv

\* Behind an Error comes its Exit.
LEMMA TakesErrorStep ==
  ASSUME Inv, TakesError PROVE Inv'
  <1> USE DEF TakesError, server, program
  <1>1. PICK c \in Int : down = Refusal(c)
    BY ReportFacts DEF Inv, Reports
  <1>2. down' = <<Exit(c)>> /\ ran = <<>>
    BY <1>1, ReportFacts DEF Inv, Reporting
  <1>3. Settled /\ ~challenged
    BY <1>1, ReportFacts DEF Inv, Server, Reporting
  <1>4. Reports'
    BY <1>2 DEF Reports
  <1>5. Server'
    BY <1>3 DEF Inv, Server, Settled
  <1>6. Reporting'
    BY <1>2, <1>3, ReportFacts DEF Reporting
  <1>7. Asking' /\ Telling'
    BY DEF Inv, Asking, Telling, Settled
  <1> QED BY <1>4, <1>5, <1>6, <1>7 DEF Inv

\* The client is told its program's exit, unless an Error came ahead of it.
LEMMA TakesExitStep ==
  ASSUME Inv, TakesExit PROVE Inv'
  <1> USE DEF TakesExit, server, program
  <1>1. PICK c \in Int : down = <<Exit(c)>>
    BY ReportFacts DEF Inv, Reports
  <1>2. down' = <<>> /\ Head(down).code = c
    BY <1>1, ReportFacts
  <1>3. Settled /\ ~challenged
    BY <1>1, ReportFacts DEF Inv, Server, Reporting
  <1>4. Reports' /\ Server' /\ Asking'
    BY <1>2, <1>3 DEF Inv, Reports, Server, Asking, Settled
  <1>5. Reporting'
    <2>1. down' # <<Unauthorized>> /\ \A d \in Int : down' # Refusal(d) /\ down' # <<Exit(d)>>
      <3>1. <<Unauthorized>> # <<>> /\ \A d \in Int : Refusal(d) # <<>> /\ <<Exit(d)>> # <<>>
        BY ReportFacts
      <3> QED BY <1>2, <3>1
    <2>2. challenged' = challenged /\ failure' = failure /\ ran' = ran /\ (failure => ran = <<>>)
      BY DEF Inv, Reporting
    <2> QED BY <1>3, <2>1, <2>2 DEF Reporting
  <1>6. Telling'
    <2>1. CASE failure
      BY <2>1, <1>3 DEF Inv, Telling, Reporting, Settled
    <2>2. CASE ~failure
      BY <2>2, <1>1, <1>2 DEF Inv, Telling, Reporting, Settled
    <2> QED BY <2>1, <2>2
  <1> QED BY <1>4, <1>5, <1>6 DEF Inv

\* A challenge leaves nothing else to read, and no program.
LEMMA TakesChallengeStep ==
  ASSUME Inv, TakesChallenge PROVE Inv'
  <1> USE DEF TakesChallenge, server, program, Told
  <1>1. down = <<Unauthorized>>
    <2>1. ASSUME NEW c \in Int PROVE down # Refusal(c) /\ down # <<Exit(c)>>
      BY ReportFacts
    <2> QED BY <2>1 DEF Inv, Reports
  <1>2. down' = <<>> /\ challenged /\ ran = <<>> /\ Settled
    BY <1>1, ReportFacts DEF Inv, Reporting, Server
  <1>3. cpc' \in {"prompt", "done"}
    OBVIOUS
  <1>4. Reports' /\ Server' /\ Asking'
    BY <1>2 DEF Inv, Reports, Server, Asking, Settled
  <1>5. Reporting'
    BY <1>2, <1>3, ReportFacts DEF Inv, Reporting
  <1>6. Telling'
    BY <1>2 DEF Inv, Telling, Settled
  <1> QED BY <1>4, <1>5, <1>6 DEF Inv

\* What the invariant does not speak of may change.
LEMMA Undisturbed ==
  ASSUME Inv, UNCHANGED <<down, srv, challenged, failure, ran, prog, code, cpc, outcome>>
  PROVE  Inv'
  BY DEF Inv, Reports, Server, Reporting, Asking, Telling, Settled

-----------------------------------------------------------------------------
LEMMA InitInv == Init => Inv
  BY ReportFacts DEF Init, Inv, Reports, Server, Reporting, Asking, Telling, Settled, Told

LEMMA StepInv == Inv /\ [Next]_vars => Inv'
  <1> SUFFICES ASSUME Inv, [Next]_vars PROVE Inv'
    OBVIOUS
  <1>1. CASE Resize \/ Forwarder \/ DTakes \/ DTakesSize \/ Terminated \/ UNCHANGED vars
    BY <1>1, Undisturbed DEF Resize, Forwarder, FwdRegisters, FwdWakes, FwdWrites, DTakes,
       DTakesSize, Terminated, vars, server, program
  <1>2. CASE Client \/ Prompts \/ GivesNoSecret \/ Dies
    BY <1>2, ConnectsStep, CannotConnectStep, SendsStep, SendFailsStep, TakesErrorStep,
       TakesExitStep, TakesChallengeStep, RecvFailsStep, PromptsStep, GivesNoSecretStep,
       DiesStep DEF Client, Recv
  <1>3. CASE FrontEnd
    BY <1>3, FrontFailsStep, FrontHungUpStep, FrontChallengesStep, FrontRefusesStep,
       FrontHandsOverStep DEF FrontEnd
  <1>4. CASE Daemon \/ BridgeFreed \/ DHungUp \/ ProgramExits \/ KillTakes
    <2>1. CASE DTakes
      BY <2>1, <1>1
    <2> QED BY <1>4, <2>1, DTakesEndStep, DRefusesStep, DSpawnsStep, SpawnFailsStep,
         PtyFailsStep, DReapsStep, BridgeFreedStep, DReportsStep, DropsStep, DHungUpStep,
         ProgramExitsStep, KillTakesStep DEF Daemon, Start
  <1> QED BY <1>1, <1>2, <1>3, <1>4 DEF Next

\* The invariant behind the theorems below.
THEOREM Invariance == Spec => []Inv
  BY InitInv, StepInv, PTL DEF Spec

\* A challenge of the front-end is never lost to the send that fails because it
\* closed behind it (run_session).
THEOREM ChallengeKept == Spec => []ChallengeWins
  <1>1. Inv => ChallengeWins
    BY DEF Inv, Telling, ChallengeWins
  <1> QED BY <1>1, Invariance, PTL

\* However the retry, the front-end and the failures of a start combine, at most
\* one program runs for a client; it is told the exit of that program and of no
\* other, and told that none ran only if none ever will have.
THEOREM Truthful == Spec => []Truth
  <1>1. Inv => Truth
    BY DEF Inv, Server, Telling, Truth
  <1> QED BY <1>1, Invariance, PTL

-----------------------------------------------------------------------------
(* The request arrives whole. What was taken of the messages of              *)
(* send_configuration and what is on its way are all that was sent, in order; *)
(* so what the daemon starts with is all of the request that its policy       *)
(* permits.                                                                   *)

\* Messages towards the daemon.
Sendable ==
  [kind: {"secret"}, value: Secrets] \cup [kind: {"env", "arg"}, value: Words]
  \cup [kind: {"type"}, value: Types] \cup [kind: {"winsize"}, value: TermSizes]
  \cup [kind: {"fds", "end"}, value: {"three", ""}]

\* Where each part of the configuration ends.
Presented == IF secret = NoSecret THEN 0 ELSE 1
Envs == Presented + Len(request.env)
Args == Envs + Len(request.args)
Sized == IF request.size = NoSize THEN 0 ELSE 1

Laid ==
  /\ Configuration \in Seq(Sendable) /\ Len(Configuration) = Args + Sized + 3
  /\ \A i \in 1..Presented : Configuration[i] = Message("secret", secret)
  /\ \A i \in Presented + 1..Envs : Configuration[i] = Message("env", request.env[i - Presented])
  /\ \A i \in Envs + 1..Args : Configuration[i] = Message("arg", request.args[i - Envs])
  /\ Configuration[Args + 1] = Message("type", request.type)
  /\ \A i \in Args + 2..Args + Sized + 1 : Configuration[i] = Message("winsize", request.size)
  /\ Configuration[Args + Sized + 2] = Message("fds", "three")
  /\ Configuration[Args + Sized + 3] = Message("end", "")

\* The first n of a sequence, all of it or none of it.
First(seq, n) == SubSeq(seq, 1, IF n < 0 THEN 0 ELSE IF n > Len(seq) THEN Len(seq) ELSE n)

\* What the policy has, and the first n that were asked for unless it refuses them.
Chosen(own, refused, seq, n) == own \o (IF refused THEN <<>> ELSE First(seq, n))

\* What there is of the request when k messages of it were taken.
After(k) ==
  /\ got.envp = Chosen(policy.env, policy.noEnv, request.env, k - Presented)
  /\ got.argv = Chosen(policy.args, policy.noArgv, request.args, k - Envs)
  /\ got.type = IF k > Args THEN request.type ELSE "direct"

\* k messages were taken, those that follow them were sent, and behind the last
\* come the sizes the forwarder sends.
Behind(k) ==
  /\ k \in Nat /\ k < Len(Configuration) /\ k < next
  /\ next - 1 - k <= Len(up)
  /\ \A i \in 1..next - 1 - k : up[i] = Configuration[k + i]
  /\ next - 1 - k < Len(up) => next > Len(Configuration)

Taken(k) == Behind(k) /\ After(k)

Following ==
  /\ srv = "front" => Taken(0)
  /\ srv = "config" => \E k : Taken(k)

Started ==
  srv = "start" =>
    [argv |-> got.argv, envp |-> got.envp, type |-> got.type] = Promise!Permitted

Forwards ==
  /\ fwd # "off" => cpc = "recv" /\ next > Len(Configuration)
  /\ fwd = "writing" => fsize \in TermSizes
  /\ cpc = "send" => next <= Len(Configuration)

\* What is fixed from the start.
Fixed ==
  /\ policy \in Policies /\ chained \in FrontEnds
  /\ {policy.args, policy.env, request.args, request.env} \subseteq Seq(Words)
  /\ {policy.noArgv, policy.noEnv} \subseteq BOOLEAN
  /\ request.type \in Types /\ request.size \in TermSizes \cup {NoSize}

Scalars ==
  /\ term \in TermSizes /\ resizes \in 0..Resizes
  /\ cpc \in {"connect", "send", "recv", "prompt", "done", "dead"}
  /\ secret \in Secrets \cup {NoSecret} /\ failure \in BOOLEAN
  /\ fwd \in {"off", "spawned", "waiting", "writing", "failed"} /\ winch \in BOOLEAN
  /\ fsize \in TermSizes \cup {NoSize} /\ ptySize \in TermSizes \cup {NoSize}
  /\ srv \in {"front", "config", "start", "run", "kill", "stuck", "report", "drop",
              "closed"}
  /\ challenged \in BOOLEAN /\ sigchld \in {"default", "ignored"}
  /\ code \in Nat

Requested ==
  got \in [argv: Seq(Words), envp: Seq(Words), type: Types, fds: BOOLEAN, size: TermSizes]

Socket == up \in Seq(Sendable) /\ Len(up) <= Buffer

Progress == next \in 1..Len(Configuration) + 1

Whole ==
  /\ Inv /\ Fixed /\ Scalars /\ Requested /\ Socket /\ Progress /\ Forwards
  /\ Following /\ Started

-----------------------------------------------------------------------------
LEMMA SessionConstants ==
  /\ Default \in TermSizes /\ Codes \subseteq Nat /\ Buffer \in Nat /\ Buffer > 0
  /\ Resizes \in Nat /\ "sh" \in Words
  BY SessionAssumption DEF SessionAssumption, Words

\* One more message behind a sequence of them.
LEMMA Concats ==
  ASSUME NEW S, NEW a \in Seq(S), NEW b \in Seq(S)
  PROVE  /\ a \o b \in Seq(S) /\ Len(a \o b) = Len(a) + Len(b)
         /\ \A i \in 1..Len(a) : (a \o b)[i] = a[i]
         /\ \A i \in Len(a) + 1..Len(a) + Len(b) : (a \o b)[i] = b[i - Len(a)]
  <1>1. /\ a \o b \in Seq(S) /\ Len(a \o b) = Len(a) + Len(b)
        /\ \A i \in 1 .. Len(a) + Len(b) : (a \o b)[i] =
                     IF i <= Len(a) THEN a[i] ELSE b[i - Len(a)]
    BY ConcatProperties
  <1>2. Len(a) \in Nat /\ Len(b) \in Nat
    OBVIOUS
  <1> HIDE DEF Sendable
  <1>3. ASSUME NEW i \in 1..Len(a) PROVE (a \o b)[i] = a[i]
    BY <1>1, <1>2
  <1>4. ASSUME NEW i \in Len(a) + 1..Len(a) + Len(b) PROVE (a \o b)[i] = b[i - Len(a)]
    BY <1>1, <1>2
  <1> QED BY <1>1, <1>3, <1>4

LEMMA Sendables ==
  ASSUME Fixed, secret \in Secrets \cup {NoSecret}
  PROVE  /\ \A i \in 1..Presented : Message("secret", secret) \in Sendable
         /\ \A w \in Words : Message("env", w) \in Sendable /\ Message("arg", w) \in Sendable
         /\ Message("type", request.type) \in Sendable
         /\ \A i \in 1..Sized : Message("winsize", request.size) \in Sendable
         /\ Message("fds", "three") \in Sendable /\ Message("end", "") \in Sendable
  BY DEF Fixed, Sendable, Message, Presented, Sized

\* The order of send_configuration.
LEMMA Layout ==
  Fixed /\ secret \in Secrets \cup {NoSecret} => Laid
  <1> SUFFICES ASSUME Fixed, secret \in Secrets \cup {NoSecret} PROVE Laid
    OBVIOUS
  <1> DEFINE c1 == IF secret = NoSecret THEN <<>> ELSE <<Message("secret", secret)>>
             c2 == [i \in DOMAIN request.env |-> Message("env", request.env[i])]
             c3 == [i \in DOMAIN request.args |-> Message("arg", request.args[i])]
             c4 == <<Message("type", request.type)>>
             c5 == IF request.size = NoSize THEN <<>> ELSE <<Message("winsize", request.size)>>
             c6 == <<Message("fds", "three"), Message("end", "")>>
             d2 == c1 \o c2
             d3 == d2 \o c3
             d4 == d3 \o c4
             d5 == d4 \o c5
             d6 == d5 \o c6
  <1>s. /\ \A i \in 1..Presented : Message("secret", secret) \in Sendable
        /\ \A w \in Words : Message("env", w) \in Sendable /\ Message("arg", w) \in Sendable
        /\ Message("type", request.type) \in Sendable
        /\ \A i \in 1..Sized : Message("winsize", request.size) \in Sendable
        /\ Message("fds", "three") \in Sendable /\ Message("end", "") \in Sendable
    <2> HIDE DEF c1, c2, c3, c4, c5, c6, d2, d3, d4, d5, d6
    <2> QED BY Sendables
  <1> HIDE DEF c1, c2, c3, c4, c5, c6, d2, d3, d4, d5, d6
  <1>0. request.env \in Seq(Words) /\ request.args \in Seq(Words)
    BY DEF Fixed
  <1>1. /\ c1 \in Seq(Sendable) /\ Len(c1) = Presented
        /\ \A i \in 1..Presented : c1[i] = Message("secret", secret)
    <2> USE DEF c1
    <2>1. CASE secret = NoSecret
      BY <2>1 DEF Presented
    <2>2. CASE secret # NoSecret
      <3>1. 1 \in 1..Presented
        BY <2>2 DEF Presented
      <3>2. Message("secret", secret) \in Sendable
        BY <3>1, <1>s
      <3> QED BY <2>2, <3>2 DEF Presented
    <2> QED BY <2>1, <2>2
  <1>2. /\ c2 \in Seq(Sendable) /\ Len(c2) = Len(request.env)
        /\ \A i \in 1..Len(request.env) : c2[i] = Message("env", request.env[i])
    <2>1. ASSUME NEW i \in 1..Len(request.env) PROVE Message("env", request.env[i]) \in Sendable
      <3>1. request.env[i] \in Words
        BY <1>0
      <3> QED BY <3>1, <1>s
    <2>2. DOMAIN request.env = 1..Len(request.env) /\ Len(request.env) \in Nat
      BY <1>0
    <2> QED BY <2>1, <2>2 DEF c2
  <1>3. /\ c3 \in Seq(Sendable) /\ Len(c3) = Len(request.args)
        /\ \A i \in 1..Len(request.args) : c3[i] = Message("arg", request.args[i])
    <2>1. ASSUME NEW i \in 1..Len(request.args) PROVE Message("arg", request.args[i]) \in Sendable
      <3>1. request.args[i] \in Words
        BY <1>0
      <3> QED BY <3>1, <1>s
    <2>2. DOMAIN request.args = 1..Len(request.args) /\ Len(request.args) \in Nat
      BY <1>0
    <2> QED BY <2>1, <2>2 DEF c3
  <1>4. c4 \in Seq(Sendable) /\ Len(c4) = 1 /\ c4[1] = Message("type", request.type)
    <2>1. Message("type", request.type) \in Sendable
      BY <1>s
    <2> QED BY <2>1 DEF c4
  <1>5. /\ c5 \in Seq(Sendable) /\ Len(c5) = Sized
        /\ \A i \in 1..Sized : c5[i] = Message("winsize", request.size)
    <2> USE DEF c5
    <2>1. CASE request.size = NoSize
      BY <2>1 DEF Sized
    <2>2. CASE request.size # NoSize
      <3>1. 1 \in 1..Sized
        BY <2>2 DEF Sized
      <3>2. Message("winsize", request.size) \in Sendable
        BY <3>1, <1>s
      <3> QED BY <2>2, <3>2 DEF Sized
    <2> QED BY <2>1, <2>2
  <1>6. /\ c6 \in Seq(Sendable) /\ Len(c6) = 2
        /\ c6[1] = Message("fds", "three") /\ c6[2] = Message("end", "")
    <2>1. Message("fds", "three") \in Sendable /\ Message("end", "") \in Sendable
      BY <1>s
    <2>2. ASSUME NEW u \in Sendable, NEW v \in Sendable
          PROVE  /\ <<u, v>> \in Seq(Sendable) /\ Len(<<u, v>>) = 2
                 /\ <<u, v>>[1] = u /\ <<u, v>>[2] = v
      OBVIOUS
    <2> QED BY <2>1, <2>2 DEF c6
  <1>7. Configuration = d6
    BY DEF Configuration, c1, c2, c3, c4, c5, c6, d2, d3, d4, d5, d6
  <1>8. PICK p \in 0..1, w \in 0..1, x \in Nat, y \in Nat :
          p = Presented /\ w = Sized /\ x = Len(request.env) /\ y = Len(request.args)
    <2>1. Presented \in 0..1 /\ Sized \in 0..1
      BY DEF Presented, Sized
    <2>2. Len(request.env) \in Nat /\ Len(request.args) \in Nat
      BY <1>0
    <2> QED BY <2>1, <2>2
  <1>9. PICK e \in Nat, a \in Nat : e = p + x /\ a = e + y
    OBVIOUS
  <1>10. Envs = e /\ Args = a
    BY <1>8, <1>9 DEF Envs, Args
  <1>d2. /\ d2 \in Seq(Sendable) /\ Len(d2) = e
         /\ \A i \in 1..p : d2[i] = Message("secret", secret)
         /\ \A i \in p + 1..e : d2[i] = Message("env", request.env[i - p])
    <2>1. Len(c1) = p /\ Len(c2) = x /\ c1 \in Seq(Sendable) /\ c2 \in Seq(Sendable)
      BY <1>1, <1>2, <1>8
    <2>2. /\ d2 \in Seq(Sendable) /\ Len(d2) = p + x
          /\ \A i \in 1..p : d2[i] = c1[i]
          /\ \A i \in p + 1..p + x : d2[i] = c2[i - p]
      BY <2>1, Concats DEF d2
    <2>3. \A i \in p + 1..e : i - p \in 1..x
      BY <1>9
    <2> QED BY <2>2, <2>3, <1>1, <1>2, <1>8, <1>9
  <1>d3. /\ d3 \in Seq(Sendable) /\ Len(d3) = a
         /\ \A i \in 1..e : d3[i] = d2[i]
         /\ \A i \in e + 1..a : d3[i] = Message("arg", request.args[i - e])
    <2>1. Len(d2) = e /\ Len(c3) = y /\ d2 \in Seq(Sendable) /\ c3 \in Seq(Sendable)
      BY <1>d2, <1>3, <1>8
    <2>2. /\ d3 \in Seq(Sendable) /\ Len(d3) = e + y
          /\ \A i \in 1..e : d3[i] = d2[i]
          /\ \A i \in e + 1..e + y : d3[i] = c3[i - e]
      BY <2>1, Concats DEF d3
    <2>3. \A i \in e + 1..a : i - e \in 1..y
      BY <1>9
    <2>4. \A i \in 1..y : c3[i] = Message("arg", request.args[i])
      BY <1>3, <1>8
    <2>5. e + y = a
      BY <1>9
    <2> QED BY <2>2, <2>3, <2>4, <2>5
  <1>d4. /\ d4 \in Seq(Sendable) /\ Len(d4) = a + 1
         /\ \A i \in 1..a : d4[i] = d3[i]
         /\ d4[a + 1] = Message("type", request.type)
    <2>1. Len(d3) = a /\ Len(c4) = 1 /\ d3 \in Seq(Sendable) /\ c4 \in Seq(Sendable)
      BY <1>d3, <1>4
    <2>2. /\ d4 \in Seq(Sendable) /\ Len(d4) = a + 1
          /\ \A i \in 1..a : d4[i] = d3[i]
          /\ \A i \in a + 1..a + 1 : d4[i] = c4[i - a]
      <3>1. /\ d4 \in Seq(Sendable) /\ Len(d4) = Len(d3) + Len(c4)
            /\ \A i \in 1..Len(d3) : d4[i] = d3[i]
            /\ \A i \in Len(d3) + 1..Len(d3) + Len(c4) : d4[i] = c4[i - Len(d3)]
        BY <2>1, Concats DEF d4
      <3> QED BY <3>1, <2>1
    <2>3. a + 1 \in a + 1..a + 1 /\ (a + 1) - a = 1
      OBVIOUS
    <2> QED BY <2>2, <2>3, <1>4
  <1>d5. /\ d5 \in Seq(Sendable) /\ Len(d5) = a + 1 + w
         /\ \A i \in 1..a + 1 : d5[i] = d4[i]
         /\ \A i \in a + 2..a + w + 1 : d5[i] = Message("winsize", request.size)
    <2> DEFINE n == a + 1
    <2>1. Len(d4) = n /\ Len(c5) = w /\ d4 \in Seq(Sendable) /\ c5 \in Seq(Sendable)
      BY <1>d4, <1>5, <1>8
    <2>2. n \in Nat /\ \A i \in a + 2..a + w + 1 : i \in n + 1..n + w /\ i - n \in 1..w
      OBVIOUS
    <2> HIDE DEF n
    <2>3. /\ d5 \in Seq(Sendable) /\ Len(d5) = n + w
          /\ \A i \in 1..n : d5[i] = d4[i]
          /\ \A i \in n + 1..n + w : d5[i] = c5[i - n]
      BY <2>1, Concats DEF d5
    <2>4. \A i \in 1..w : c5[i] = Message("winsize", request.size)
      BY <1>5, <1>8
    <2> QED BY <2>2, <2>3, <2>4 DEF n
  <1>d6. /\ d6 \in Seq(Sendable) /\ Len(d6) = a + w + 3
         /\ \A i \in 1..a + w + 1 : d6[i] = d5[i]
         /\ d6[a + w + 2] = Message("fds", "three")
         /\ d6[a + w + 3] = Message("end", "")
    <2> DEFINE n == a + 1 + w
    <2>1. Len(d5) = n /\ Len(c6) = 2 /\ d5 \in Seq(Sendable) /\ c6 \in Seq(Sendable)
      BY <1>d5, <1>6
    <2>2. /\ n \in Nat /\ a + w + 1 = n
          /\ a + w + 2 \in n + 1..n + 2 /\ (a + w + 2) - n = 1
          /\ a + w + 3 \in n + 1..n + 2 /\ (a + w + 3) - n = 2 /\ n + 2 = a + w + 3
      OBVIOUS
    <2> HIDE DEF n
    <2>3. /\ d6 \in Seq(Sendable) /\ Len(d6) = n + 2
          /\ \A i \in 1..n : d6[i] = d5[i]
          /\ \A i \in n + 1..n + 2 : d6[i] = c6[i - n]
      <3>1. /\ d6 \in Seq(Sendable) /\ Len(d6) = Len(d5) + Len(c6)
            /\ \A i \in 1..Len(d5) : d6[i] = d5[i]
            /\ \A i \in Len(d5) + 1..Len(d5) + Len(c6) : d6[i] = c6[i - Len(d5)]
        BY <2>1, Concats DEF d6
      <3> QED BY <3>1, <2>1
    <2> QED BY <2>2, <2>3, <1>6
  <1>11. /\ \A i \in 1..a : d6[i] = d3[i]
         /\ d6[a + 1] = Message("type", request.type)
         /\ \A i \in a + 2..a + w + 1 : d6[i] = Message("winsize", request.size)
    <2>1. /\ \A i \in 1..a : i \in 1..a + 1 /\ i \in 1..a + w + 1
          /\ a + 1 \in 1..a + 1 /\ a + 1 \in 1..a + w + 1
          /\ \A i \in a + 2..a + w + 1 : i \in 1..a + w + 1
      OBVIOUS
    <2> QED BY <2>1, <1>d4, <1>d5, <1>d6
  <1>12. /\ \A i \in 1..p : d6[i] = Message("secret", secret)
         /\ \A i \in p + 1..e : d6[i] = Message("env", request.env[i - p])
         /\ \A i \in e + 1..a : d6[i] = Message("arg", request.args[i - e])
    <2>1. /\ \A i \in 1..p : i \in 1..e /\ i \in 1..a
          /\ \A i \in p + 1..e : i \in 1..e /\ i \in 1..a
          /\ \A i \in e + 1..a : i \in 1..a
      BY <1>9
    <2> QED BY <2>1, <1>11, <1>d2, <1>d3
  <1>13. /\ Presented = p /\ Sized = w
    BY <1>8
  <1> QED BY <1>7, <1>10, <1>11, <1>12, <1>13, <1>d6 DEF Laid

LEMMA Places ==
  ASSUME Fixed
  PROVE  /\ Presented \in 0..1 /\ Sized \in 0..1 /\ Envs \in Nat /\ Args \in Nat
         /\ Len(request.env) \in Nat /\ Len(request.args) \in Nat
         /\ Envs = Presented + Len(request.env) /\ Args = Envs + Len(request.args)
  <1>1. request.env \in Seq(Words) /\ request.args \in Seq(Words)
    BY DEF Fixed
  <1>2. Presented \in 0..1 /\ Sized \in 0..1 /\ Len(request.env) \in Nat /\ Len(request.args) \in Nat
    BY <1>1 DEF Presented, Sized
  <1>3. Envs = Presented + Len(request.env) /\ Envs \in Nat
    BY <1>2 DEF Envs
  <1>4. Args = Envs + Len(request.args)
    BY DEF Args
  <1>5. ASSUME NEW x \in Nat, NEW y \in Nat PROVE x + y \in Nat
    OBVIOUS
  <1>6. Args \in Nat
    BY <1>2, <1>3, <1>4, <1>5
  <1> QED BY <1>2, <1>3, <1>4, <1>6

\* It is what the client has to say as long as it presents the same secret.
LEMMA SameConfiguration ==
  ASSUME UNCHANGED <<fixed, secret>>
  PROVE  /\ Configuration' = Configuration /\ Presented' = Presented /\ Envs' = Envs
         /\ Args' = Args /\ Sized' = Sized /\ (Fixed => Fixed')
  BY DEF fixed, Configuration, Presented, Envs, Args, Sized, Fixed

\* How a request grows.
LEMMA ChosenFacts ==
  ASSUME NEW own \in Seq(Words), NEW refused \in BOOLEAN, NEW seq \in Seq(Words), NEW n \in Int
  PROVE  /\ n <= 0 => Chosen(own, refused, seq, n) = own
         /\ n >= Len(seq) =>
              Chosen(own, refused, seq, n) = own \o (IF refused THEN <<>> ELSE seq)
         /\ n \notin 0..Len(seq) - 1 \/ refused =>
              Chosen(own, refused, seq, n + 1) = Chosen(own, refused, seq, n)
         /\ n \in 0..Len(seq) - 1 /\ ~refused =>
              Chosen(own, refused, seq, n + 1) = Append(Chosen(own, refused, seq, n), seq[n + 1])
  <1> DEFINE Cut(m) == IF m < 0 THEN 0 ELSE IF m > Len(seq) THEN Len(seq) ELSE m
  <1>0. Len(seq) \in Nat /\ own \o <<>> = own /\ \A m : First(seq, m) = SubSeq(seq, 1, Cut(m))
    BY ConcatEmptySeq DEF First
  <1> HIDE DEF Words
  <1>1. CASE refused
    <2>1. \A m : Chosen(own, refused, seq, m) = own
      BY <1>0, <1>1 DEF Chosen
    <2> QED BY <2>1, <1>0, <1>1
  <1>2. CASE ~refused
    <2>0. \A m : Chosen(own, refused, seq, m) = own \o First(seq, m)
      BY <1>2 DEF Chosen
    <2>1. ASSUME n <= 0 PROVE First(seq, n) = <<>>
      <3>1. Cut(n) = 0
        BY <1>0, <2>1
      <3>2. SubSeq(seq, 1, 0) = <<>>
        BY SubSeqEmpty
      <3> QED BY <1>0, <3>1, <3>2
    <2>2. ASSUME n >= Len(seq) PROVE First(seq, n) = seq
      <3>1. Cut(n) = Len(seq)
        BY <1>0, <2>2
      <3>2. SubSeq(seq, 1, Len(seq)) = seq
        BY SubSeqFull
      <3> QED BY <1>0, <3>1, <3>2
    <2>3. ASSUME n \notin 0..Len(seq) - 1 PROVE First(seq, n + 1) = First(seq, n)
      <3>1. Cut(n + 1) = Cut(n)
        BY <1>0, <2>3
      <3> HIDE DEF Cut
      <3> QED BY <1>0, <3>1
    <2>4. ASSUME n \in 0..Len(seq) - 1
          PROVE  own \o First(seq, n + 1) = Append(own \o First(seq, n), seq[n + 1])
      <3>1. Cut(n) = n /\ Cut(n + 1) = n + 1 /\ 1 \in 1..Len(seq) /\ n + 1 \in 1..Len(seq)
            /\ (n + 1) - 1 = n
        BY <1>0, <2>4
      <3>2. SubSeq(seq, 1, n + 1) = SubSeq(seq, 1, n) \o <<seq[n + 1]>>
        BY <3>1, SubSeqRecursiveSecond
      <3>3. seq[n + 1] \in Words /\ SubSeq(seq, 1, n) \in Seq(Words)
        <4>1. \A i \in 1..n : seq[i] \in Words
          BY <1>0, <2>4
        <4> QED BY <4>1, <3>1, SubSeqProperties
      <3>4. <<seq[n + 1]>> \in Seq(Words)
        BY <3>3
      <3>5. own \o (SubSeq(seq, 1, n) \o <<seq[n + 1]>>) = (own \o SubSeq(seq, 1, n)) \o <<seq[n + 1]>>
        BY <3>3, <3>4, ConcatAssociative
      <3>6. own \o SubSeq(seq, 1, n) \in Seq(Words)
        BY <3>3, ConcatProperties
      <3>7. Append(own \o SubSeq(seq, 1, n), seq[n + 1]) = (own \o SubSeq(seq, 1, n)) \o <<seq[n + 1]>>
        BY <3>3, <3>6, AppendIsConcat
      <3> HIDE DEF Cut
      <3> QED BY <1>0, <3>1, <3>2, <3>5, <3>7
    <2> HIDE DEF Cut
    <2> QED BY <2>0, <2>1, <2>2, <2>3, <2>4, <1>0, <1>2
  <1> QED BY <1>1, <1>2
-----------------------------------------------------------------------------
\* What the steps are that leave the request as it is, on its way or received.
Passes ==
  /\ UNCHANGED <<fixed, secret, next, got>>
  /\ \/ srv' = srv /\ (up' = up \/ srv \notin {"front", "config"})
     \/ srv' \notin {"front", "config", "start"}

LEMMA PassesSteps ==
  ASSUME Resize \/ FwdRegisters \/ FwdWakes \/ CannotConnect \/ SendFails \/ Recv
         \/ GivesNoSecret \/ Dies \/ FrontFails \/ FrontHungUp \/ FrontChallenges
         \/ FrontRefuses \/ DRefuses \/ Start \/ DTakesSize \/ DHungUp \/ ProgramExits
         \/ KillTakes \/ DReaps \/ BridgeFreed \/ DReports \/ Drops \/ Terminated \/ UNCHANGED vars
  PROVE  Passes
  <1> USE DEF Passes, config, server, program
  <1>1. CASE Resize \/ FwdRegisters \/ FwdWakes \/ CannotConnect \/ SendFails
             \/ GivesNoSecret \/ Dies
    BY <1>1 DEF Resize, FwdRegisters, FwdWakes, CannotConnect, SendFails, GivesNoSecret, Dies
  <1>2. CASE Recv
    BY <1>2 DEF Recv, TakesError, TakesExit, TakesChallenge, RecvFails
  <1>3. CASE FrontFails \/ FrontHungUp \/ FrontChallenges \/ FrontRefuses
    BY <1>3 DEF FrontFails, FrontHungUp, FrontChallenges, FrontRefuses
  <1>4. CASE DRefuses \/ Start \/ DTakesSize \/ DHungUp
    BY <1>4 DEF DRefuses, Start, DSpawns, SpawnFails, PtyFails, DTakesSize, DHungUp
  <1>5. CASE ProgramExits \/ KillTakes \/ DReaps \/ BridgeFreed \/ DReports \/ Drops
    BY <1>5 DEF ProgramExits, KillTakes, DReaps, Reaped, BridgeFreed, DReports, Drops
  <1>6. CASE Terminated \/ UNCHANGED vars
    BY <1>6 DEF Terminated, vars
  <1> QED BY <1>1, <1>2, <1>3, <1>4, <1>5, <1>6

LEMMA NextCases ==
  ASSUME [Next]_vars
  PROVE  \/ Passes \/ Connects \/ Sends \/ FwdWrites \/ Prompts \/ FrontHandsOver
         \/ DTakes \/ DTakesEnd
  BY PassesSteps DEF Next, Forwarder, Client, FrontEnd, Daemon

\* The policy, the request and the deployment stay.
LEMMA FixedStays ==
  ASSUME [Next]_vars
  PROVE  UNCHANGED fixed
  <1>1. CASE Passes
    BY <1>1 DEF Passes
  <1>2. CASE Connects \/ Sends \/ FwdWrites \/ Prompts \/ FrontHandsOver \/ DTakes \/ DTakesEnd
    BY <1>2 DEF Connects, Sends, FwdWrites, Prompts, FrontHandsOver, DTakes, DTakesEnd
  <1> QED BY <1>1, <1>2, NextCases

LEMMA FollowingPasses ==
  ASSUME Passes, Following, Started
  PROVE  Following' /\ Started'
  <1>1. /\ Configuration' = Configuration /\ Presented' = Presented /\ Envs' = Envs
        /\ Args' = Args
    BY SameConfiguration DEF Passes
  <1>2. UNCHANGED <<policy, request, next, got>>
    BY DEF Passes, fixed
  <1>3. ASSUME NEW k PROVE After(k)' <=> After(k)
    BY <1>1, <1>2 DEF After, Chosen, First
  <1>4. ASSUME up' = up, NEW k, Taken(k) PROVE Taken(k)'
    <2>1. After(k)'
      BY <1>3, <1>4 DEF Taken
    <2> QED BY <2>1, <1>1, <1>2, <1>4 DEF Taken, Behind
  <1>5. CASE srv' = srv /\ up' = up
    BY <1>4, <1>5, <1>2 DEF Following, Started, Promise!Permitted, Promise!Or, Promise!Shell
  <1>6. CASE srv' = srv /\ srv \notin {"front", "config"}
    BY <1>6, <1>2 DEF Following, Started, Promise!Permitted, Promise!Or, Promise!Shell
  <1>7. CASE srv' \notin {"front", "config", "start"}
    BY <1>7 DEF Following, Started
  <1> QED BY <1>5, <1>6, <1>7 DEF Passes

LEMMA SomethingToSay ==
  ASSUME Fixed, secret \in Secrets \cup {NoSecret}
  PROVE  /\ Configuration \in Seq(Sendable) /\ Len(Configuration) \in Nat
         /\ Len(Configuration) > 0 /\ Len(Configuration) = Args + Sized + 3
  <1>1. Args \in Nat /\ Sized \in 0..1
    BY Places
  <1>2. ASSUME NEW a \in Nat, NEW w \in 0..1 PROVE a + w + 3 \in Nat /\ a + w + 3 > 0
    OBVIOUS
  <1>3. Args + Sized + 3 \in Nat /\ Args + Sized + 3 > 0
    BY <1>1, <1>2
  <1>4. Configuration \in Seq(Sendable) /\ Len(Configuration) = Args + Sized + 3
    BY Layout DEF Laid
  <1> QED BY <1>3, <1>4

\* Nothing is taken of a connection that begins.
LEMMA NoneTaken ==
  ASSUME Fixed
  PROVE  /\ Chosen(policy.env, policy.noEnv, request.env, 0 - Presented) = policy.env
         /\ Chosen(policy.args, policy.noArgv, request.args, 0 - Envs) = policy.args
         /\ ~(0 > Args)
  <1>1. /\ Presented \in 0..1 /\ Envs \in Nat /\ Args \in Nat
        /\ Len(request.env) \in Nat /\ Len(request.args) \in Nat
    BY Places
  <1>2. /\ policy.env \in Seq(Words) /\ policy.args \in Seq(Words)
        /\ request.env \in Seq(Words) /\ request.args \in Seq(Words)
        /\ policy.noArgv \in BOOLEAN /\ policy.noEnv \in BOOLEAN
    BY DEF Fixed
  <1>3. /\ 0 - Presented \in Int /\ 0 - Presented <= 0
        /\ 0 - Envs \in Int /\ 0 - Envs <= 0 /\ ~(0 > Args)
    BY <1>1
  <1>4. Chosen(policy.env, policy.noEnv, request.env, 0 - Presented) = policy.env
    BY <1>2, <1>3, ChosenFacts
  <1>5. Chosen(policy.args, policy.noArgv, request.args, 0 - Envs) = policy.args
    BY <1>2, <1>3, ChosenFacts
  <1> QED BY <1>3, <1>4, <1>5

LEMMA FollowingConnects ==
  ASSUME Fixed, secret \in Secrets \cup {NoSecret}, Connects
  PROVE  Following' /\ Started'
  <1>1. /\ UNCHANGED <<fixed, secret>> /\ up' = <<>> /\ next' = 1 /\ got' = Received
        /\ srv' \in {"front", "config"}
    BY DEF Connects
  <1>2. Configuration' = Configuration /\ Presented' = Presented /\ Envs' = Envs
        /\ Args' = Args /\ Fixed'
    BY <1>1, SameConfiguration
  <1>3. Len(Configuration) \in Nat /\ Len(Configuration) > 0
    BY SomethingToSay
  <1>4. After(0)'
    BY <1>1, <1>2, NoneTaken DEF After, Received, fixed, Chosen, First
  <1>5. Behind(0)'
    <2>1. Len(<<>>) = 0 /\ 1 - 1 - 0 = 0 /\ 1..0 = {}
      OBVIOUS
    <2> QED BY <1>1, <1>2, <1>3, <2>1 DEF Behind
  <1> QED BY <1>1, <1>4, <1>5 DEF Following, Started, Taken

\* The message the client sends comes behind all it sent before.
LEMMA FollowingSends ==
  ASSUME Fixed, secret \in Secrets \cup {NoSecret}, Socket, Progress, Forwards, Following,
         Started, Sends
  PROVE  Following' /\ Started'
  <1>1. /\ UNCHANGED <<fixed, secret, srv, got>> /\ next' = next + 1
        /\ up' = Append(up, Configuration[next])
    BY DEF Sends, server
  <1>2. Configuration' = Configuration /\ Presented' = Presented /\ Envs' = Envs
        /\ Args' = Args
    BY <1>1, SameConfiguration
  <1>3. PICK L \in Nat : L = Len(Configuration)
    BY SomethingToSay
  <1>4. next \in 1..L
    BY <1>3 DEF Progress, Forwards, Sends
  <1>5. up \in Seq(Sendable)
    BY DEF Socket
  <1>6. ASSUME NEW k, Taken(k) PROVE Taken(k)'
    <2>1. After(k)'
      BY <1>6, <1>1, <1>2 DEF Taken, After, Chosen, First, fixed
    <2>2. /\ k \in Nat /\ k < L /\ k < next /\ next - 1 - k = Len(up)
          /\ \A i \in 1..next - 1 - k : up[i] = Configuration[k + i]
      <3>1. /\ k \in Nat /\ k < Len(Configuration) /\ k < next
            /\ next - 1 - k <= Len(up)
            /\ next - 1 - k < Len(up) => next > Len(Configuration)
            /\ \A i \in 1..next - 1 - k : up[i] = Configuration[k + i]
        BY <1>6 DEF Taken, Behind
      <3>2. next <= L /\ next \in Nat
        BY <1>4
      <3>3. ~(next > Len(Configuration))
        BY <1>3, <3>2
      <3>4. PICK u \in Nat : u = Len(up)
        BY <1>5
      <3>5. next - 1 - k = Len(up)
        BY <3>1, <3>2, <3>3, <3>4
      <3> QED BY <1>3, <3>1, <3>5
    <2>3. /\ Len(up') = Len(up) + 1 /\ up'[Len(up) + 1] = Configuration[next]
          /\ \A i \in 1..Len(up) : up'[i] = up[i]
      BY <1>1, <1>5
    <2>4. next' - 1 - k = Len(up) + 1 /\ k + (Len(up) + 1) = next
      BY <1>1, <1>4, <2>2
    <2>5. ASSUME NEW i \in 1..next' - 1 - k PROVE up'[i] = Configuration[k + i]
      <3>1. CASE i = Len(up) + 1
        BY <3>1, <2>3, <2>4
      <3>2. CASE i # Len(up) + 1
        <4>1. i \in 1..Len(up) /\ i \in 1..next - 1 - k
          BY <3>2, <2>2, <2>4, <1>4
        <4> QED BY <4>1, <2>2, <2>3
      <3> QED BY <3>1, <3>2
    <2>6. Behind(k)'
      <3>1. k < next' /\ next' - 1 - k <= Len(up') /\ ~(next' - 1 - k < Len(up'))
        BY <1>1, <1>4, <2>2, <2>3, <2>4
      <3> QED BY <3>1, <1>2, <1>3, <2>2, <2>5 DEF Behind
    <2> QED BY <2>1, <2>6 DEF Taken
  <1> QED BY <1>1, <1>6 DEF Following, Started, Promise!Permitted, fixed

\* The forwarder writes behind the last message.
LEMMA FollowingWrites ==
  ASSUME Fixed, Socket, Progress, Forwards, Following, Started, FwdWrites
  PROVE  Following' /\ Started'
  <1>1. /\ UNCHANGED <<fixed, secret, srv, got, next>>
        /\ up' = up \/ \E m : up' = Append(up, m)
    BY DEF FwdWrites, config, server
  <1>2. Configuration' = Configuration /\ Presented' = Presented /\ Envs' = Envs
        /\ Args' = Args
    BY <1>1, SameConfiguration
  <1>3. next > Len(Configuration) /\ next \in Int /\ up \in Seq(Sendable)
    BY DEF Progress, Forwards, Socket, FwdWrites
  <1>4. /\ Len(up) \in Nat /\ Len(up') \in Nat /\ Len(up) <= Len(up')
        /\ \A i \in 1..Len(up) : up'[i] = up[i]
    BY <1>1, <1>3
  <1>5. ASSUME NEW k, Taken(k) PROVE Taken(k)'
    <2>1. After(k)'
      BY <1>5, <1>1, <1>2 DEF Taken, After, Chosen, First, fixed
    <2>2. k \in Nat /\ next - 1 - k <= Len(up)
      BY <1>5 DEF Taken, Behind
    <2>3. next - 1 - k <= Len(up') /\ \A i \in 1..next - 1 - k : i \in 1..Len(up)
      BY <2>2, <1>3, <1>4
    <2>4. Behind(k)'
      BY <2>3, <1>1, <1>2, <1>3, <1>4, <1>5 DEF Taken, Behind
    <2> QED BY <2>1, <2>4 DEF Taken
  <1> QED BY <1>1, <1>5 DEF Following, Started, Promise!Permitted, fixed

\* Nobody takes a request while the user is asked for a secret.
LEMMA FollowingPrompts ==
  ASSUME Inv, Prompts
  PROVE  Following' /\ Started'
  BY DEF Inv, Asking, Settled, Prompts, server, Following, Started

-----------------------------------------------------------------------------
\* What is read next is the next message that was sent.
LEMMA ReadsNext ==
  ASSUME Fixed, secret \in Secrets \cup {NoSecret}, Socket, Progress,
         NEW k, Behind(k), up # <<>>
  PROVE  /\ k \in Nat /\ k + 1 \in 1..Len(Configuration) /\ k + 1 < next
         /\ Head(up) = Configuration[k + 1]
  <1>1. PICK L \in Nat : L = Len(Configuration)
    BY SomethingToSay
  <1>2. up \in Seq(Sendable) /\ Len(up) \in Nat /\ Len(up) > 0 /\ Head(up) = up[1]
    BY DEF Socket
  <1>3. next \in 1..L + 1
    BY <1>1 DEF Progress
  <1>4. k \in Nat /\ k < L /\ k < next
    BY <1>1 DEF Behind
  <1>5. next - 1 - k >= 1
    <2>1. next - 1 - k < Len(up) => next > L
      BY <1>1 DEF Behind
    <2> QED BY <2>1, <1>2, <1>3, <1>4
  <1>6. up[1] = Configuration[k + 1]
    BY <1>5, <1>3, <1>4 DEF Behind
  <1> QED BY <1>1, <1>2, <1>3, <1>4, <1>5, <1>6

LEMMA ReadingOn ==
  ASSUME Fixed, secret \in Secrets \cup {NoSecret}, Socket, Progress,
         NEW k, Behind(k), up # <<>>, up' = Tail(up), UNCHANGED <<fixed, secret, next>>,
         k + 1 # Len(Configuration)
  PROVE  Behind(k + 1)'
  <1>1. /\ k \in Nat /\ k + 1 \in 1..Len(Configuration) /\ k + 1 < next
        /\ Len(Configuration) \in Nat
    BY ReadsNext, SomethingToSay DEF Progress
  <1>2. up \in Seq(Sendable) /\ Len(up) \in Nat /\ Len(up) > 0
    BY DEF Socket
  <1>3. /\ Len(up') = Len(up) - 1
        /\ \A i \in 1..Len(up) - 1 : up'[i] = up[i + 1]
    BY <1>2
  <1>4. next \in Int
    BY <1>1 DEF Progress
  <1>5. /\ next - 1 - k <= Len(up)
        /\ \A i \in 1..next - 1 - k : up[i] = Configuration[k + i]
        /\ next - 1 - k < Len(up) => next > Len(Configuration)
    BY DEF Behind
  <1>6. k + 1 < Len(Configuration) /\ next - 1 - (k + 1) <= Len(up) - 1
    BY <1>1, <1>4, <1>5
  <1>7. ASSUME NEW i \in 1..next - 1 - (k + 1) PROVE up'[i] = Configuration[k + 1 + i]
    <2>1. i + 1 \in 1..next - 1 - k /\ i \in 1..Len(up) - 1 /\ k + (i + 1) = k + 1 + i
      BY <1>1, <1>2, <1>4, <1>6
    <2> QED BY <2>1, <1>3, <1>5
  <1>8. next - 1 - (k + 1) < Len(up) - 1 => next > Len(Configuration)
    BY <1>1, <1>2, <1>4, <1>5
  <1>9. Configuration' = Configuration
    BY SameConfiguration
  <1>10. next' = next /\ k + 1 \in Nat /\ Len(up') = Len(up) - 1
    BY <1>1, <1>3
  <1> QED BY <1>1, <1>6, <1>7, <1>8, <1>9, <1>10 DEF Behind

\* What the j-th message is.
LEMMA Kinds ==
  ASSUME Fixed, secret \in Secrets \cup {NoSecret}, NEW j \in 1..Len(Configuration)
  PROVE  \/ j \in 1..Presented /\ Configuration[j] = Message("secret", secret)
         \/ j \in Presented + 1..Envs /\ Configuration[j] = Message("env", request.env[j - Presented])
         \/ j \in Envs + 1..Args /\ Configuration[j] = Message("arg", request.args[j - Envs])
         \/ j = Args + 1 /\ Configuration[j] = Message("type", request.type)
         \/ j > Args + 1 /\ j # Len(Configuration) /\ Configuration[j] = Message("winsize", request.size)
         \/ j > Args + 1 /\ j # Len(Configuration) /\ Configuration[j] = Message("fds", "three")
         \/ j > Args + 1 /\ j = Len(Configuration) /\ Configuration[j] = Message("end", "")
  <1>1. PICK p \in Nat, e \in Nat, a \in Nat, w \in Nat :
          p = Presented /\ e = Envs /\ a = Args /\ w = Sized
    BY Places
  <1>2. j \in 1..a + w + 3 /\ Len(Configuration) = a + w + 3
    BY <1>1, SomethingToSay
  <1>3. /\ \A i \in 1..p : Configuration[i] = Message("secret", secret)
        /\ \A i \in p + 1..e : Configuration[i] = Message("env", request.env[i - p])
        /\ \A i \in e + 1..a : Configuration[i] = Message("arg", request.args[i - e])
        /\ Configuration[a + 1] = Message("type", request.type)
    BY <1>1, Layout DEF Laid
  <1>4. /\ \A i \in a + 2..a + w + 1 : Configuration[i] = Message("winsize", request.size)
        /\ Configuration[a + w + 2] = Message("fds", "three")
        /\ Configuration[a + w + 3] = Message("end", "")
    BY <1>1, Layout DEF Laid
  <1>5. \/ j \in 1..p \/ j \in p + 1..e \/ j \in e + 1..a \/ j = a + 1
        \/ j \in a + 2..a + w + 1 \/ j = a + w + 2 \/ j = a + w + 3
    BY <1>2
  <1>6. /\ j \in a + 2..a + w + 1 => j > a + 1 /\ j # a + w + 3
        /\ j = a + w + 2 => j > a + 1 /\ j # a + w + 3
        /\ j = a + w + 3 => j > a + 1
    BY <1>2
  <1>7. CASE j \in 1..p \/ j \in p + 1..e \/ j \in e + 1..a \/ j = a + 1
    BY <1>7, <1>3, <1>1
  <1>8. CASE j \in a + 2..a + w + 1
    BY <1>8, <1>4, <1>1, <1>6, <1>2
  <1>9. CASE j = a + w + 2 \/ j = a + w + 3
    BY <1>9, <1>4, <1>1, <1>6, <1>2
  <1> QED BY <1>5, <1>7, <1>8, <1>9

\* What one message adds to the request.
LEMMA Adds ==
  ASSUME Fixed, Requested
  PROVE  /\ \A v : With(Message("secret", v)) = got
         /\ \A v : With(Message("env", v)) =
              IF policy.noEnv THEN got ELSE [got EXCEPT !.envp = Append(got.envp, v)]
         /\ \A v : With(Message("arg", v)) =
              IF policy.noArgv THEN got ELSE [got EXCEPT !.argv = Append(got.argv, v)]
         /\ \A v : With(Message("type", v)) = [got EXCEPT !.type = v]
         /\ \A v : With(Message("winsize", v)) = [got EXCEPT !.size = v]
         /\ \A v : With(Message("fds", v)) = [got EXCEPT !.fds = TRUE]
  BY DEF With, Message

\* So a message that was taken is one more of those that were.
LEMMA TakesOneMore ==
  ASSUME Fixed, secret \in Secrets \cup {NoSecret}, Requested,
         NEW k \in Nat, k + 1 \in 1..Len(Configuration), After(k),
         got' = With(Configuration[k + 1]), UNCHANGED <<fixed, secret>>
  PROVE  After(k + 1)'
  <1>1. PICK p \in 0..1, e \in Nat, a \in Nat, x \in Nat, y \in Nat :
          /\ p = Presented /\ e = Envs /\ a = Args
          /\ x = Len(request.env) /\ y = Len(request.args)
          /\ e = p + x /\ a = e + y
    BY Places
  <1>2. /\ policy.env \in Seq(Words) /\ policy.args \in Seq(Words)
        /\ request.env \in Seq(Words) /\ request.args \in Seq(Words)
        /\ policy.noArgv \in BOOLEAN /\ policy.noEnv \in BOOLEAN
    BY DEF Fixed
  <1> DEFINE envp(n) == Chosen(policy.env, policy.noEnv, request.env, n)
             argv(n) == Chosen(policy.args, policy.noArgv, request.args, n)
             type(n) == IF n > a THEN request.type ELSE "direct"
             C == Configuration[k + 1]
  <1>3. got.envp = envp(k - p) /\ got.argv = argv(k - e) /\ got.type = type(k)
    BY <1>1 DEF After
  <1>4. /\ k - p \in Int /\ k - e \in Int
        /\ (k - p) + 1 = (k + 1) - p /\ (k - e) + 1 = (k + 1) - e
    OBVIOUS
  <1>5. ASSUME NEW n \in Int
        PROVE  /\ n \notin 0..x - 1 \/ policy.noEnv => envp(n + 1) = envp(n)
               /\ n \in 0..x - 1 /\ ~policy.noEnv =>
                    envp(n + 1) = Append(envp(n), request.env[n + 1])
    <2>1. x = Len(request.env)
      BY <1>1
    <2>2. PICK own \in Seq(Words), refused \in BOOLEAN, seq \in Seq(Words) :
            own = policy.env /\ refused = policy.noEnv /\ seq = request.env
      BY <1>2
    <2>3. /\ n \notin 0..Len(seq) - 1 \/ refused =>
               Chosen(own, refused, seq, n + 1) = Chosen(own, refused, seq, n)
          /\ n \in 0..Len(seq) - 1 /\ ~refused =>
               Chosen(own, refused, seq, n + 1) = Append(Chosen(own, refused, seq, n), seq[n + 1])
      BY ChosenFacts
    <2>4. envp(n + 1) = Chosen(own, refused, seq, n + 1) /\ envp(n) = Chosen(own, refused, seq, n)
      BY <2>2
    <2> HIDE DEF envp, argv
    <2> QED BY <2>1, <2>2, <2>3, <2>4
  <1>6. ASSUME NEW n \in Int
        PROVE  /\ n \notin 0..y - 1 \/ policy.noArgv => argv(n + 1) = argv(n)
               /\ n \in 0..y - 1 /\ ~policy.noArgv =>
                    argv(n + 1) = Append(argv(n), request.args[n + 1])
    <2>1. y = Len(request.args)
      BY <1>1
    <2>2. PICK own \in Seq(Words), refused \in BOOLEAN, seq \in Seq(Words) :
            own = policy.args /\ refused = policy.noArgv /\ seq = request.args
      BY <1>2
    <2>3. /\ n \notin 0..Len(seq) - 1 \/ refused =>
               Chosen(own, refused, seq, n + 1) = Chosen(own, refused, seq, n)
          /\ n \in 0..Len(seq) - 1 /\ ~refused =>
               Chosen(own, refused, seq, n + 1) = Append(Chosen(own, refused, seq, n), seq[n + 1])
      BY ChosenFacts
    <2>4. argv(n + 1) = Chosen(own, refused, seq, n + 1) /\ argv(n) = Chosen(own, refused, seq, n)
      BY <2>2
    <2> HIDE DEF envp, argv
    <2> QED BY <2>1, <2>2, <2>3, <2>4
  <1>7. got' = With(C)
    OBVIOUS
  <1>8. /\ DOMAIN got = {"argv", "envp", "type", "fds", "size"}
    BY DEF Requested
  <1>e. e = p + x /\ a = e + y
    BY <1>1
  <1> HIDE DEF envp, argv, type, C
  <1>9. got'.envp = envp((k + 1) - p) /\ got'.argv = argv((k + 1) - e) /\ got'.type = type(k + 1)
    <2>1. CASE k + 1 \in 1..p /\ C = Message("secret", secret)
      <3>1. k - p \notin 0..x - 1 /\ k - e \notin 0..y - 1 /\ ~(k > a) /\ ~(k + 1 > a)
        <4>1. k < p /\ p <= e /\ e <= a
          BY <2>1, <1>e
        <4> QED BY <4>1
      <3>2. got' = got
        BY <2>1, <1>7, Adds
      <3> QED BY <3>1, <3>2, <1>3, <1>4, <1>5, <1>6 DEF type
    <2>2. CASE k + 1 \in p + 1..e /\ C = Message("env", request.env[(k + 1) - p])
      <3>1. k - p \in 0..x - 1 /\ k - e \notin 0..y - 1 /\ ~(k > a) /\ ~(k + 1 > a)
        <4>1. p <= k /\ k < e /\ e <= a
          BY <2>2, <1>e
        <4> QED BY <4>1, <1>e
      <3>2. got' = IF policy.noEnv THEN got
              ELSE [got EXCEPT !.envp = Append(got.envp, request.env[(k + 1) - p])]
        BY <2>2, <1>7, Adds
      <3>3. got'.envp = (IF policy.noEnv THEN got.envp
                           ELSE Append(got.envp, request.env[(k + 1) - p]))
            /\ got'.argv = got.argv /\ got'.type = got.type
        BY <3>2, <1>8
      <3> QED BY <3>1, <3>3, <1>3, <1>4, <1>5, <1>6 DEF type
    <2>3. CASE k + 1 \in e + 1..a /\ C = Message("arg", request.args[(k + 1) - e])
      <3>1. k - p \notin 0..x - 1 /\ k - e \in 0..y - 1 /\ ~(k > a) /\ ~(k + 1 > a)
        <4>1. p <= e /\ e <= k /\ k < a
          BY <2>3, <1>e
        <4> QED BY <4>1, <1>e
      <3>2. got' = IF policy.noArgv THEN got
              ELSE [got EXCEPT !.argv = Append(got.argv, request.args[(k + 1) - e])]
        BY <2>3, <1>7, Adds
      <3>3. got'.argv = (IF policy.noArgv THEN got.argv
                           ELSE Append(got.argv, request.args[(k + 1) - e]))
            /\ got'.envp = got.envp /\ got'.type = got.type
        BY <3>2, <1>8
      <3> QED BY <3>1, <3>3, <1>3, <1>4, <1>5, <1>6 DEF type
    <2>4. CASE k + 1 = a + 1 /\ C = Message("type", request.type)
      <3>1. k - p \notin 0..x - 1 /\ k - e \notin 0..y - 1 /\ k + 1 > a
        <4>1. p <= e /\ e <= a /\ k = a
          BY <2>4, <1>e
        <4> QED BY <4>1, <1>e
      <3>2. got' = [got EXCEPT !.type = request.type]
        BY <2>4, <1>7, Adds
      <3>3. got'.argv = got.argv /\ got'.envp = got.envp /\ got'.type = request.type
        BY <3>2, <1>8
      <3> QED BY <3>1, <3>3, <1>3, <1>4, <1>5, <1>6 DEF type
    <2>5. CASE k + 1 > a + 1 /\ C \in {Message("winsize", request.size), Message("fds", "three"),
                                      Message("end", "")}
      <3>0. k + 1 > a + 1
        BY <2>5
      <3>1. k - p \notin 0..x - 1 /\ k - e \notin 0..y - 1 /\ k + 1 > a /\ k > a
        <4>1. p <= e /\ e <= a /\ k > a
          BY <3>0, <1>e
        <4> QED BY <4>1, <1>e
      <3>2. got'.argv = got.argv /\ got'.envp = got.envp /\ got'.type = got.type
        <4>1. With(Message("end", "")) = got
          BY DEF With, Message
        <4>2. /\ With(Message("winsize", request.size)) = [got EXCEPT !.size = request.size]
              /\ With(Message("fds", "three")) = [got EXCEPT !.fds = TRUE]
          BY Adds
        <4>3. \/ got' = got \/ got' = [got EXCEPT !.size = request.size]
              \/ got' = [got EXCEPT !.fds = TRUE]
          BY <4>1, <4>2, <2>5, <1>7
        <4> QED BY <4>3, <1>8
      <3> QED BY <3>1, <3>2, <1>3, <1>4, <1>5, <1>6 DEF type
    <2> QED
      <3>1. \/ k + 1 \in 1..p /\ C = Message("secret", secret)
            \/ k + 1 \in p + 1..e /\ C = Message("env", request.env[(k + 1) - p])
            \/ k + 1 \in e + 1..a /\ C = Message("arg", request.args[(k + 1) - e])
            \/ k + 1 = a + 1 /\ C = Message("type", request.type)
            \/ k + 1 > a + 1 /\ C \in {Message("winsize", request.size), Message("fds", "three"),
                                      Message("end", "")}
        BY Kinds, <1>1 DEF C
      <3> QED BY <3>1, <2>1, <2>2, <2>3, <2>4, <2>5
  <1>10. UNCHANGED <<policy, request>> /\ Presented' = p /\ Envs' = e /\ Args' = a
    BY <1>1, SameConfiguration DEF fixed
  <1> QED BY <1>9, <1>10 DEF After, Chosen, First, envp, argv, type

\* The end is the last message, and what presents a secret the first.
LEMMA Ends ==
  ASSUME Fixed, secret \in Secrets \cup {NoSecret}, NEW j \in 1..Len(Configuration)
  PROVE  /\ j = Len(Configuration) <=> Configuration[j].kind = "end"
         /\ Configuration[j].kind = "secret" => Configuration[j] = Message("secret", secret)
  <1>1. Message("end", "").kind = "end"
    BY DEF Message
  <1>2. Configuration[Len(Configuration)] = Message("end", "")
    BY SomethingToSay, Layout DEF Laid
  <1>4. \/ Configuration[j] = Message("secret", secret)
        \/ \E v, kind : /\ kind \in {"env", "arg", "type", "winsize", "fds"}
                        /\ Configuration[j] = Message(kind, v)
        \/ j = Len(Configuration) /\ Configuration[j] = Message("end", "")
    BY Kinds
  <1>5. \A v, kind : Message(kind, v).kind = kind
    BY DEF Message
  <1>6. j = Len(Configuration) => Configuration[j].kind = "end"
    BY <1>1, <1>2
  <1>7. CASE Configuration[j] = Message("secret", secret)
    BY <1>5, <1>6, <1>7
  <1>8. CASE \E v, kind : /\ kind \in {"env", "arg", "type", "winsize", "fds"}
                         /\ Configuration[j] = Message(kind, v)
    BY <1>5, <1>6, <1>8
  <1>9. CASE j = Len(Configuration) /\ Configuration[j] = Message("end", "")
    BY <1>5, <1>6, <1>9
  <1> QED BY <1>4, <1>7, <1>8, <1>9

\* The front-end takes the secret, and the daemon it hands the socket to goes on
\* behind it.
LEMMA FollowingHandsOver ==
  ASSUME Fixed, secret \in Secrets \cup {NoSecret}, Socket, Requested, Progress, Following,
         FrontHandsOver
  PROVE  Following' /\ Started'
  <1>1. /\ UNCHANGED <<fixed, secret, next, got>> /\ up # <<>> /\ up' = Tail(up)
        /\ srv = "front" /\ srv' \in {"config", "drop"} /\ Head(up) = Message("secret", "right")
    BY DEF FrontHandsOver, config
  <1>2. Behind(0) /\ After(0)
    BY <1>1 DEF Following, Taken
  <1>3. 0 + 1 = 1 /\ 0 \in Nat
    OBVIOUS
  <1>4. 1 \in 1..Len(Configuration) /\ Head(up) = Configuration[1]
    BY <1>1, <1>2, <1>3, ReadsNext
  <1>5. Configuration[1].kind = "secret"
    BY <1>1, <1>4 DEF Message
  <1>6. 1 # Len(Configuration) /\ Configuration[1] = Message("secret", secret)
    BY <1>4, <1>5, Ends
  <1>7. got' = With(Configuration[1])
    BY <1>1, <1>6, Adds
  <1>8. After(1)'
    BY <1>1, <1>2, <1>3, <1>4, <1>7, TakesOneMore
  <1>9. Behind(1)'
    BY <1>1, <1>2, <1>3, <1>6, ReadingOn
  <1> QED BY <1>1, <1>8, <1>9 DEF Following, Started, Taken

LEMMA FollowingTakes ==
  ASSUME Fixed, secret \in Secrets \cup {NoSecret}, Socket, Requested, Progress, Following,
         DTakes
  PROVE  Following' /\ Started'
  <1>1. /\ UNCHANGED <<fixed, secret, next, srv>> /\ up # <<>> /\ up' = Tail(up)
        /\ srv = "config" /\ got' = With(Head(up)) /\ Head(up).kind # "end"
    BY DEF DTakes, config
  <1>2. PICK k : Behind(k) /\ After(k)
    BY <1>1 DEF Following, Taken
  <1>3. k \in Nat /\ k + 1 \in 1..Len(Configuration) /\ Head(up) = Configuration[k + 1]
    BY <1>1, <1>2, ReadsNext
  <1>4. k + 1 # Len(Configuration)
    BY <1>1, <1>3, Ends
  <1>5. After(k + 1)'
    BY <1>1, <1>2, <1>3, TakesOneMore
  <1>6. Behind(k + 1)'
    BY <1>1, <1>2, <1>4, ReadingOn
  <1> QED BY <1>1, <1>5, <1>6 DEF Following, Started, Taken

\* With the last message all of the request was taken.
LEMMA AllTaken ==
  ASSUME Fixed, secret \in Secrets \cup {NoSecret}, NEW k \in Nat,
         k + 1 = Len(Configuration), After(k)
  PROVE  /\ got.envp = policy.env \o (IF policy.noEnv THEN <<>> ELSE request.env)
         /\ got.argv = policy.args \o (IF policy.noArgv THEN <<>> ELSE request.args)
         /\ got.type = request.type
  <1>1. PICK p \in 0..1, e \in Nat, a \in Nat, w \in 0..1, x \in Nat, y \in Nat :
          /\ p = Presented /\ e = Envs /\ a = Args /\ w = Sized
          /\ x = Len(request.env) /\ y = Len(request.args)
          /\ e = p + x /\ a = e + y
    BY Places
  <1>2. e = p + x /\ a = e + y
    BY <1>1
  <1>3. k + 1 = a + w + 3
    BY <1>1, SomethingToSay
  <1>4. k - p \in Int /\ k - p >= x /\ k - e \in Int /\ k - e >= y /\ k > a
    BY <1>2, <1>3
  <1>5. k - Presented \in Int /\ k - Presented >= Len(request.env)
        /\ k - Envs \in Int /\ k - Envs >= Len(request.args) /\ k > Args
    BY <1>1, <1>4
  <1>6. PICK m \in Int, n \in Int : m = k - Presented /\ n = k - Envs
    BY <1>5
  <1>7. PICK env \in Seq(Words), args \in Seq(Words) : env = request.env /\ args = request.args
    BY DEF Fixed
  <1>8. PICK own \in Seq(Words), fixd \in Seq(Words), noEnv \in BOOLEAN, noArgv \in BOOLEAN :
          own = policy.env /\ fixd = policy.args /\ noEnv = policy.noEnv /\ noArgv = policy.noArgv
    BY DEF Fixed
  <1>9. m >= Len(env) /\ n >= Len(args)
    BY <1>5, <1>6, <1>7
  <1>10. Chosen(own, noEnv, env, m) = own \o (IF noEnv THEN <<>> ELSE env)
    BY <1>9, ChosenFacts
  <1>11. Chosen(fixd, noArgv, args, n) = fixd \o (IF noArgv THEN <<>> ELSE args)
    BY <1>9, ChosenFacts
  <1> QED BY <1>5, <1>6, <1>7, <1>8, <1>10, <1>11 DEF After

LEMMA FollowingTakesEnd ==
  ASSUME Fixed, secret \in Secrets \cup {NoSecret}, Socket, Requested, Progress, Following,
         DTakesEnd
  PROVE  Following' /\ Started'
  <1>1. /\ UNCHANGED <<fixed, secret>> /\ up # <<>> /\ srv = "config" /\ srv' = "start"
        /\ got' = [got EXCEPT !.argv = IF got.argv = <<>> THEN <<"sh">> ELSE got.argv]
        /\ Head(up).kind = "end"
    BY DEF DTakesEnd, config
  <1>2. PICK k : Behind(k) /\ After(k)
    BY <1>1 DEF Following, Taken
  <1>3. k \in Nat /\ k + 1 \in 1..Len(Configuration) /\ Head(up) = Configuration[k + 1]
    BY <1>1, <1>2, ReadsNext
  <1>4. k + 1 = Len(Configuration)
    BY <1>1, <1>3, Ends
  <1>5. /\ got.envp = policy.env \o (IF policy.noEnv THEN <<>> ELSE request.env)
        /\ got.argv = policy.args \o (IF policy.noArgv THEN <<>> ELSE request.args)
        /\ got.type = request.type
    BY <1>2, <1>3, <1>4, AllTaken
  <1>6. /\ got'.argv = Promise!Or(got.argv, <<"sh">>) /\ got'.envp = got.envp
        /\ got'.type = got.type
    BY <1>1 DEF Requested, Promise!Or
  <1>7. Started'
    BY <1>1, <1>5, <1>6 DEF Started, Promise!Permitted, Promise!Or, Promise!Shell, fixed
  <1> QED BY <1>1, <1>7 DEF Following

-----------------------------------------------------------------------------
\* The socket, the request and the rest keep their shape.
LEMMA ScalarsStep ==
  ASSUME Inv, Fixed, Scalars, Requested, Socket, Forwards, [Next]_vars
  PROVE  Scalars'
  <1> USE DEF Scalars, fixed, terminal, config, forward, server, program
  <1>1. CASE Resize \/ FwdRegisters \/ FwdWakes \/ FwdWrites
    <2>1. CASE Resize
      BY <2>1, SessionConstants DEF Resize
    <2>2. CASE FwdRegisters
      BY <2>2, SessionConstants DEF FwdRegisters
    <2>3. CASE FwdWakes
      BY <2>3, SessionConstants DEF FwdWakes
    <2>4. CASE FwdWrites
      BY <2>4, SessionConstants DEF FwdWrites
    <2> QED BY <1>1, <2>1, <2>2, <2>3, <2>4
  <1>2. CASE Connects \/ CannotConnect \/ Sends \/ SendFails
    <2>1. CASE Connects
      BY <2>1 DEF Connects
    <2>2. CASE CannotConnect
      BY <2>2 DEF CannotConnect
    <2>3. CASE Sends
      BY <2>3 DEF Sends
    <2>4. CASE SendFails
      BY <2>4 DEF SendFails
    <2> QED BY <1>2, <2>1, <2>2, <2>3, <2>4
  <1>3. CASE Recv \/ Prompts \/ GivesNoSecret \/ Dies
    <2>1. CASE TakesError
      BY <2>1 DEF TakesError
    <2>2. CASE TakesExit
      BY <2>2 DEF TakesExit, StopsForwarding
    <2>3. CASE TakesChallenge
      BY <2>3 DEF TakesChallenge, StopsForwarding
    <2>4. CASE RecvFails
      BY <2>4 DEF RecvFails, StopsForwarding
    <2>5. CASE Prompts
      BY <2>5 DEF Prompts
    <2>6. CASE GivesNoSecret
      BY <2>6 DEF GivesNoSecret
    <2>7. CASE Dies
      BY <2>7 DEF Dies, StopsForwarding
    <2> QED BY <1>3, <2>1, <2>2, <2>3, <2>4, <2>5, <2>6, <2>7 DEF Recv
  <1>4. CASE FrontEnd
    <2>1. CASE FrontFails
      BY <2>1 DEF FrontFails
    <2>2. CASE FrontHungUp
      BY <2>2 DEF FrontHungUp
    <2>3. CASE FrontChallenges
      BY <2>3 DEF FrontChallenges
    <2>4. CASE FrontRefuses
      BY <2>4 DEF FrontRefuses
    <2>5. CASE FrontHandsOver
      BY <2>5 DEF FrontHandsOver
    <2> QED BY <1>4, <2>1, <2>2, <2>3, <2>4, <2>5 DEF FrontEnd
  <1>5. CASE DTakes \/ DTakesEnd \/ DRefuses \/ DReaps \/ BridgeFreed \/ DReports \/ Drops
    <2>1. CASE DTakes
      BY <2>1 DEF DTakes
    <2>2. CASE DTakesEnd
      BY <2>2 DEF DTakesEnd
    <2>3. CASE DRefuses
      BY <2>3 DEF DRefuses
    <2>4. CASE DReaps \/ BridgeFreed
      BY <2>4 DEF DReaps, Reaped, BridgeFreed
    <2>5. CASE DReports
      BY <2>5 DEF DReports
    <2>6. CASE Drops
      BY <2>6 DEF Drops
    <2> QED BY <1>5, <2>1, <2>2, <2>3, <2>4, <2>5, <2>6
  <1>6. CASE Start
    BY <1>6 DEF Start, DSpawns, SpawnFails, PtyFails, Spawned, Requested
  <1>7. CASE DTakesSize
    <2>1. up # <<>> /\ up \in Seq(Sendable)
      BY <1>7 DEF DTakesSize, Socket
    <2>2. Head(up) \in Sendable
      BY <2>1
    <2>3. Head(up).kind = "winsize" => Head(up).value \in TermSizes
      BY <2>2 DEF Sendable
    <2> QED BY <1>7, <2>3 DEF DTakesSize
  <1>8. CASE DHungUp \/ ProgramExits \/ KillTakes
    <2>1. CASE DHungUp
      BY <2>1, SessionConstants DEF DHungUp, Killed
    <2>2. CASE ProgramExits
      BY <2>2, SessionConstants DEF ProgramExits, Killed
    <2>3. CASE KillTakes
      BY <2>3, SessionConstants DEF KillTakes, Killed
    <2> QED BY <1>8, <2>1, <2>2, <2>3
  <1>9. CASE Terminated \/ UNCHANGED vars
    BY <1>9 DEF Terminated, vars
  <1> QED BY <1>1, <1>2, <1>3, <1>4, <1>5, <1>6, <1>7, <1>8, <1>9 DEF Next, Forwarder,
       Client, Daemon

\* What is written to the socket are messages, as many as it has room for.
LEMMA SocketStep ==
  ASSUME Fixed, secret \in Secrets \cup {NoSecret}, Socket, Progress, Forwards, [Next]_vars
  PROVE  Socket'
  <1>1. up \in Seq(Sendable) /\ Len(up) \in Nat /\ Len(up) <= Buffer /\ Buffer \in Nat
    BY SessionConstants DEF Socket
  <1>2. CASE up' = up \/ up' = <<>>
    <2>1. <<>> \in Seq(Sendable) /\ Len(<<>>) = 0
      OBVIOUS
    <2>2. CASE up' = up
      BY <1>1, <2>2 DEF Socket
    <2>3. CASE up' = <<>>
      <3>1. 0 <= Buffer
        BY <1>1
      <3> QED BY <2>1, <2>3, <3>1 DEF Socket
    <2> QED BY <1>2, <2>2, <2>3
  <1>3. CASE up # <<>> /\ up' = Tail(up)
    BY <1>1, <1>3 DEF Socket
  <1>4. ASSUME NEW m \in Sendable, up' = Append(up, m), Len(up) < Buffer
        PROVE  Socket'
    BY <1>1, <1>4 DEF Socket
  <1>5. CASE Sends
    <2>1. next \in 1..Len(Configuration) /\ Configuration \in Seq(Sendable)
      BY <1>5, SomethingToSay DEF Sends, Progress, Forwards
    <2>2. Configuration[next] \in Sendable
      BY <2>1
    <2> QED BY <1>4, <1>5, <2>2 DEF Sends
  <1>6. CASE FwdWrites
    <2>1. Message("winsize", fsize) \in Sendable
      BY <1>6 DEF FwdWrites, Forwards, Sendable, Message
    <2> QED BY <1>2, <1>4, <1>6, <2>1 DEF FwdWrites
  <1>7. CASE Resize \/ FwdRegisters \/ FwdWakes
    BY <1>7, <1>2 DEF Resize, FwdRegisters, FwdWakes
  <1>8. CASE Connects \/ CannotConnect \/ SendFails
    BY <1>8, <1>2 DEF Connects, CannotConnect, SendFails
  <1>9. CASE Recv \/ Prompts \/ GivesNoSecret \/ Dies
    BY <1>9, <1>2 DEF Recv, TakesError, TakesExit, TakesChallenge, RecvFails, Prompts,
       GivesNoSecret, Dies
  <1>10. CASE FrontEnd
    BY <1>10, <1>2, <1>3 DEF FrontEnd, FrontFails, FrontHungUp, FrontChallenges, FrontRefuses,
       FrontHandsOver
  <1>11. CASE DTakes \/ DTakesEnd \/ DRefuses \/ Start \/ DReaps \/ BridgeFreed \/ DReports \/ Drops
    BY <1>11, <1>2, <1>3 DEF DTakes, DTakesEnd, DRefuses, Start, DSpawns, SpawnFails, PtyFails,
       DReaps, Reaped, BridgeFreed, DReports, Drops
  <1>12. CASE DTakesSize \/ DHungUp \/ ProgramExits \/ KillTakes \/ Terminated \/ UNCHANGED vars
    BY <1>12, <1>2, <1>3 DEF DTakesSize, DHungUp, ProgramExits, KillTakes, Terminated, vars
  <1> QED BY <1>5, <1>6, <1>7, <1>8, <1>9, <1>10, <1>11, <1>12 DEF Next, Forwarder,
       Client, Daemon

\* What is received of them is a request.
LEMMA RequestedStep ==
  ASSUME Fixed, Requested, Socket, [Next]_vars
  PROVE  Requested'
  <1>1. CASE UNCHANGED got
    BY <1>1 DEF Requested
  <1>2. CASE Connects
    <2>1. Received \in [argv: Seq(Words), envp: Seq(Words), type: Types, fds: BOOLEAN,
                        size: TermSizes]
      BY SessionConstants DEF Received, Fixed, Types
    <2> QED BY <1>2, <2>1 DEF Connects, Requested
  <1>3. CASE DTakes
    <2>1. Head(up) \in Sendable /\ got' = With(Head(up))
      BY <1>3 DEF DTakes, Socket
    <2>2. ASSUME NEW w \in Words
          PROVE  Append(got.argv, w) \in Seq(Words) /\ Append(got.envp, w) \in Seq(Words)
      BY DEF Requested
    <2>3. \/ got' = got
          \/ \E w \in Words : got' = [got EXCEPT !.argv = Append(got.argv, w)]
          \/ \E w \in Words : got' = [got EXCEPT !.envp = Append(got.envp, w)]
          \/ \E t \in Types : got' = [got EXCEPT !.type = t]
          \/ \E s \in TermSizes : got' = [got EXCEPT !.size = s]
          \/ got' = [got EXCEPT !.fds = TRUE]
      BY <2>1 DEF With, Sendable
    <2> QED BY <2>2, <2>3 DEF Requested
  <1>4. CASE DTakesEnd
    <2>1. <<"sh">> \in Seq(Words)
      BY SessionConstants
    <2> QED BY <1>4, <2>1 DEF DTakesEnd, Requested
  <1>5. CASE Passes \/ Sends \/ FwdWrites \/ Prompts \/ FrontHandsOver
    BY <1>5, <1>1 DEF Passes, Sends, FwdWrites, Prompts, FrontHandsOver, server
  <1> QED BY <1>2, <1>3, <1>4, <1>5, NextCases

\* The request is as long after a secret was asked for, or longer by it.
LEMMA Longer ==
  ASSUME Fixed, secret \in Secrets \cup {NoSecret}, Prompts
  PROVE  Len(Configuration) <= Len(Configuration') /\ Len(Configuration') \in Nat
  <1>1. Fixed' /\ secret' \in Secrets \cup {NoSecret} /\ secret' # NoSecret
        /\ UNCHANGED request
    BY DEF Prompts, Fixed, fixed, Secrets, NoSecret
  <1>2. Len(Configuration) = Args + Sized + 3
    BY SomethingToSay
  <1>3. (Fixed /\ secret \in Secrets \cup {NoSecret} => Laid)'
    BY Layout, PTL
  <1>4. Len(Configuration') = Args' + Sized' + 3
    BY <1>1, <1>3 DEF Laid
  <1>5. Presented' = 1 /\ Sized' = Sized
    BY <1>1 DEF Presented, Sized
  <1>6. PICK p \in 0..1, w \in 0..1, x \in Nat, y \in Nat :
          p = Presented /\ w = Sized /\ x = Len(request.env) /\ y = Len(request.args)
    BY Places
  <1>7. Args = p + x + y /\ Args' = 1 + x + y
    BY <1>1, <1>5, <1>6 DEF Args, Envs
  <1>8. Len(Configuration) = p + x + y + w + 3 /\ Len(Configuration') = 1 + x + y + w + 3
    BY <1>2, <1>4, <1>5, <1>6, <1>7
  <1>9. ASSUME NEW l, NEW m, l = p + x + y + w + 3, m = 1 + x + y + w + 3
        PROVE  l <= m /\ m \in Nat
    BY <1>9
  <1> QED BY <1>8, <1>9

\* How much of it was sent.
LEMMA ProgressStep ==
  ASSUME Fixed, secret \in Secrets \cup {NoSecret}, Progress, Forwards, [Next]_vars
  PROVE  Progress'
  <1>1. Len(Configuration) \in Nat /\ Len(Configuration) > 0 /\ next \in 1..Len(Configuration) + 1
    BY SomethingToSay DEF Progress
  <1>2. CASE Passes \/ FwdWrites \/ FrontHandsOver \/ DTakes \/ DTakesEnd
    <2>1. UNCHANGED <<fixed, secret, next>>
      BY <1>2 DEF Passes, FwdWrites, FrontHandsOver, DTakes, DTakesEnd, config
    <2> QED BY <2>1, SameConfiguration DEF Progress
  <1>3. CASE Connects
    <2>1. UNCHANGED <<fixed, secret>> /\ next' = 1
      BY <1>3 DEF Connects
    <2>2. Configuration' = Configuration
      BY <2>1, SameConfiguration
    <2> QED BY <1>1, <2>1, <2>2 DEF Progress
  <1>4. CASE Sends
    <2>1. UNCHANGED <<fixed, secret>> /\ next' = next + 1 /\ next <= Len(Configuration)
      BY <1>4 DEF Sends, Forwards
    <2>2. Configuration' = Configuration
      BY <2>1, SameConfiguration
    <2> QED BY <1>1, <2>1, <2>2 DEF Progress
  <1>5. CASE Prompts
    <2>1. next' = next
      BY <1>5 DEF Prompts
    <2> QED BY <1>1, <1>5, <2>1, Longer DEF Progress
  <1> QED BY <1>2, <1>3, <1>4, <1>5, NextCases

\* The forwarder starts behind the last message, and ends with the connection.
LEMMA ForwardsStep ==
  ASSUME Fixed, Scalars, Progress, Forwards, [Next]_vars
  PROVE  Forwards'
  <1> USE DEF Forwards, fixed, config, forward, terminal
  <1>1. Len(Configuration) \in Nat /\ Len(Configuration) > 0 /\ next \in 1..Len(Configuration) + 1
    BY SomethingToSay DEF Progress, Scalars
  <1>2. UNCHANGED <<fixed, secret>> => Configuration' = Configuration
    BY SameConfiguration
  <1>3. CASE Resize \/ FwdRegisters \/ FwdWakes \/ FwdWrites
    BY <1>2, <1>3 DEF Resize, FwdRegisters, FwdWakes, FwdWrites, Scalars
  <1>4. CASE Connects
    BY <1>1, <1>2, <1>4 DEF Connects
  <1>5. CASE Sends
    BY <1>1, <1>2, <1>5 DEF Sends
  <1>6. CASE CannotConnect \/ SendFails \/ Prompts
    BY <1>6, <1>2 DEF CannotConnect, SendFails, Prompts
  <1>7. CASE Recv \/ GivesNoSecret \/ Dies
    BY <1>7, <1>2 DEF Recv, TakesError, TakesExit, TakesChallenge, RecvFails, StopsForwarding,
       GivesNoSecret, Dies
  <1>8. CASE FrontEnd
    BY <1>8, <1>2 DEF FrontEnd, FrontFails, FrontHungUp, FrontChallenges, FrontRefuses,
       FrontHandsOver
  <1>9. CASE DTakes \/ DTakesEnd \/ DRefuses \/ Start \/ DReaps \/ BridgeFreed \/ DReports \/ Drops
    BY <1>9, <1>2 DEF DTakes, DTakesEnd, DRefuses, Start, DSpawns, SpawnFails, PtyFails,
       DReaps, Reaped, BridgeFreed, DReports, Drops
  <1>10. CASE DTakesSize \/ DHungUp \/ ProgramExits \/ KillTakes \/ Terminated \/ UNCHANGED vars
    BY <1>10, <1>2 DEF DTakesSize, DHungUp, ProgramExits, KillTakes, Terminated, vars
  <1> QED BY <1>3, <1>4, <1>5, <1>6, <1>7, <1>8, <1>9, <1>10 DEF Next, Forwarder, Client, Daemon

-----------------------------------------------------------------------------
LEMMA InitFixed == Init => Fixed
  <1> SUFFICES ASSUME Init PROVE Fixed
    OBVIOUS
  <1>1. policy \in Policies /\ chained \in FrontEnds /\ term \in TermSizes
    BY DEF Init
  <1>2. PICK asked \in Requests, size \in {term, NoSize} :
          request = [args |-> asked.args, env |-> asked.env, type |-> asked.type, size |-> size]
    BY DEF Init
  <1>3. /\ {policy.args, policy.env} \subseteq Seq(Words)
        /\ {policy.noArgv, policy.noEnv} \subseteq BOOLEAN
    BY <1>1, SessionAssumption DEF SessionAssumption
  <1>4. {asked.args, asked.env} \subseteq Seq(Words) /\ asked.type \in Types
    BY SessionAssumption DEF SessionAssumption
  <1> QED BY <1>1, <1>2, <1>3, <1>4 DEF Fixed

LEMMA InitWhole == Init => Whole
  <1> SUFFICES ASSUME Init PROVE Whole
    OBVIOUS
  <1>1. Inv /\ Fixed
    BY InitInv, InitFixed
  <1>2. Scalars
    <2>1. 0 \in 0..Resizes /\ 0 \in Nat
      BY SessionConstants
    <2> QED BY <2>1 DEF Init, Scalars
  <1>3. Received \in [argv: Seq(Words), envp: Seq(Words), type: Types, fds: BOOLEAN,
                       size: TermSizes]
    BY <1>1, SessionConstants DEF Received, Fixed, Types
  <1>4. Requested
    BY <1>3 DEF Init, Requested
  <1>5. <<>> \in Seq(Sendable) /\ Len(<<>>) = 0 /\ 0 <= Buffer
    BY SessionConstants
  <1>6. Socket
    BY <1>5 DEF Init, Socket
  <1>7. Progress /\ Forwards /\ Following /\ Started
    <2>1. Len(Configuration) \in Nat /\ Len(Configuration) > 0
      BY <1>1, <1>2, SomethingToSay DEF Scalars
    <2> QED BY <2>1 DEF Init, Progress, Forwards, Following, Started
  <1> QED BY <1>1, <1>2, <1>4, <1>6, <1>7 DEF Whole

LEMMA FollowingStep ==
  ASSUME Whole, [Next]_vars
  PROVE  Following' /\ Started'
  <1>1. /\ Inv /\ Fixed /\ secret \in Secrets \cup {NoSecret} /\ Requested /\ Socket
        /\ Progress /\ Forwards /\ Following /\ Started
    BY DEF Whole, Scalars
  <1>2. CASE Passes
    BY <1>1, <1>2, FollowingPasses
  <1>3. CASE Connects \/ Sends \/ FwdWrites \/ Prompts
    BY <1>1, <1>3, FollowingConnects, FollowingSends, FollowingWrites, FollowingPrompts
  <1>4. CASE FrontHandsOver \/ DTakes \/ DTakesEnd
    BY <1>1, <1>4, FollowingHandsOver, FollowingTakes, FollowingTakesEnd
  <1> QED BY <1>2, <1>3, <1>4, NextCases

LEMMA StepWhole == Whole /\ [Next]_vars => Whole'
  <1> SUFFICES ASSUME Whole, [Next]_vars PROVE Whole'
    OBVIOUS
  <1>1. /\ Inv /\ Fixed /\ Scalars /\ secret \in Secrets \cup {NoSecret} /\ Requested
        /\ Socket /\ Progress /\ Forwards
    BY DEF Whole, Scalars
  <1>2. Inv'
    BY <1>1, StepInv
  <1>3. Fixed'
    BY <1>1, FixedStays DEF Fixed, fixed
  <1>4. Scalars' /\ Requested' /\ Socket' /\ Progress' /\ Forwards'
    BY <1>1, ScalarsStep, RequestedStep, SocketStep, ProgressStep, ForwardsStep
  <1>5. Following' /\ Started'
    BY FollowingStep
  <1> QED BY <1>2, <1>3, <1>4, <1>5 DEF Whole

LEMMA Wholeness == Spec => []Whole
  BY InitWhole, StepWhole, PTL DEF Spec

\* The state keeps its shape: at most one program is started, and the socket
\* holds no more than it has room for.
THEOREM SessionShape == Spec => []TypeOK
  <1>1. Whole => TypeOK
    <2> SUFFICES ASSUME Whole PROVE TypeOK
      OBVIOUS
    <2>1. Inv /\ Fixed /\ Scalars /\ Requested /\ Socket /\ Progress
      BY DEF Whole
    <2>2. Len(down) <= 2
      <3>1. Len(<<>>) = 0 /\ Len(<<Unauthorized>>) = 1
        OBVIOUS
      <3>2. \A c \in Int : Len(<<Exit(c)>>) = 1 /\ Len(Refusal(c)) = 2
        BY DEF Refusal
      <3>3. CASE down = <<>> \/ down = <<Unauthorized>>
        BY <3>1, <3>3
      <3>4. ASSUME NEW c \in Int, down = <<Exit(c)>> \/ down = Refusal(c)
            PROVE  Len(down) <= 2
        <4>1. Len(<<Exit(c)>>) = 1 /\ Len(Refusal(c)) = 2
          BY <3>2
        <4>2. Len(down) \in {1, 2}
          BY <3>4, <4>1
        <4>3. ASSUME NEW n \in {1, 2} PROVE n <= 2
          OBVIOUS
        <4> QED BY <4>2, <4>3
      <3> QED BY <2>1, <3>3, <3>4 DEF Inv, Reports
    <2>3. Len(ran) <= 1 /\ prog \in {"none", "running", "exited"}
      <3>1. ran = <<>> \/ \E command : ran = <<command>>
        BY <2>1 DEF Inv, Server
      <3>2. Len(<<>>) = 0 /\ \A command : Len(<<command>>) = 1
        OBVIOUS
      <3>3. Len(ran) <= 1
        <4>1. Len(ran) \in {0, 1}
          BY <3>1, <3>2
        <4>2. ASSUME NEW n \in {0, 1} PROVE n <= 1
          OBVIOUS
        <4> QED BY <4>1, <4>2
      <3>4. prog \in {"none", "running", "exited"}
        BY <2>1 DEF Inv, Server
      <3> QED BY <3>3, <3>4
    <2>4. outcome.kind \in {"none", "exited", "failed", "refused", "unreachable", "error"}
      BY <2>1 DEF Inv, Telling
    <2>5. got.argv \in Seq(Words) /\ got.envp \in Seq(Words) /\ got.fds \in BOOLEAN
      BY <2>1 DEF Requested
    <2>6. next \in 1..Len(Configuration) + 1 /\ Len(up) <= Buffer
      BY <2>1 DEF Progress, Socket
    <2> QED BY <2>1, <2>2, <2>3, <2>4, <2>5, <2>6 DEF TypeOK, Fixed, Scalars
  <1> QED BY <1>1, Wholeness, PTL

-----------------------------------------------------------------------------
\* The program is started once, on what the policy permits of the request, and
\* before the client was told anything.
LEMMA StartsRun ==
  ASSUME Whole, srv = "start", Spawned, UNCHANGED <<fixed, outcome>>
  PROVE  Promise!Run
  <1>1. Inv /\ Started
    BY DEF Whole
  <1>2. ran = <<>> /\ prog = "none"
    BY <1>1 DEF Inv, Server
  <1>3. outcome.kind = "none"
    BY <1>1, <1>2 DEF Inv, Telling, Settled
  <1>4. ran' = <<Promise!Permitted>>
    <2>1. [argv |-> got.argv, envp |-> got.envp, type |-> got.type] = Promise!Permitted
      BY <1>1 DEF Started
    <2>2. ran' = Append(<<>>, [argv |-> got.argv, envp |-> got.envp, type |-> got.type])
      BY <1>2 DEF Spawned
    <2>3. \A command : Append(<<>>, command) = <<command>>
      OBVIOUS
    <2> QED BY <2>1, <2>2, <2>3
  <1> QED BY <1>2, <1>3, <1>4 DEF Promise!Run, Promise!Untold, Spawned, fixed

\* The client is told once, and what it is told is so.
LEMMA TellsSo ==
  ASSUME Inv, Inv', cpc # "done", outcome'.kind # "none",
         UNCHANGED <<policy, request, ran, prog, code>>
  PROVE  Promise!Tell
  BY DEF Inv, Telling, Promise!Tell, Promise!Untold

LEMMA KeepsPromise ==
  ASSUME Whole, [Next]_vars
  PROVE  [Promise!Next]_(Promise!vars)
  <1> USE DEF Promise!Next, Promise!vars, fixed
  <1>0. Inv /\ Inv'
    BY StepInv DEF Whole
  <1>1. CASE Resize \/ Forwarder \/ Prompts \/ Dies \/ FrontEnd \/ DTakesSize \/ DHungUp
             \/ Terminated \/ UNCHANGED vars
    BY <1>1 DEF Resize, Forwarder, FwdRegisters, FwdWakes, FwdWrites, Prompts, Dies, FrontEnd,
       FrontFails, FrontHungUp, FrontChallenges, FrontRefuses, FrontHandsOver, DTakesSize,
       DHungUp, Terminated, vars, program
  <1>2. CASE Connects \/ Sends \/ SendFails \/ TakesError
    BY <1>2 DEF Connects, Sends, SendFails, TakesError, program
  <1>3. CASE CannotConnect \/ GivesNoSecret \/ TakesExit \/ RecvFails
    <2>1. /\ cpc # "done" /\ outcome'.kind # "none"
          /\ UNCHANGED <<policy, request, ran, prog, code>>
      BY <1>3 DEF CannotConnect, GivesNoSecret, TakesExit, RecvFails, Told, program
    <2> QED BY <2>1, <1>0, TellsSo
  <1>4. CASE TakesChallenge
    <2>1. UNCHANGED <<policy, request, ran, prog, code>>
      BY <1>4 DEF TakesChallenge, program
    <2>2. CASE secret = NoSecret
      BY <2>1, <2>2, <1>4 DEF TakesChallenge
    <2>3. CASE secret # NoSecret
      <3>1. cpc # "done" /\ outcome'.kind # "none"
        BY <2>3, <1>4 DEF TakesChallenge, Told
      <3> QED BY <3>1, <2>1, <1>0, TellsSo
    <2> QED BY <2>2, <2>3
  <1>5. CASE Start
    <2>1. CASE Spawned
      <3>1. srv = "start" /\ UNCHANGED <<fixed, outcome>>
        BY <1>5, <2>1 DEF Start, DSpawns, SpawnFails, PtyFails
      <3> QED BY <2>1, <3>1, StartsRun
    <2>2. CASE ~Spawned
      BY <1>5, <2>2 DEF Start, DSpawns, SpawnFails, PtyFails, program
    <2> QED BY <2>1, <2>2
  <1>6. CASE DTakes \/ DTakesEnd \/ DRefuses \/ DReaps \/ BridgeFreed \/ DReports \/ Drops
    BY <1>6 DEF DTakes, DTakesEnd, DRefuses, DReaps, Reaped, BridgeFreed, DReports, Drops,
       program
  <1>7. CASE ProgramExits \/ KillTakes
    <2>1. CASE ProgramExits
      BY <2>1, SessionConstants DEF ProgramExits, Promise!End
    <2>2. CASE KillTakes
      BY <2>2 DEF KillTakes, Killed, Promise!End
    <2> QED BY <1>7, <2>1, <2>2
  <1> QED BY <1>1, <1>2, <1>3, <1>4, <1>5, <1>6, <1>7 DEF Next, Client, Recv, Daemon

\* A session is a use of the capability: whatever the policy, the request, the
\* deployment and the order of messages, retries, resizes, deaths and failures, at
\* most one program runs, on the whole request as the policy permits it, and what
\* the client is told is what happened.
THEOREM SessionIsCapability == Spec => IsCapability
  <1>1. Init => Promise!Init
    BY DEF Init, Told, Promise!Init, Promise!Untold
  <1>2. Whole /\ [Next]_vars => [Promise!Next]_(Promise!vars)
    BY KeepsPromise
  <1> QED BY <1>1, <1>2, Wholeness, PTL DEF Spec, IsCapability, Promise!Spec
=============================================================================
