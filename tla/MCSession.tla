----------------------------- MODULE MCSession -----------------------------
(* Daemons and clients of Session for TLC.                                   *)
EXTENDS Session

MCPolicies ==
  [args : {<<>>, <<"fixed">>}, env : {<<"F=1">>}, noArgv : BOOLEAN, noEnv : BOOLEAN]

MCRequests ==
  [args : {<<>>, <<"prog", "arg">>}, env : {<<"C=1">>}, type : {"pty", "direct"}]

MCOpenPolicy == [args : {<<>>}, env : {<<>>}, noArgv : {FALSE}, noEnv : {FALSE}]
MCOneRequest == [args : {<<"prog">>}, env : {<<>>}, type : {"pty", "direct"}]
=============================================================================
