--------------------------- MODULE MCCredentials ---------------------------
(* What the server makes of single requests, and how the users that make   *)
(* them sign in, for TLC: Credentials, KeyCache, Access, Symbols, SignIn   *)
(* and DeviceLog.  They share nothing, so one of them runs in a behaviour, *)
(* which adds their states instead of multiplying them.                    *)
EXTENDS Credentials, KeyCache, Access, Symbols, SignIn, DeviceLog, TLC

(* Requests are interchangeable, and so are epochs: nothing but equality   *)
(* looks at either.                                                        *)
Symmetry == {p @@ q : p \in Permutations(Requests), q \in Permutations(Epochs)}

MCAccounts ==
  {<<"ann", "p1", "viewer">>, <<"bob", "p2", "provisioner">>,
   <<"cid", "p3", "auditor">>, <<"dot", "p4">>, <<"eve">>}
MCChief == <<"root", "p5">>

-----------------------------------------------------------------------------
VARIABLE part  \* which of the six runs

allVars == <<vars, keyVars, accessVars, symbolVars, signVars, deviceLogVars,
             part>>

AllInit ==
  /\ part \in {"device", "key", "access", "symbols", "signIn", "log"}
  /\ Init /\ KeyInit /\ AccessInit /\ SymbolsInit /\ SignInInit
  /\ DeviceLogInit
  /\ part # "access" => ask = Nobody /\ setup = [mode |-> "basic", key |-> Nobody]
  /\ part # "signIn" => mode = "basic"

AllNext ==
  /\ UNCHANGED part
  /\ \/ /\ part = "device" /\ Next
        /\ UNCHANGED <<keyVars, accessVars, symbolVars, signVars, deviceLogVars>>
     \/ /\ part = "key" /\ KeyNext
        /\ UNCHANGED <<vars, accessVars, symbolVars, signVars, deviceLogVars>>
     \/ /\ part = "access" /\ AccessNext
        /\ UNCHANGED <<vars, keyVars, symbolVars, signVars, deviceLogVars>>
     \/ /\ part = "symbols" /\ SymbolsNext
        /\ UNCHANGED <<vars, keyVars, accessVars, signVars, deviceLogVars>>
     \/ /\ part = "signIn" /\ SignInNext
        /\ UNCHANGED <<vars, keyVars, accessVars, symbolVars, deviceLogVars>>
     \/ /\ part = "log" /\ DeviceLogNext
        /\ UNCHANGED <<vars, keyVars, accessVars, symbolVars, signVars>>

AllSpec == AllInit /\ [][AllNext]_allVars

(* A user signs in soundly at the dashboard, one whose token is good is    *)
(* not refused, and a request is answered if every page lets its user make *)
(* it and the server is shown their roles, and not if no page does, the    *)
(* reads under /admin aside (auth_middleware.rs, auth.rs, oidc.rs).        *)
UsersServed == GoodIsTaken /\ AnsweredAsTold /\ SignInSound

(* Whoever reads a symbol or the evidence of a device reads what is so.    *)
ReadersTold == AnsweredIsRead /\ HistoryTold
=============================================================================
