------------------------------ MODULE Connector ------------------------------
(***************************************************************************)
(* The calls of Operations and the logins of Discovery in one process      *)
(* (src/server/main.go).  They share no lock, so neither waits for the     *)
(* other; a restart ends both.                                             *)
(***************************************************************************)
EXTENDS Operations

CONSTANT Login

VARIABLES queue, asking, provider, login

oidc == INSTANCE Discovery

loginVars == <<queue, asking, provider, login>>
allVars == <<vars, loginVars>>

ProcessInit == Init /\ oidc!Init

ProcessNext ==
  \/ Steps /\ UNCHANGED loginVars
  \/ oidc!Steps /\ UNCHANGED vars
  \/ Restart /\ oidc!Restart

ProcessSpec == ProcessInit /\ [][ProcessNext]_allVars /\ Fairness /\ oidc!Fairness

(* Every variable of the process has its type: no caller is told that its  *)
(* token was refused when it is FreeScout that refuses the connector's     *)
(* (writeOpResult, rest.go:250), and no login waits twice.                 *)
ProcessTypeOK == TypeOK /\ oidc!TypeOK

(* Every login that asks for the provider's endpoints gets them or an      *)
(* error, behind however many others that fail, and beside any calls.      *)
LoginAnswered == oidc!LoginAnswered
=============================================================================
