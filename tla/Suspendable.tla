----------------------------- MODULE Suspendable -----------------------------
(***************************************************************************)
(* The roles of an asset contract, and its suspension: IssuerRole,         *)
(* SuspenderRole, Suspendable and Roles, which BAC001.sol and BAC002.sol    *)
(* each repeat and inherit.                                                *)
(*                                                                         *)
(* An action is a transaction of account caller that does not revert. The  *)
(* zero address is None.                                                   *)
(***************************************************************************)
EXTENDS Parties

VARIABLES
  issuers,     \* accounts with the role of issuer
  suspenders,  \* accounts with the role of suspender
  suspended    \* the contract is suspended

roleVars == <<issuers, suspenders, suspended>>

RolesInit ==
  /\ issuers = {Deployer}
  /\ suspenders = {Deployer}
  /\ suspended = FALSE

AddIssuer(caller, account) ==
  /\ caller \in issuers /\ account \notin issuers
  /\ issuers' = issuers \cup {account}
  /\ UNCHANGED <<suspenders, suspended>>

RenounceIssuer(caller) ==
  /\ caller \in issuers
  /\ issuers' = issuers \ {caller}
  /\ UNCHANGED <<suspenders, suspended>>

AddSuspender(caller, account) ==
  /\ caller \in suspenders /\ account \notin suspenders
  /\ suspenders' = suspenders \cup {account}
  /\ UNCHANGED <<issuers, suspended>>

RenounceSuspender(caller) ==
  /\ caller \in suspenders
  /\ suspenders' = suspenders \ {caller}
  /\ UNCHANGED <<issuers, suspended>>

Suspend(caller) ==
  /\ caller \in suspenders /\ ~suspended
  /\ suspended' = TRUE
  /\ UNCHANGED <<issuers, suspenders>>

UnSuspend(caller) ==
  /\ caller \in suspenders /\ suspended
  /\ suspended' = FALSE
  /\ UNCHANGED <<issuers, suspenders>>

RolesNext ==
  \E caller \in Users :
    \/ \E account \in Users : AddIssuer(caller, account) \/ AddSuspender(caller, account)
    \/ RenounceIssuer(caller) \/ RenounceSuspender(caller)
    \/ Suspend(caller) \/ UnSuspend(caller)

RolesTypeOK ==
  /\ issuers \subseteq Users
  /\ suspenders \subseteq Users
  /\ suspended \in BOOLEAN
=============================================================================
