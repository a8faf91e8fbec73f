------------------------------- MODULE Parties -------------------------------
(***************************************************************************)
(* The addresses of a group that the contracts of contracts/BAC name.      *)
(***************************************************************************)
EXTENDS FiniteSets

CONSTANTS
  Accounts,  \* addresses
  Users,     \* those that send transactions, the others are contracts
  Deployer,  \* the user who deployed the contracts
  This,      \* the contract that uses the assets of others
  None       \* the zero address

ASSUME PartiesAssumption ==
  /\ IsFiniteSet(Accounts) /\ Users \subseteq Accounts
  /\ Deployer \in Users
  /\ This \in Accounts \ Users
  /\ None \notin Accounts
=============================================================================
