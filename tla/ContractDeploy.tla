---------------------------- MODULE ContractDeploy ----------------------------
(***************************************************************************)
(* How the services of generation 3 come by the addresses of their cores    *)
(* (bcos3runner): on start, Bcos3EventRunner initialises one worker after   *)
(* the other; each looks for the address of its core in contract_deploy,    *)
(* and deploys and records a new core when there is none. Find, deployment  *)
(* and record are steps of their own, and services start, fail and race.    *)
(*                                                                         *)
(* A place is a chain, a group and a type of core. An address is the number *)
(* of the contract, in the order of deployment.                             *)
(*                                                                         *)
(* isContractAddressValid only loads a wrapper for the address, which       *)
(* succeeds for any address that is not blank, and a blank one is never     *)
(* recorded; the branch that deletes a row is left out, therefore.          *)
(***************************************************************************)
EXTENDS Naturals, Sequences

CONSTANTS
  Services,      \* processes that share the database
  Places,        \* chains, groups and types of cores
  Workers,       \* Workers[s]: the places of the workers s starts, in order
  Versions,      \* values of oracleCoreVersion
  MaxContracts,  \* bound: contracts that are deployed
  None           \* no address, no version

ASSUME DeployAssumption ==
  /\ Workers \in [Services -> Seq(Places)]
  /\ MaxContracts \in Nat
  /\ None \notin 1..MaxContracts

VARIABLES
  contractDeploy,   \* contractDeploy[p][v]: contract_address of the row, or None
  contracts,        \* contracts[a]: the place the contract at a was deployed for
  stage,            \* stage[s]: what the process s does next
  worker,           \* worker[s]: how many workers s has begun to initialise
  version,          \* version[s]: oracleCoreVersion in the configuration of s
  deployed,         \* deployed[s]: the address that s has yet to record
  coreAddress       \* coreAddress[s][p]: CoreAddress of the configuration, or None

chainVars == <<contractDeploy, contracts>>
serviceVars == <<stage, worker, version, deployed, coreAddress>>
vars == <<chainVars, serviceVars>>

Addresses == 1..MaxContracts

DeployInit ==
  /\ contractDeploy = [p \in Places |-> [v \in Versions |-> None]]
  /\ contracts = <<>>
  /\ stage = [s \in Services |-> "down"]
  /\ worker = [s \in Services |-> 0]
  /\ version = [s \in Services |-> None]
  /\ deployed = [s \in Services |-> None]
  /\ coreAddress = [s \in Services |-> [p \in Places |-> None]]

-----------------------------------------------------------------------------
(* The place of the worker in hand, and its row. *)
Place(s) == Workers[s][worker[s]]

Recorded(s) == contractDeploy[Place(s)][version[s]]

(* Mutant: one worker too many. *)
NextWorker_OneMore(s) ==
  /\ worker' = [worker EXCEPT ![s] = @ + 1]
  /\ stage' = [stage EXCEPT
       ![s] = IF worker[s] <= Len(Workers[s]) THEN "find" ELSE "running"]

(* The next worker of s, if there is one, looks for its core. *)
NextWorker(s) ==
  /\ worker' = [worker EXCEPT ![s] = @ + 1]
  /\ stage' = [stage EXCEPT
       ![s] = IF worker[s] < Len(Workers[s]) THEN "find" ELSE "running"]

(* The process ends: an exception reaches Bcos3EventRunner.init, or it dies. *)
Exit(s) ==
  /\ stage' = [stage EXCEPT ![s] = "down"]
  /\ worker' = [worker EXCEPT ![s] = 0]
  /\ deployed' = [deployed EXCEPT ![s] = None]
  /\ coreAddress' = [coreAddress EXCEPT ![s] = [p \in Places |-> None]]
  /\ UNCHANGED version

Start(s, v) ==
  /\ stage[s] = "down"
  /\ version' = [version EXCEPT ![s] = v]
  /\ NextWorker(s)
  /\ UNCHANGED <<chainVars, deployed, coreAddress>>

(* initContract: the address is what the worker listens to from here on. *)
Loaded(s, address) ==
  /\ coreAddress' = [coreAddress EXCEPT ![s][Place(s)] = address]
  /\ NextWorker(s)

(* loadOrDeployContract: the query of contract_deploy. *)
Find(s) ==
  /\ stage[s] = "find"
  /\ \/ /\ Recorded(s) # None
        /\ Loaded(s, Recorded(s))
     \/ /\ Recorded(s) = None
        /\ stage' = [stage EXCEPT ![s] = "deploy"]
        /\ UNCHANGED <<worker, coreAddress>>
  /\ UNCHANGED <<chainVars, version, deployed>>

(* Mutant: the address is used before it is recorded. *)
Deploy_SetsAddress(s) ==
  /\ stage[s] = "deploy"
  /\ Len(contracts) < MaxContracts
  /\ contracts' = Append(contracts, Place(s))
  /\ stage' = [stage EXCEPT ![s] = "save"]
  /\ deployed' = [deployed EXCEPT ![s] = Len(contracts) + 1]
  /\ coreAddress' = [coreAddress EXCEPT ![s][Place(s)] = Len(contracts) + 1]
  /\ UNCHANGED <<contractDeploy, worker, version>>

(* deployContract: the contract is there, whether its receipt arrives or not. *)
Deploy(s) ==
  /\ stage[s] = "deploy"
  /\ Len(contracts) < MaxContracts
  /\ contracts' = Append(contracts, Place(s))
  /\ UNCHANGED contractDeploy
  /\ \/ /\ stage' = [stage EXCEPT ![s] = "save"]
        /\ deployed' = [deployed EXCEPT ![s] = Len(contracts) + 1]
        /\ UNCHANGED <<worker, version, coreAddress>>
     \/ Exit(s)

(* Mutant: the table takes a second row of the same place and version. *)
Save_NotUnique(s) ==
  /\ stage[s] = "save"
  /\ contractDeploy' = [contractDeploy EXCEPT ![Place(s)][version[s]] = deployed[s]]
  /\ deployed' = [deployed EXCEPT ![s] = None]
  /\ Loaded(s, deployed[s])
  /\ UNCHANGED <<contracts, version>>

(* save: the table refuses a second row of the same place and version. *)
Save(s) ==
  /\ stage[s] = "save"
  /\ \/ /\ Recorded(s) = None
        /\ contractDeploy' =
             [contractDeploy EXCEPT ![Place(s)][version[s]] = deployed[s]]
        /\ deployed' = [deployed EXCEPT ![s] = None]
        /\ Loaded(s, deployed[s])
        /\ UNCHANGED version
     \/ /\ Recorded(s) # None
        /\ Exit(s)
        /\ UNCHANGED contractDeploy
  /\ UNCHANGED contracts

(* A call fails, or the process is stopped. *)
Crash(s) == stage[s] # "down" /\ Exit(s) /\ UNCHANGED chainVars

DeployNext ==
  \E s \in Services :
    \/ \E v \in Versions : Start(s, v)
    \/ Find(s)
    \/ Deploy(s)
    \/ Save(s)
    \/ Crash(s)

DeploySpec == DeployInit /\ [][DeployNext]_vars

-----------------------------------------------------------------------------
(* Every variable holds a value of its type; there is a worker in hand      *)
(* exactly while a service is between its stages, and an address to record  *)
(* exactly before save.                                                     *)
DeployTypeOK ==
  /\ contractDeploy \in [Places -> [Versions -> Addresses \cup {None}]]
  /\ contracts \in Seq(Places) /\ Len(contracts) <= MaxContracts
  /\ stage \in [Services -> {"down", "find", "deploy", "save", "running"}]
  /\ worker \in [Services -> Nat]
  /\ version \in [Services -> Versions \cup {None}]
  /\ deployed \in [Services -> Addresses \cup {None}]
  /\ coreAddress \in [Services -> [Places -> Addresses \cup {None}]]
  /\ \A s \in Services :
       /\ stage[s] # "down" => version[s] \in Versions
       /\ stage[s] = "down" => worker[s] = 0
       /\ stage[s] \in {"find", "deploy", "save"} => worker[s] \in 1..Len(Workers[s])
       /\ deployed[s] # None <=> stage[s] = "save"

(* Whoever deployed it, and however many services raced or died in between, *)
(* all services of a version use the one core that is recorded for a place, *)
(* and it is a core of this place.                                          *)
CoresAgree ==
  \A s \in Services, p \in Places :
    coreAddress[s][p] # None =>
      /\ stage[s] # "down"
      /\ coreAddress[s][p] = contractDeploy[p][version[s]]
      /\ coreAddress[s][p] <= Len(contracts)
      /\ contracts[coreAddress[s][p]] = p

(* An address that was recorded once stays, so that a consumer constructed  *)
(* with it is listened to after every restart.                              *)
RecordedStays ==
  [][\A p \in Places, v \in Versions :
       contractDeploy[p][v] # None => contractDeploy'[p][v] = contractDeploy[p][v]]_vars
=============================================================================
