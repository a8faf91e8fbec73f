------------------------- MODULE ContractDeployProofs -------------------------
(***************************************************************************)
(* Proofs about ContractDeploy, for all sets of services, workers and       *)
(* versions.                                                                *)
(***************************************************************************)
EXTENDS ContractDeploy, TLAPS

(* What is recorded is a contract of the right place.                       *)
RowsAgree ==
  \A p \in Places, v \in Versions :
    contractDeploy[p][v] # None =>
      contractDeploy[p][v] <= Len(contracts) /\ contracts[contractDeploy[p][v]] = p

(* So is what the service s is about to record, and what it uses is recorded. *)
SaveAgrees(s) ==
  stage[s] = "save" =>
    deployed[s] <= Len(contracts) /\ contracts[deployed[s]] = Place(s)

CoreAgrees(s) ==
  \A p \in Places :
    coreAddress[s][p] # None =>
      /\ stage[s] # "down"
      /\ coreAddress[s][p] = contractDeploy[p][version[s]]

(* The types of the variables of the chain and of the services.             *)
ChainTypeOK ==
  /\ contractDeploy \in [Places -> [Versions -> Addresses \cup {None}]]
  /\ contracts \in Seq(Places) /\ Len(contracts) <= MaxContracts

ServiceTypeOK ==
  /\ stage \in [Services -> {"down", "find", "deploy", "save", "running"}]
  /\ worker \in [Services -> Nat]
  /\ version \in [Services -> Versions \cup {None}]
  /\ deployed \in [Services -> Addresses \cup {None}]
  /\ coreAddress \in [Services -> [Places -> Addresses \cup {None}]]

(* What the fields of one service say together.                             *)
StageOK(s) ==
  /\ stage[s] # "down" => version[s] \in Versions
  /\ stage[s] = "down" => worker[s] = 0
  /\ stage[s] \in {"find", "deploy", "save"} => worker[s] \in 1..Len(Workers[s])
  /\ deployed[s] # None <=> stage[s] = "save"

(* The inductive invariant.                                                 *)
Inv ==
  /\ ChainTypeOK /\ ServiceTypeOK /\ RowsAgree
  /\ \A s \in Services : StageOK(s) /\ SaveAgrees(s) /\ CoreAgrees(s)

-----------------------------------------------------------------------------
(* A service that is initialising a worker has a place in hand, and a row    *)
(* to look at.                                                              *)
LEMMA PlaceInHand ==
  ASSUME ChainTypeOK, NEW s \in Services, StageOK(s), stage[s] \in {"find", "deploy", "save"}
  PROVE  /\ Place(s) \in Places /\ version[s] \in Versions
         /\ Recorded(s) \in Addresses \cup {None}
         /\ worker[s] \in 1..Len(Workers[s]) /\ Len(Workers[s]) \in Nat
  <1>1. worker[s] \in 1..Len(Workers[s]) /\ version[s] \in Versions
    BY DEF StageOK
  <1>2. Workers[s] \in Seq(Places)
    BY DeployAssumption
  <1>3. Place(s) \in Places /\ Len(Workers[s]) \in Nat
    BY <1>1, <1>2 DEF Place
  <1>4. contractDeploy \in [Places -> [Versions -> Addresses \cup {None}]]
    BY DEF ChainTypeOK
  <1>5. Recorded(s) \in Addresses \cup {None}
    BY <1>1, <1>3, <1>4 DEF Recorded
  <1> QED BY <1>1, <1>3, <1>5

(* The variables of all services but one are as they were.                  *)
Others(s) ==
  \A t \in Services : t # s =>
    /\ stage'[t] = stage[t] /\ worker'[t] = worker[t] /\ version'[t] = version[t]
    /\ deployed'[t] = deployed[t] /\ coreAddress'[t] = coreAddress[t]

(* What the end of a process does.                                          *)
Exited(s) ==
  /\ ServiceTypeOK' /\ Others(s)
  /\ stage'[s] = "down" /\ worker'[s] = 0 /\ deployed'[s] = None
  /\ \A p \in Places : coreAddress'[s][p] = None

(* What a process that ends leaves behind. *)
LEMMA ExitEffect ==
  ASSUME ServiceTypeOK, NEW s \in Services, Exit(s)
  PROVE  Exited(s)
  <1>1. [p \in Places |-> None] \in [Places -> Addresses \cup {None}]
    OBVIOUS
  <1>2. ServiceTypeOK'
    BY <1>1 DEF Exit, ServiceTypeOK
  <1>3. Others(s)
    BY DEF Exit, ServiceTypeOK, Others
  <1>4. stage'[s] = "down" /\ worker'[s] = 0 /\ deployed'[s] = None
    BY DEF Exit, ServiceTypeOK
  <1>5. \A p \in Places : coreAddress'[s][p] = None
    BY DEF Exit, ServiceTypeOK
  <1> QED BY <1>2, <1>3, <1>4, <1>5 DEF Exited

(* What the transition to the next worker does.                             *)
LEMMA NextWorkerEffect ==
  ASSUME ServiceTypeOK, NEW s \in Services, NextWorker(s), worker[s] <= Len(Workers[s])
  PROVE  /\ worker' \in [Services -> Nat]
         /\ stage' \in [Services -> {"down", "find", "deploy", "save", "running"}]
         /\ \A t \in Services : t # s => worker'[t] = worker[t] /\ stage'[t] = stage[t]
         /\ stage'[s] \in {"find", "running"}
         /\ stage'[s] = "find" => worker'[s] \in 1..Len(Workers[s])
  <1>1. Workers[s] \in Seq(Places)
    BY DeployAssumption
  <1>2. Len(Workers[s]) \in Nat /\ worker[s] \in Nat
    BY <1>1 DEF ServiceTypeOK
  <1>3. /\ worker' = [worker EXCEPT ![s] = worker[s] + 1]
        /\ stage' = [stage EXCEPT
             ![s] = IF worker[s] < Len(Workers[s]) THEN "find" ELSE "running"]
    BY DEF NextWorker
  <1>4. /\ worker' \in [Services -> Nat] /\ worker'[s] = worker[s] + 1
        /\ \A t \in Services : t # s => worker'[t] = worker[t]
    BY <1>2, <1>3 DEF ServiceTypeOK
  <1>5. /\ stage' \in [Services -> {"down", "find", "deploy", "save", "running"}]
        /\ stage'[s] = IF worker[s] < Len(Workers[s]) THEN "find" ELSE "running"
        /\ \A t \in Services : t # s => stage'[t] = stage[t]
    BY <1>3 DEF ServiceTypeOK
  <1> QED BY <1>2, <1>4, <1>5

-----------------------------------------------------------------------------
(* Rows stay, and so do contracts.                                          *)
Grows ==
  /\ \A p \in Places, v \in Versions :
       contractDeploy[p][v] # None => contractDeploy'[p][v] = contractDeploy[p][v]
  /\ Len(contracts) <= Len(contracts')
  /\ \A a \in 1..Len(contracts) : contracts'[a] = contracts[a]

(* A step of s that only adds rows and contracts leaves the others right.   *)
LEMMA OthersKept ==
  ASSUME Inv, Grows, NEW s \in Services, Others(s), ChainTypeOK',
         NEW t \in Services, t # s
  PROVE  StageOK(t)' /\ SaveAgrees(t)' /\ CoreAgrees(t)'
  <1>1. /\ stage'[t] = stage[t] /\ worker'[t] = worker[t] /\ version'[t] = version[t]
        /\ deployed'[t] = deployed[t] /\ coreAddress'[t] = coreAddress[t]
    BY DEF Others
  <1>2. StageOK(t) /\ SaveAgrees(t) /\ CoreAgrees(t)
    BY DEF Inv
  <1>3. StageOK(t)'
    BY <1>1, <1>2 DEF StageOK
  <1>4. MaxContracts \in Nat /\ Len(contracts) \in Nat /\ Len(contracts') \in Nat
    BY DeployAssumption DEF Inv, ChainTypeOK
  <1>5. ASSUME stage'[t] = "save"
        PROVE  deployed'[t] <= Len(contracts') /\ contracts'[deployed'[t]] = Place(t)'
    <2>1. deployed[t] <= Len(contracts) /\ contracts[deployed[t]] = Place(t)
      BY <1>1, <1>2, <1>5 DEF SaveAgrees
    <2>2. deployed[t] \in Addresses
      BY <1>1, <1>2, <1>5 DEF StageOK, Inv, ServiceTypeOK
    <2>3. deployed[t] \in 1..Len(contracts)
      BY <1>4, <2>1, <2>2 DEF Addresses
    <2>4. Place(t)' = Place(t)
      BY <1>1 DEF Place
    <2> QED BY <1>1, <1>4, <2>1, <2>3, <2>4 DEF Grows
  <1>6. ASSUME NEW p \in Places, coreAddress'[t][p] # None
        PROVE  stage'[t] # "down" /\ coreAddress'[t][p] = contractDeploy'[p][version'[t]]
    <2>1. stage[t] # "down" /\ coreAddress[t][p] = contractDeploy[p][version[t]]
      BY <1>1, <1>2, <1>6 DEF CoreAgrees
    <2>2. version[t] \in Versions
      BY <1>2, <2>1 DEF StageOK
    <2> QED BY <1>1, <1>6, <2>1, <2>2 DEF Grows
  <1> QED BY <1>3, <1>5, <1>6 DEF SaveAgrees, CoreAgrees

(* What remains to show of a step of s.                                     *)
LEMMA StepKeepsInv ==
  ASSUME Inv, Grows, NEW s \in Services, Others(s), ChainTypeOK', ServiceTypeOK',
         RowsAgree', StageOK(s)', SaveAgrees(s)', CoreAgrees(s)'
  PROVE  Inv'
  <1>1. ASSUME NEW t \in Services
        PROVE  StageOK(t)' /\ SaveAgrees(t)' /\ CoreAgrees(t)'
    BY OthersKept
  <1> QED BY <1>1 DEF Inv

(* A step that leaves table and chain alone keeps what they agree on.       *)
LEMMA ChainKept ==
  ASSUME Inv, UNCHANGED chainVars
  PROVE  Grows /\ ChainTypeOK' /\ RowsAgree'
  <1>1. contractDeploy' = contractDeploy /\ contracts' = contracts
    BY DEF chainVars
  <1>2. ChainTypeOK /\ RowsAgree
    BY DEF Inv
  <1>3. Len(contracts) \in Nat
    BY <1>2 DEF ChainTypeOK
  <1>4. ChainTypeOK'
    BY <1>1, <1>2 DEF ChainTypeOK
  <1>5. RowsAgree'
    BY <1>1, <1>2 DEF RowsAgree
  <1> QED BY <1>1, <1>3, <1>4, <1>5 DEF Grows

(* A process that has ended is right about everything.                      *)
LEMMA ExitedAgrees ==
  ASSUME NEW s \in Services, Exited(s)
  PROVE  StageOK(s)' /\ SaveAgrees(s)' /\ CoreAgrees(s)'
  BY DEF Exited, StageOK, SaveAgrees, CoreAgrees

(* A process that starts knows no core yet. *)
LEMMA StartStep ==
  ASSUME Inv, NEW s \in Services, NEW v \in Versions, Start(s, v)
  PROVE  Inv'
  <1>1. /\ stage[s] = "down" /\ NextWorker(s) /\ UNCHANGED chainVars
        /\ version' = [version EXCEPT ![s] = v]
        /\ deployed' = deployed /\ coreAddress' = coreAddress
    BY DEF Start
  <1>2. StageOK(s) /\ CoreAgrees(s) /\ ServiceTypeOK
    BY DEF Inv
  <1>3. worker[s] = 0 /\ deployed[s] = None
    BY <1>1, <1>2 DEF StageOK
  <1>4. Len(Workers[s]) \in Nat
    BY DeployAssumption
  <1>5. worker[s] <= Len(Workers[s])
    BY <1>3, <1>4
  <1>6. /\ worker' \in [Services -> Nat]
        /\ stage' \in [Services -> {"down", "find", "deploy", "save", "running"}]
        /\ \A t \in Services : t # s => worker'[t] = worker[t] /\ stage'[t] = stage[t]
        /\ stage'[s] \in {"find", "running"}
        /\ stage'[s] = "find" => worker'[s] \in 1..Len(Workers[s])
    BY <1>1, <1>2, <1>5, NextWorkerEffect
  <1>7. /\ version' \in [Services -> Versions \cup {None}] /\ version'[s] = v
        /\ \A t \in Services : t # s => version'[t] = version[t]
    BY <1>1, <1>2 DEF ServiceTypeOK
  <1>8. ServiceTypeOK'
    BY <1>1, <1>2, <1>6, <1>7 DEF ServiceTypeOK
  <1>9. Others(s)
    BY <1>1, <1>6, <1>7 DEF Others
  <1>10. StageOK(s)' /\ SaveAgrees(s)'
    BY <1>1, <1>3, <1>6, <1>7 DEF StageOK, SaveAgrees
  <1>11. CoreAgrees(s)'
    BY <1>1, <1>2 DEF CoreAgrees
  <1> QED BY <1>1, <1>8, <1>9, <1>10, <1>11, ChainKept, StepKeepsInv

-----------------------------------------------------------------------------
(* A worker whose address is recorded, and agrees with the table after the  *)
(* step, leaves its service in order.                                       *)
LEMMA LoadedAgrees ==
  ASSUME Inv, NEW s \in Services, stage[s] \in {"find", "deploy", "save"},
         NEW a \in Addresses, Loaded(s, a),
         version' = version,
         deployed' \in [Services -> Addresses \cup {None}], deployed'[s] = None,
         \A t \in Services : t # s => deployed'[t] = deployed[t],
         Grows, contractDeploy'[Place(s)][version[s]] = a
  PROVE  /\ Others(s) /\ ServiceTypeOK'
         /\ StageOK(s)' /\ SaveAgrees(s)' /\ CoreAgrees(s)'
  <1>1. /\ coreAddress' = [coreAddress EXCEPT ![s][Place(s)] = a]
        /\ NextWorker(s)
    BY DEF Loaded
  <1>2. ChainTypeOK /\ ServiceTypeOK /\ StageOK(s) /\ CoreAgrees(s)
    BY DEF Inv
  <1>3. /\ Place(s) \in Places /\ version[s] \in Versions
        /\ worker[s] \in 1..Len(Workers[s]) /\ Len(Workers[s]) \in Nat
    BY <1>2, PlaceInHand
  <1>4. worker[s] <= Len(Workers[s])
    BY <1>3
  <1>5. /\ worker' \in [Services -> Nat]
        /\ stage' \in [Services -> {"down", "find", "deploy", "save", "running"}]
        /\ \A t \in Services : t # s => worker'[t] = worker[t] /\ stage'[t] = stage[t]
        /\ stage'[s] \in {"find", "running"}
        /\ stage'[s] = "find" => worker'[s] \in 1..Len(Workers[s])
    BY <1>1, <1>2, <1>4, NextWorkerEffect
  <1>6. /\ coreAddress' \in [Services -> [Places -> Addresses \cup {None}]]
        /\ coreAddress'[s] = [coreAddress[s] EXCEPT ![Place(s)] = a]
        /\ \A t \in Services : t # s => coreAddress'[t] = coreAddress[t]
    BY <1>1, <1>2, <1>3 DEF ServiceTypeOK
  <1>7. ServiceTypeOK'
    BY <1>2, <1>5, <1>6 DEF ServiceTypeOK
  <1>8. Others(s)
    BY <1>5, <1>6 DEF Others
  <1>9. StageOK(s)' /\ SaveAgrees(s)'
    BY <1>3, <1>5 DEF StageOK, SaveAgrees
  <1>10. ASSUME NEW p \in Places, coreAddress'[s][p] # None
         PROVE  stage'[s] # "down" /\ coreAddress'[s][p] = contractDeploy'[p][version'[s]]
    <2>1. CASE p = Place(s)
      BY <1>2, <1>5, <1>6, <2>1 DEF ServiceTypeOK
    <2>2. CASE p # Place(s)
      <3>1. coreAddress'[s][p] = coreAddress[s][p]
        BY <1>2, <1>6, <2>2 DEF ServiceTypeOK
      <3>2. coreAddress[s][p] = contractDeploy[p][version[s]]
        BY <1>2, <1>10, <3>1 DEF CoreAgrees
      <3> QED BY <1>3, <1>5, <1>10, <3>1, <3>2 DEF Grows
    <2> QED BY <2>1, <2>2
  <1>11. CoreAgrees(s)'
    BY <1>10 DEF CoreAgrees
  <1> QED BY <1>7, <1>8, <1>9, <1>11

(* Using a recorded core is right because rows name cores of their place. *)
LEMMA FindStep ==
  ASSUME Inv, NEW s \in Services, Find(s)
  PROVE  Inv' /\ Grows
  <1>1. /\ stage[s] = "find" /\ UNCHANGED chainVars
        /\ version' = version /\ deployed' = deployed
    BY DEF Find
  <1>2. ChainTypeOK /\ ServiceTypeOK /\ StageOK(s) /\ CoreAgrees(s)
    BY DEF Inv
  <1>3. Grows /\ ChainTypeOK' /\ RowsAgree'
    BY <1>1, ChainKept
  <1>4. /\ Place(s) \in Places /\ version[s] \in Versions
        /\ Recorded(s) \in Addresses \cup {None}
    BY <1>1, <1>2, PlaceInHand
  <1>5. deployed[s] = None
    BY <1>1, <1>2 DEF StageOK
  <1>6. CASE Recorded(s) # None /\ Loaded(s, Recorded(s))
    <2>1. Recorded(s) \in Addresses
      BY <1>4, <1>6
    <2>2. contractDeploy'[Place(s)][version[s]] = Recorded(s)
      BY <1>1 DEF chainVars, Recorded
    <2>3. deployed' \in [Services -> Addresses \cup {None}]
      BY <1>1, <1>2 DEF ServiceTypeOK
    <2>4. /\ Others(s) /\ ServiceTypeOK'
          /\ StageOK(s)' /\ SaveAgrees(s)' /\ CoreAgrees(s)'
      BY <1>1, <1>3, <1>5, <1>6, <2>1, <2>2, <2>3, LoadedAgrees
    <2> QED BY <1>3, <2>4, StepKeepsInv
  <1>7. CASE /\ stage' = [stage EXCEPT ![s] = "deploy"]
             /\ UNCHANGED <<worker, coreAddress>>
    <2>1. ServiceTypeOK' /\ stage'[s] = "deploy"
      BY <1>1, <1>2, <1>7 DEF ServiceTypeOK
    <2>2. Others(s)
      BY <1>1, <1>2, <1>7 DEF ServiceTypeOK, Others
    <2>3. StageOK(s)' /\ SaveAgrees(s)'
      BY <1>1, <1>2, <1>7, <2>1 DEF StageOK, SaveAgrees
    <2>4. CoreAgrees(s)'
      BY <1>1, <1>2, <1>7, <2>1 DEF CoreAgrees, chainVars
    <2> QED BY <1>3, <2>1, <2>2, <2>3, <2>4, StepKeepsInv
  <1> QED BY <1>6, <1>7 DEF Find

(* A crash forgets what was deployed and not recorded. *)
LEMMA CrashStep ==
  ASSUME Inv, NEW s \in Services, Crash(s)
  PROVE  Inv' /\ Grows
  <1>1. Exit(s) /\ UNCHANGED chainVars
    BY DEF Crash
  <1>2. Grows /\ ChainTypeOK' /\ RowsAgree'
    BY <1>1, ChainKept
  <1>3. Exited(s)
    BY <1>1, ExitEffect DEF Inv
  <1>4. StageOK(s)' /\ SaveAgrees(s)' /\ CoreAgrees(s)'
    BY <1>3, ExitedAgrees
  <1>5. Others(s) /\ ServiceTypeOK'
    BY <1>3 DEF Exited
  <1> QED BY <1>2, <1>4, <1>5, StepKeepsInv

(* A new contract is of the place it is deployed at, and not yet recorded. *)
LEMMA DeployStep ==
  ASSUME Inv, NEW s \in Services, Deploy(s)
  PROVE  Inv' /\ Grows
  <1>1. /\ stage[s] = "deploy" /\ Len(contracts) < MaxContracts
        /\ contracts' = Append(contracts, Place(s))
        /\ contractDeploy' = contractDeploy
    BY DEF Deploy
  <1>2. ChainTypeOK /\ ServiceTypeOK /\ RowsAgree /\ StageOK(s) /\ CoreAgrees(s)
    BY DEF Inv
  <1>3. /\ Place(s) \in Places /\ version[s] \in Versions
    BY <1>1, <1>2, PlaceInHand
  <1>4. contracts \in Seq(Places) /\ Len(contracts) \in Nat /\ MaxContracts \in Nat
    BY <1>2, DeployAssumption DEF ChainTypeOK
  <1>5. /\ contracts' \in Seq(Places) /\ Len(contracts') = Len(contracts) + 1
        /\ \A a \in 1..Len(contracts) : contracts'[a] = contracts[a]
        /\ contracts'[Len(contracts) + 1] = Place(s)
    BY <1>1, <1>3, <1>4
  <1>6. ChainTypeOK'
    BY <1>1, <1>2, <1>4, <1>5 DEF ChainTypeOK
  <1>7. Grows
    BY <1>1, <1>4, <1>5 DEF Grows
  <1>8. ASSUME NEW p \in Places, NEW v \in Versions, contractDeploy[p][v] # None
        PROVE  /\ contractDeploy[p][v] <= Len(contracts')
               /\ contracts'[contractDeploy[p][v]] = p
    <2>1. contractDeploy[p][v] <= Len(contracts) /\ contracts[contractDeploy[p][v]] = p
      BY <1>2, <1>8 DEF RowsAgree
    <2>2. contractDeploy[p][v] \in Addresses
      BY <1>2, <1>8 DEF ChainTypeOK
    <2>3. contractDeploy[p][v] \in 1..Len(contracts)
      BY <1>4, <2>1, <2>2 DEF Addresses
    <2> QED BY <1>4, <1>5, <2>1, <2>3
  <1>9. RowsAgree'
    BY <1>1, <1>8 DEF RowsAgree
  <1>10. CASE /\ stage' = [stage EXCEPT ![s] = "save"]
              /\ deployed' = [deployed EXCEPT ![s] = Len(contracts) + 1]
              /\ UNCHANGED <<worker, version, coreAddress>>
    <2>1. Len(contracts) + 1 \in Addresses /\ Len(contracts) + 1 # None
      BY <1>1, <1>4, DeployAssumption DEF Addresses
    <2>2. /\ ServiceTypeOK'
          /\ stage'[s] = "save" /\ deployed'[s] = Len(contracts) + 1
      BY <1>2, <1>10, <2>1 DEF ServiceTypeOK
    <2>3. Others(s)
      BY <1>2, <1>10 DEF ServiceTypeOK, Others
    <2>4. StageOK(s)'
      BY <1>1, <1>2, <1>10, <2>1, <2>2 DEF StageOK
    <2>5. Place(s)' = Place(s)
      BY <1>10 DEF Place
    <2>6. SaveAgrees(s)'
      BY <1>4, <1>5, <2>2, <2>5 DEF SaveAgrees
    <2>7. CoreAgrees(s)'
      BY <1>1, <1>2, <1>10, <2>2 DEF CoreAgrees
    <2> QED BY <1>6, <1>7, <1>9, <2>2, <2>3, <2>4, <2>6, <2>7, StepKeepsInv
  <1>11. CASE Exit(s)
    <2>1. Exited(s)
      BY <1>2, <1>11, ExitEffect
    <2>2. StageOK(s)' /\ SaveAgrees(s)' /\ CoreAgrees(s)'
      BY <2>1, ExitedAgrees
    <2>3. Others(s) /\ ServiceTypeOK'
      BY <2>1 DEF Exited
    <2> QED BY <1>6, <1>7, <1>9, <2>2, <2>3, StepKeepsInv
  <1> QED BY <1>10, <1>11 DEF Deploy

(* The unique index lets one of two racing services record its core. *)
LEMMA SaveStep ==
  ASSUME Inv, NEW s \in Services, Save(s)
  PROVE  Inv' /\ Grows
  <1>1. stage[s] = "save" /\ contracts' = contracts
    BY DEF Save
  <1>2. /\ ChainTypeOK /\ ServiceTypeOK /\ RowsAgree
        /\ StageOK(s) /\ SaveAgrees(s) /\ CoreAgrees(s)
    BY DEF Inv
  <1>3. Place(s) \in Places /\ version[s] \in Versions
    BY <1>1, <1>2, PlaceInHand
  <1>4. deployed[s] \in Addresses /\ deployed[s] # None
    BY <1>1, <1>2 DEF StageOK, ServiceTypeOK
  <1>5. Len(contracts) \in Nat
    BY <1>2 DEF ChainTypeOK
  <1>6. CASE /\ Recorded(s) = None
             /\ contractDeploy' =
                  [contractDeploy EXCEPT ![Place(s)][version[s]] = deployed[s]]
             /\ deployed' = [deployed EXCEPT ![s] = None]
             /\ Loaded(s, deployed[s])
             /\ UNCHANGED version
    <2>1. /\ contractDeploy' \in [Places -> [Versions -> Addresses \cup {None}]]
          /\ \A p \in Places, v \in Versions :
               contractDeploy'[p][v] = IF p = Place(s) /\ v = version[s]
                                         THEN deployed[s] ELSE contractDeploy[p][v]
      BY <1>2, <1>3, <1>4, <1>6 DEF ChainTypeOK
    <2>2. ChainTypeOK'
      BY <1>1, <1>2, <2>1 DEF ChainTypeOK
    <2>3. contractDeploy[Place(s)][version[s]] = None
      BY <1>6 DEF Recorded
    <2>4. Grows
      BY <1>1, <1>5, <2>1, <2>3 DEF Grows
    <2>5. deployed[s] <= Len(contracts) /\ contracts[deployed[s]] = Place(s)
      BY <1>1, <1>2 DEF SaveAgrees
    <2>6. RowsAgree'
      BY <1>1, <1>2, <2>1, <2>5 DEF RowsAgree
    <2>7. contractDeploy'[Place(s)][version[s]] = deployed[s]
      BY <1>3, <2>1
    <2>8. /\ deployed' \in [Services -> Addresses \cup {None}] /\ deployed'[s] = None
          /\ \A t \in Services : t # s => deployed'[t] = deployed[t]
      BY <1>2, <1>6 DEF ServiceTypeOK
    <2>9. Loaded(s, deployed[s]) /\ version' = version
      BY <1>6
    <2>10. /\ Others(s) /\ ServiceTypeOK'
           /\ StageOK(s)' /\ SaveAgrees(s)' /\ CoreAgrees(s)'
      BY <1>1, <1>4, <2>4, <2>7, <2>8, <2>9, LoadedAgrees
    <2> QED BY <2>2, <2>4, <2>6, <2>10, StepKeepsInv
  <1>7. CASE Exit(s) /\ UNCHANGED contractDeploy
    <2>1. UNCHANGED chainVars
      BY <1>1, <1>7 DEF chainVars
    <2>2. Grows /\ ChainTypeOK' /\ RowsAgree'
      BY <2>1, ChainKept
    <2>3. Exited(s)
      BY <1>2, <1>7, ExitEffect
    <2>4. StageOK(s)' /\ SaveAgrees(s)' /\ CoreAgrees(s)'
      BY <2>3, ExitedAgrees
    <2>5. Others(s) /\ ServiceTypeOK'
      BY <2>3 DEF Exited
    <2> QED BY <2>2, <2>4, <2>5, StepKeepsInv
  <1> QED BY <1>6, <1>7 DEF Save

-----------------------------------------------------------------------------
(* Nothing is deployed or recorded at first. *)
LEMMA DeployInitInv ==
  ASSUME DeployInit
  PROVE  Inv
  <1>1. ChainTypeOK
    BY DeployAssumption DEF DeployInit, ChainTypeOK
  <1>2. ServiceTypeOK
    BY DEF DeployInit, ServiceTypeOK
  <1>3. RowsAgree
    BY DEF DeployInit, RowsAgree
  <1>4. ASSUME NEW s \in Services
        PROVE  StageOK(s) /\ SaveAgrees(s) /\ CoreAgrees(s)
    BY DEF DeployInit, StageOK, SaveAgrees, CoreAgrees
  <1> QED BY <1>1, <1>2, <1>3, <1>4 DEF Inv

(* Every step keeps the invariant, and all rows and contracts. *)
LEMMA InvStep ==
  ASSUME Inv, [DeployNext]_vars
  PROVE  Inv' /\ Grows
  <1>1. ASSUME NEW s \in Services, NEW v \in Versions, Start(s, v)
        PROVE  Inv' /\ Grows
    <2>1. UNCHANGED chainVars
      BY <1>1 DEF Start
    <2> QED BY <1>1, <2>1, StartStep, ChainKept
  <1>2. ASSUME NEW s \in Services, Find(s) \/ Deploy(s) \/ Save(s) \/ Crash(s)
        PROVE  Inv' /\ Grows
    BY <1>2, FindStep, DeployStep, SaveStep, CrashStep
  <1>3. CASE UNCHANGED vars
    <2>1. /\ UNCHANGED chainVars /\ stage' = stage /\ worker' = worker
          /\ version' = version /\ deployed' = deployed /\ coreAddress' = coreAddress
      BY <1>3 DEF vars, serviceVars
    <2>2. Grows /\ ChainTypeOK' /\ RowsAgree'
      BY <2>1, ChainKept
    <2>3. contractDeploy' = contractDeploy /\ contracts' = contracts
      BY <2>1 DEF chainVars
    <2>4. ServiceTypeOK'
      BY <2>1 DEF Inv, ServiceTypeOK
    <2>5. ASSUME NEW s \in Services
          PROVE  StageOK(s)' /\ SaveAgrees(s)' /\ CoreAgrees(s)'
      <3>1. StageOK(s) /\ SaveAgrees(s) /\ CoreAgrees(s)
        BY DEF Inv
      <3> QED BY <2>1, <2>3, <3>1 DEF StageOK, SaveAgrees, CoreAgrees, Place
    <2> QED BY <2>2, <2>4, <2>5 DEF Inv
  <1> QED BY <1>1, <1>2, <1>3 DEF DeployNext

(* The inductive invariant implies the types. *)
LEMMA InvImpliesTypeOK ==
  ASSUME Inv
  PROVE  DeployTypeOK
  BY DEF Inv, ChainTypeOK, ServiceTypeOK, StageOK, DeployTypeOK

(* It implies that the services agree. *)
LEMMA InvImpliesCoresAgree ==
  ASSUME Inv
  PROVE  CoresAgree
  <1>1. ASSUME NEW s \in Services, NEW p \in Places, coreAddress[s][p] # None
        PROVE  /\ stage[s] # "down"
               /\ coreAddress[s][p] = contractDeploy[p][version[s]]
               /\ coreAddress[s][p] <= Len(contracts)
               /\ contracts[coreAddress[s][p]] = p
    <2>1. stage[s] # "down" /\ coreAddress[s][p] = contractDeploy[p][version[s]]
      BY <1>1 DEF Inv, CoreAgrees
    <2>2. version[s] \in Versions
      BY <2>1 DEF Inv, StageOK
    <2> QED BY <1>1, <2>1, <2>2 DEF Inv, RowsAgree
  <1> QED BY <1>1 DEF CoresAgree

-----------------------------------------------------------------------------
(* Type correctness: the stages, workers, rows and addresses of every       *)
(* number of services fit together, as DeployTypeOK says.                   *)
THEOREM DeployTypeCorrect == DeploySpec => []DeployTypeOK
  <1>1. DeployInit => Inv
    BY DeployInitInv
  <1>2. Inv /\ [DeployNext]_vars => Inv'
    BY InvStep
  <1>3. Inv => DeployTypeOK
    BY InvImpliesTypeOK
  <1> QED BY <1>1, <1>2, <1>3, PTL DEF DeploySpec

(* Services that race, fail and restart in loadOrDeployContract never use   *)
(* two cores for the same place and version.                                *)
THEOREM CoresAlwaysAgree == DeploySpec => []CoresAgree
  <1>1. DeployInit => Inv
    BY DeployInitInv
  <1>2. Inv /\ [DeployNext]_vars => Inv'
    BY InvStep
  <1>3. Inv => CoresAgree
    BY InvImpliesCoresAgree
  <1> QED BY <1>1, <1>2, <1>3, PTL DEF DeploySpec

(* No step changes an address that contract_deploy holds: the unique index  *)
(* stops the second service that deploys.                                   *)
THEOREM RecordedForEver == DeploySpec => RecordedStays
  <1>1. DeployInit => Inv
    BY DeployInitInv
  <1>2. Inv /\ [DeployNext]_vars => Inv'
    BY InvStep
  <1>3. Inv /\ [DeployNext]_vars =>
          [\A p \in Places, v \in Versions :
             contractDeploy[p][v] # None => contractDeploy'[p][v] = contractDeploy[p][v]]_vars
    BY InvStep DEF Grows
  <1> QED BY <1>1, <1>2, <1>3, PTL DEF DeploySpec, RecordedStays
=============================================================================
