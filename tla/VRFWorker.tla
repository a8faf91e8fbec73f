------------------------------ MODULE VRFWorker ------------------------------
(***************************************************************************)
(* A process of Truora-Service as the listener of the VRF cores of a       *)
(* group, with its threads, their thread-locals and the req_history table, *)
(* composed with the contracts of VRFCore. It is either of two             *)
(* generations, the platform:                                              *)
(*   fiscobcos3: VRFK1CoreWorker, VRF25519CoreWorker, AbstractContractWorker *)
(*   fiscobcos2: VRFContractEventCallback, VRFService, AbstractEventCallback *)
(* which take an event through the same steps                              *)
(*   find -> save -> prove -> fulfill -> update                            *)
(* and differ in the source type of the row they save, on which depends    *)
(* where a listener resumes, and whether the update reads thread-locals.   *)
(*                                                                         *)
(* What EventWorker says of pool and batches is taken from there: here all *)
(* threads exist, and no batch is rejected. A proof, the seed it is made   *)
(* for and the randomness it proves determine each other, and are named by *)
(* the same value, Randomness(id, hash).                                   *)
(*                                                                         *)
(* The key of the account is the service's: nobody else makes proofs with  *)
(* it, nor does another service that has a table of its own.               *)
(***************************************************************************)
EXTENDS VRFCore, Sequences

CONSTANTS
  Platforms,   \* generations a group may be of
  Served,      \* Served[platform]: the cores the process listens to
  ServiceKey,  \* hash of the public key of the service's account
  Threads,     \* threads of the pool
  NoResult,    \* the empty result string
  MaxCrashes   \* bound: crashes of a behaviour

ReqStatus == {"SUCCESS", "UNEXPECTED", "UPLOAD_ERROR"}

Outcome == [status : ReqStatus, proof : Outputs \cup {NoResult}]

(* proof is None in a row that was saved and not yet updated; seed and      *)
(* randomness are null (None) in a row that is not of type VRF.             *)
DBReqHistory ==
  [block : Nat, createTime : Nat, sourceType : {"URL", "VRF"}, status : ReqStatus,
   proof : Outputs \cup {NoResult, None},
   actualSeed : Outputs \cup {None}, randomness : Outputs \cup {None}]

ASSUME WorkerAssumption ==
  /\ Platforms \subseteq {"fiscobcos2", "fiscobcos3"}
  /\ Served \in [Platforms -> SUBSET Cores]
  /\ ServiceKey \in KeyHashes
  /\ MaxCrashes \in Nat

ASSUME WorkerNoneAssumption ==
  /\ None # NoResult
  /\ NoResult \notin Outputs
  /\ None \notin DBReqHistory
  /\ None \notin RandomnessRequestEvent

VARIABLES
  platform,     \* generation of chain and service
  reqHistory,   \* reqHistory[id]: row of table req_history, or None
  fromBlock,    \* fromBlock[core]: first block of the subscription, 0 when down
  cursor,       \* cursor[core]: next block the listener is pushed, 0 when down
  queue,        \* batches of events that wait for a thread
  pc,           \* pc[t]: what thread t does next
  current,      \* current[t]: the event in work, or None
  batch,        \* batch[t]: the events after it
  outcome,      \* outcome[t]: reqStatus and result
  actualSeed,   \* actualSeed[t]: thread-local VRF_ACTUAL_SEED, or None
  randomness,   \* randomness[t]: thread-local VRF_RANDOMNESS, or None
  crashes       \* how often the process crashed

threadVars == <<pc, current, batch, outcome>>
threadLocals == <<actualSeed, randomness>>
listenVars == <<fromBlock, cursor>>
workerVars ==
  <<platform, reqHistory, listenVars, queue, threadVars, threadLocals, crashes>>
systemVars == <<vars, workerVars>>

Working == {"find", "save", "prove", "fulfill", "update"}

Success == [status |-> "SUCCESS", proof |-> NoResult]

WorkerInit ==
  /\ Init
  /\ platform \in Platforms
  /\ reqHistory = [id \in RequestId |-> None]
  /\ fromBlock = [core \in Cores |-> 0]
  /\ cursor = [core \in Cores |-> 0]
  /\ queue = <<>>
  /\ pc = [t \in Threads |-> "idle"]
  /\ current = [t \in Threads |-> None]
  /\ batch = [t \in Threads |-> {}]
  /\ outcome = [t \in Threads |-> Success]
  /\ actualSeed = [t \in Threads |-> None]
  /\ randomness = [t \in Threads |-> None]
  /\ crashes = 0

-----------------------------------------------------------------------------
(* The table req_history, and where a listener starts.                     *)

Rows == {id \in RequestId : reqHistory[id] # None}

VRFRows == {id \in Rows : reqHistory[id].sourceType = "VRF"}

(* getLatestRecord(chainId, groupId, VRF): a newest by createTime, which is *)
(* in seconds: rows saved while the chain builds one block tie.             *)
IsLatestRecord(id) ==
  /\ id \in VRFRows
  /\ \A other \in VRFRows : reqHistory[other].createTime <= reqHistory[id].createTime

(* registerEventListener, init: from the block after that of the latest    *)
(* row of type VRF, or from the next block when there is none.             *)
Listen(core) ==
  /\ core \in Served[platform] /\ cursor[core] = 0
  /\ \E from \in 1..MaxBlock + 1 :
       /\ IF VRFRows = {} THEN from = height
          ELSE \E id \in VRFRows : IsLatestRecord(id) /\ from = reqHistory[id].block + 1
       /\ fromBlock' = [fromBlock EXCEPT ![core] = from]
       /\ cursor' = [cursor EXCEPT ![core] = from]
  /\ UNCHANGED <<vars, platform, reqHistory, queue, threadVars, threadLocals, crashes>>

(* The process dies: what it held in memory is gone. *)
Crash ==
  /\ \E core \in Cores : cursor[core] # 0
  /\ crashes < MaxCrashes
  /\ crashes' = crashes + 1
  /\ fromBlock' = [core \in Cores |-> 0]
  /\ cursor' = [core \in Cores |-> 0]
  /\ queue' = <<>>
  /\ pc' = [t \in Threads |-> "idle"]
  /\ current' = [t \in Threads |-> None]
  /\ batch' = [t \in Threads |-> {}]
  /\ outcome' = [t \in Threads |-> Success]
  /\ actualSeed' = [t \in Threads |-> None]
  /\ randomness' = [t \in Threads |-> None]
  /\ UNCHANGED <<vars, platform, reqHistory>>

(* onReceiveLog, onPushEventLog: the node pushes the events of a closed    *)
(* block, blocks in order.                                                 *)
PushLogs(core) ==
  LET pushed == {e \in events : e.core = core /\ e.block = cursor[core]}
  IN  /\ 0 < cursor[core] /\ cursor[core] < height
      /\ cursor' = [cursor EXCEPT ![core] = @ + 1]
      /\ queue' = IF pushed = {} THEN queue ELSE Append(queue, pushed)
      /\ UNCHANGED <<vars, platform, reqHistory, fromBlock, threadVars, threadLocals, crashes>>

-----------------------------------------------------------------------------
(* processSingleLog (fiscobcos3), onPushEventLog and processLog            *)
(* (fiscobcos2), by thread t for the event current[t].                     *)

Goto(t, label) == pc' = [pc EXCEPT ![t] = label]

(* The loop goes on with one of these events. *)
Begin(t, pushed) ==
  \E e \in pushed :
    /\ Goto(t, "find")
    /\ current' = [current EXCEPT ![t] = e]
    /\ batch' = [batch EXCEPT ![t] = pushed \ {e}]
    /\ outcome' = [outcome EXCEPT ![t] = Success]

(* Mutant: the thread keeps its event. *)
Rest_KeepsEvent(t) ==
  /\ Goto(t, "idle")
  /\ batch' = [batch EXCEPT ![t] = {}]
  /\ outcome' = [outcome EXCEPT ![t] = Success]
  /\ UNCHANGED current

(* It has come to its end. *)
Rest(t) ==
  /\ Goto(t, "idle")
  /\ current' = [current EXCEPT ![t] = None]
  /\ batch' = [batch EXCEPT ![t] = {}]
  /\ outcome' = [outcome EXCEPT ![t] = Success]

TakeFromQueue(t) ==
  /\ pc[t] = "idle"
  /\ queue # <<>>
  /\ Begin(t, Head(queue))
  /\ queue' = Tail(queue)
  /\ UNCHANGED <<vars, platform, reqHistory, listenVars, threadLocals, crashes>>

(* Mutant: the loop ends after the first event. *)
NextEvent_FirstOnly(t) == Rest(t)

(* The next turn of the loop. *)
NextEvent(t) == IF batch[t] = {} THEN Rest(t) ELSE Begin(t, batch[t])

(* What the catch clauses and the finally block will write into the row. *)
Finish(t, status, proof) ==
  /\ Goto(t, "update")
  /\ outcome' = [outcome EXCEPT ![t] = [status |-> status, proof |-> proof]]

(* Mutant: the row is not looked for. *)
Find_NoLookup(t) ==
  /\ pc[t] = "find"
  /\ Goto(t, "save") /\ UNCHANGED <<current, batch, outcome>>
  /\ UNCHANGED <<vars, platform, reqHistory, listenVars, queue, threadLocals, crashes>>

(* findByReqId: REQ_ALREADY_EXISTS skips the event, and the update. *)
Find(t) ==
  /\ pc[t] = "find"
  /\ IF reqHistory[current[t].id] # None
     THEN NextEvent(t)
     ELSE Goto(t, "save") /\ UNCHANGED <<current, batch, outcome>>
  /\ UNCHANGED <<vars, platform, reqHistory, listenVars, queue, threadLocals, crashes>>

(* makeDBReqHistory sets the type VRF, then URL; the older runner sets VRF. *)
SourceType == IF platform = "fiscobcos3" THEN "URL" ELSE "VRF"

NewRow(e) ==
  [block |-> e.block, createTime |-> height, sourceType |-> SourceType,
   status |-> "SUCCESS", proof |-> None, actualSeed |-> None, randomness |-> None]

(* Mutant: req_id is not UNIQUE, save overwrites. *)
Save_NotUnique(t) ==
  /\ pc[t] = "save"
  /\ reqHistory' = [reqHistory EXCEPT ![current[t].id] = NewRow(current[t])]
  /\ Goto(t, "prove")
  /\ UNCHANGED <<vars, platform, listenVars, queue, current, batch, outcome, threadLocals, crashes>>

(* save of the new row: the database refuses a second row of a req_id. *)
Save(t) ==
  /\ pc[t] = "save"
  /\ IF reqHistory[current[t].id] # None
     THEN Finish(t, "UNEXPECTED", NoResult) /\ UNCHANGED reqHistory
     ELSE /\ reqHistory' = [reqHistory EXCEPT ![current[t].id] = NewRow(current[t])]
          /\ Goto(t, "prove") /\ UNCHANGED outcome
  /\ UNCHANGED <<vars, platform, listenVars, queue, current, batch, threadLocals, crashes>>

(* Mutant: the service has an empty block hash. *)
BlockHashOf_Empty(e) == 0

(* getBlockHashByNumber of the node: of the block the event tells. *)
BlockHashOf(e) == e.block

(* The block hash is asked for, which may fail; the seed is set; the native *)
(* library makes the proof, and may fail, too.                              *)
Prove(t) ==
  LET value == Randomness(current[t].id, BlockHashOf(current[t]))
  IN  /\ pc[t] = "prove"
      /\ \/ Finish(t, "UNEXPECTED", NoResult) /\ UNCHANGED actualSeed
         \/ /\ actualSeed' = [actualSeed EXCEPT ![t] = value]
            /\ \/ Finish(t, "UNEXPECTED", NoResult)
               \/ /\ Goto(t, "fulfill")
                  /\ outcome' = [outcome EXCEPT ![t].proof = value]
      /\ UNCHANGED <<vars, platform, reqHistory, listenVars, queue, current, batch,
                     randomness, crashes>>

(* fulfillRandomnessRequest would not revert for the proof of event e: it   *)
(* looks the request up under the hash of the service's key, and where the  *)
(* core asks blockhash() of the block, that is to be the hash passed.       *)
Fulfillable(e) ==
  /\ e.id.key = ServiceKey
  /\ ProofHolds(e.core, e.id, e.block, BlockHashOf(e))
  /\ callbacks[e.core][e.id].callbackContract = e.id.sender
  /\ AcceptsCallback(e.core, e.id)

(* Mutant: the randomness of the receipt is not kept. *)
Fulfill_KeepsNothing(t) ==
  LET e == current[t]
  IN  /\ pc[t] = "fulfill"
      /\ Fulfillable(e)
      /\ FulfillRandomnessRequest(e.core, e.id, e.block, BlockHashOf(e))
      /\ Goto(t, "update")
      /\ UNCHANGED <<outcome, platform, reqHistory, listenVars, queue, current, batch,
                     threadLocals, crashes>>

(* What becomes of a transaction without a receipt: an exception; and in    *)
(* generation 2 a receipt that tells of the time-out, and that              *)
(* dealWithReceipt takes for a failure of the upload.                       *)
NoReceiptStatus ==
  IF platform = "fiscobcos2" THEN {"UNEXPECTED", "UPLOAD_ERROR"} ELSE {"UNEXPECTED"}

(* The transaction is executed, and its receipt, which tells the            *)
(* randomness, arrives or is lost; or it reverts and FulFillException is    *)
(* thrown; or it does not reach the chain.                                  *)
Fulfill(t) ==
  LET e == current[t]
      NoReceipt ==
        /\ \E status \in NoReceiptStatus : Finish(t, status, NoResult)
        /\ UNCHANGED randomness
  IN  /\ pc[t] = "fulfill"
      /\ \/ /\ Fulfillable(e)
            /\ FulfillRandomnessRequest(e.core, e.id, e.block, BlockHashOf(e))
            /\ \/ /\ Goto(t, "update") /\ UNCHANGED outcome
                  /\ randomness' = [randomness EXCEPT ![t] = Randomness(e.id, BlockHashOf(e))]
               \/ NoReceipt
         \/ /\ ~Fulfillable(e)
            /\ Finish(t, "UPLOAD_ERROR", NoResult) /\ UNCHANGED <<vars, randomness>>
         \/ NoReceipt /\ UNCHANGED vars
      /\ UNCHANGED <<platform, reqHistory, listenVars, queue, current, batch,
                     actualSeed, crashes>>

(* updateReqHistory: a row of type VRF is given the thread-locals, which    *)
(* are those of an earlier request when this one failed before they were    *)
(* set.                                                                     *)
Updated(t, row) ==
  LET written == [row EXCEPT !.status = outcome[t].status, !.proof = outcome[t].proof]
  IN  IF row.sourceType = "VRF"
      THEN [written EXCEPT !.actualSeed = actualSeed[t], !.randomness = randomness[t]]
      ELSE written

Update(t) ==
  LET id == current[t].id
  IN  /\ pc[t] = "update"
      /\ reqHistory' = IF reqHistory[id] = None THEN reqHistory
                       ELSE [reqHistory EXCEPT ![id] = Updated(t, @)]
      /\ NextEvent(t)
      /\ UNCHANGED <<vars, platform, listenVars, queue, threadLocals, crashes>>

-----------------------------------------------------------------------------
(* What the contracts do without the service: only the holder of another   *)
(* key fulfils a request for it.                                           *)
ChainStep ==
  /\ \/ \E c \in Clients, seed \in Seeds : RequestRandomNumber(c, seed)
     \/ \E c \in Clients, core \in Cores, key \in KeyHashes, seed \in Seeds :
          QueryExternally(c, core, key, seed)
     \/ \E core \in Cores, key \in KeyHashes, seed \in Seeds, sender \in Clients :
          RequestExternally(core, key, seed, sender)
     \/ \E core \in Cores, id \in RequestId, block \in 1..MaxBlock, hash \in Hashes :
          id.key # ServiceKey /\ FulfillRandomnessRequest(core, id, block, hash)
     \/ Tick
  /\ UNCHANGED workerVars

ProcessLogs(t) == Find(t) \/ Save(t) \/ Prove(t) \/ Fulfill(t) \/ Update(t)

WorkerNext ==
  \/ ChainStep
  \/ \E core \in Cores : Listen(core) \/ PushLogs(core)
  \/ Crash
  \/ \E t \in Threads : TakeFromQueue(t) \/ ProcessLogs(t)

WorkerSpec == WorkerInit /\ [][WorkerNext]_systemVars

-----------------------------------------------------------------------------
(* Every variable of the service holds a value of its type, a thread has an *)
(* event exactly while it works, and what it or the queue holds was emitted *)
(* by a core that is listened to.                                           *)
WorkerTypeOK ==
  /\ TypeOK
  /\ platform \in Platforms
  /\ reqHistory \in [RequestId -> DBReqHistory \cup {None}]
  /\ fromBlock \in [Cores -> 0..MaxBlock + 1]
  /\ cursor \in [Cores -> 0..MaxBlock + 1]
  /\ queue \in Seq(SUBSET events)
  /\ pc \in [Threads -> Working \cup {"idle"}]
  /\ current \in [Threads -> events \cup {None}]
  /\ batch \in [Threads -> SUBSET events]
  /\ outcome \in [Threads -> Outcome]
  /\ actualSeed \in [Threads -> Outputs \cup {None}]
  /\ randomness \in [Threads -> Outputs \cup {None}]
  /\ crashes \in 0..MaxCrashes
  /\ \A t \in Threads : current[t] # None <=> pc[t] \in Working

(* t is between save and update of request id. *)
Processing(t, id) == pc[t] \in {"prove", "fulfill"} /\ current[t].id = id

(* Two cores may announce the same id, and two threads may have found no    *)
(* row of it: still at most one makes a proof for it and writes it back,    *)
(* and its row is there.                                                    *)
ExclusiveProcessing ==
  \A id \in RequestId, t1, t2 \in Threads :
    Processing(t1, id) => /\ reqHistory[id] # None
                          /\ Processing(t2, id) => t1 = t2

(* A request for the service's key whose randomness reached the consumer is *)
(* in the table, and a proof its row tells is that of the randomness the    *)
(* consumer has. In generation 3 the row does not blame the chain; in       *)
(* generation 2 it may, for a receipt that came too late.                   *)
DeliveredIsRecorded ==
  \A id \in RequestId :
    id.key = ServiceKey /\ resultMap[id] # None =>
      /\ reqHistory[id] # None
      /\ reqHistory[id].status = "UPLOAD_ERROR" => platform = "fiscobcos2"
      /\ reqHistory[id].proof \in {None, NoResult, resultMap[id]}

(* The randomness of a request for the service's key is fixed when the       *)
(* request is made, though the contracts leave the hash to the holder of the *)
(* key: it is that of the hash of the block of the event.                    *)
ServiceRandomnessIsFixed ==
  \A id \in RequestId :
    id.key = ServiceKey /\ resultMap[id] # None =>
      \E e \in events : /\ e.core = CoreOf[id.sender] /\ e.id = id
                        /\ resultMap[id] = Randomness(id, e.block)

(* A finished row with status SUCCESS is of a request whose consumer has    *)
(* the randomness the row proves; and although thread-locals are never      *)
(* cleared, seed and randomness that such a row holds are its own, not what *)
(* an earlier request left in the thread.                                   *)
SuccessTellsRandomness ==
  \A id \in Rows :
    LET row == reqHistory[id]
    IN  row.status = "SUCCESS" /\ row.proof # None =>
          /\ resultMap[id] = row.proof
          /\ row.sourceType = "VRF" =>
               row.actualSeed = resultMap[id] /\ row.randomness = resultMap[id]

(* The events in the hands of threads and pool. *)
InFlight ==
  {e \in events : \/ \E k \in 1..Len(queue) : e \in queue[k]
                  \/ \E t \in Threads : e = current[t] \/ e \in batch[t]}

(* No event that was pushed to a listener since it started is dropped on    *)
(* the way through queue, batches and threads: until its request has a row, *)
(* somebody has it in hand.                                                 *)
PushedEventsAreKept ==
  \A e \in events :
    fromBlock[e.core] <= e.block /\ e.block < cursor[e.core] =>
      reqHistory[e.id] # None \/ e \in InFlight

(* The row of a finished request of a client nobody else speaks for is not  *)
(* written again, also when its event is pushed again after a restart.      *)
OwnRecordsStay ==
  [][\A id \in Rows :
       id.sender \notin Foreign /\ reqHistory[id].proof # None
         => reqHistory'[id] = reqHistory[id]]_systemVars
=============================================================================
