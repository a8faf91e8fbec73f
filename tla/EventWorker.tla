------------------------------ MODULE EventWorker ------------------------------
(***************************************************************************)
(* The off-chain half of the URL oracle: the processes of Truora-Service   *)
(* (bcos3runner) that watch an OracleCore contract, with their thread pool *)
(* and the req_history table, composed with the contracts of OracleCore.   *)
(*                                                                         *)
(* The events of a block travel                                            *)
(*   chain --PushLogs--> eventWorkerAsync pool --thread--> processSingleLog *)
(* and processSingleLog goes through the program counter                   *)
(*   find -> save -> fetch -> check -> fulfill -> update                   *)
(* one database statement, HTTP exchange, call or transaction per step:    *)
(* between two steps any other thread or service may act, or the process   *)
(* may crash. A crash loses queue and threads; the database survives.      *)
(*                                                                         *)
(* A row keeps what decisions are based on. The error text, the proof, the *)
(* times and the query are left out, but for createTime: the column is of  *)
(* type DATETIME, so rows created in one second, a tick of now, tie.       *)
(*                                                                         *)
(* The services share one database. No other account that owns a core      *)
(* answers requests: such an owner would be a service with another table.  *)
(***************************************************************************)
EXTENDS OracleCore, FiniteSets

CONSTANTS
  Services,       \* processes of Truora-Service
  ServedCore,     \* ServedCore[s]: the OracleCore contract s listens to
  AccountOf,      \* AccountOf[s]: the account s signs transactions with
  Threads,        \* threads a pool may have: max-size is their number
  CorePoolSize,   \* eventWorker.pool.core-size
  QueueCapacity,  \* eventWorker.pool.queue-capacity
  EmptyUrl,       \* the empty query
  Unsavable,      \* queries longer than the column req_query
  NoResult,       \* the empty result string
  MaxCrashes      \* bound: crashes of a behaviour

(* reqStatus: 0, UNEXPECTED_EXCEPTION_ERROR, what the crawler throws, and  *)
(* UPLOAD_RESULT_TO_CHAIN_ERROR.                                           *)
ReqStatus == {"SUCCESS", "UNEXPECTED", "FETCH_ERROR", "UPLOAD_ERROR"}

Outcome == [status : ReqStatus, result : Results \cup {NoResult}]

(* result is None in a row that was saved and not yet updated. *)
DBReqHistory ==
  [block : Nat, createTime : Nat, status : ReqStatus,
   result : Results \cup {NoResult, None}]

ASSUME ServiceAssumption ==
  /\ ServedCore \in [Services -> Cores]
  /\ AccountOf \in [Services -> Accounts]
  /\ CorePoolSize \in Nat \ {0}
  /\ QueueCapacity \in Nat /\ MaxCrashes \in Nat

ASSUME NoResultAssumption ==
  /\ None # NoResult
  /\ NoResult \notin Results
  /\ None \notin DBReqHistory

VARIABLES
  reqHistory,  \* reqHistory[id]: row of table req_history, or None
  cursor,      \* cursor[s]: next block s is pushed the events of, 0 when down
  queue,       \* queue[s]: batches that wait for a thread
  pc,          \* pc[s][t]: what thread t does next
  current,     \* current[s][t]: position in logs of the event in work, or 0
  batch,       \* batch[s][t]: positions in logs of the events after it
  outcome,     \* outcome[s][t]: reqStatus and result of processSingleLog
  crashes      \* how often a process crashed

threadVars == <<pc, current, batch, outcome>>
serviceVars == <<reqHistory, cursor, queue, threadVars, crashes>>
systemVars == <<vars, serviceVars>>

(* "none": no such thread. "idle": it waits for a batch. *)
Working == {"find", "save", "fetch", "check", "fulfill", "update"}
PC == {"none", "idle"} \cup Working

Success == [status |-> "SUCCESS", result |-> NoResult]

SystemInit ==
  /\ Init
  /\ reqHistory = [id \in RequestId |-> None]
  /\ cursor = [s \in Services |-> 0]
  /\ queue = [s \in Services |-> <<>>]
  /\ pc = [s \in Services |-> [t \in Threads |-> "none"]]
  /\ current = [s \in Services |-> [t \in Threads |-> 0]]
  /\ batch = [s \in Services |-> [t \in Threads |-> {}]]
  /\ outcome = [s \in Services |-> [t \in Threads |-> Success]]
  /\ crashes = 0

-----------------------------------------------------------------------------
(* The table req_history.                                                  *)

Rows == {id \in RequestId : reqHistory[id] # None}

(* getLatestRecord: a newest row by createTime, whatever its block is. *)
IsLatestRecord(id) ==
  /\ id \in Rows
  /\ \A other \in Rows : reqHistory[other].createTime <= reqHistory[id].createTime

-----------------------------------------------------------------------------
(* The process.                                                            *)

(* Bcos3EventCallback.registerEventListener: listen from the block after   *)
(* that of the latest row, or from the next block when there is no row.    *)
Start(s) ==
  /\ cursor[s] = 0
  /\ \/ /\ Rows = {}
        /\ cursor' = [cursor EXCEPT ![s] = now]
     \/ \E id \in RequestId :
          /\ IsLatestRecord(id)
          /\ cursor' = [cursor EXCEPT ![s] = reqHistory[id].block + 1]
  /\ UNCHANGED <<vars, reqHistory, queue, threadVars, crashes>>

(* The process dies: what it held in memory is gone. *)
Crash(s) ==
  /\ cursor[s] # 0
  /\ crashes < MaxCrashes
  /\ crashes' = crashes + 1
  /\ cursor' = [cursor EXCEPT ![s] = 0]
  /\ queue' = [queue EXCEPT ![s] = <<>>]
  /\ pc' = [pc EXCEPT ![s] = [t \in Threads |-> "none"]]
  /\ current' = [current EXCEPT ![s] = [t \in Threads |-> 0]]
  /\ batch' = [batch EXCEPT ![s] = [t \in Threads |-> {}]]
  /\ outcome' = [outcome EXCEPT ![s] = [t \in Threads |-> Success]]
  /\ UNCHANGED <<vars, reqHistory>>

Alive(s) == {t \in Threads : pc[s][t] # "none"}

Idle(s) == {t \in Threads : pc[s][t] = "idle"}

Goto(s, t, label) == pc' = [pc EXCEPT ![s][t] = label]

(* The loop of processBatchLogs goes on with the first of these events. *)
Begin(s, t, events) ==
  \E first \in events :
    /\ \A i \in events : first <= i
    /\ Goto(s, t, "find")
    /\ current' = [current EXCEPT ![s][t] = first]
    /\ batch' = [batch EXCEPT ![s][t] = events \ {first}]
    /\ outcome' = [outcome EXCEPT ![s][t] = Success]

(* Mutant: the thread goes on without an event. *)
Rest_GoesOn(s, t) ==
  /\ Goto(s, t, "find")
  /\ current' = [current EXCEPT ![s][t] = 0]
  /\ batch' = [batch EXCEPT ![s][t] = {}]
  /\ outcome' = [outcome EXCEPT ![s][t] = Success]

(* It has come to its end. *)
Rest(s, t) ==
  /\ Goto(s, t, "idle")
  /\ current' = [current EXCEPT ![s][t] = 0]
  /\ batch' = [batch EXCEPT ![s][t] = {}]
  /\ outcome' = [outcome EXCEPT ![s][t] = Success]

(* ThreadPoolExecutor.execute: below core-size a thread is added even when *)
(* others are idle; then the queue is used; when it is full threads are    *)
(* added up to max-size; then AbortPolicy throws, and the batch is lost. A *)
(* queue of capacity 0 is a SynchronousQueue: it is full, but for a thread *)
(* that already waits for work, which is handed the batch.                 *)
Submit(s, events) ==
  IF Cardinality(Alive(s)) < CorePoolSize /\ Alive(s) # Threads
  THEN /\ \E t \in Threads \ Alive(s) : Begin(s, t, events)
       /\ UNCHANGED queue
  ELSE IF Len(queue[s]) < QueueCapacity
  THEN /\ queue' = [queue EXCEPT ![s] = Append(@, events)]
       /\ UNCHANGED threadVars
  ELSE /\ \/ \E t \in Threads \ Alive(s) : Begin(s, t, events)
          \/ Alive(s) = Threads /\ UNCHANGED threadVars
          \/ QueueCapacity = 0 /\ \E t \in Idle(s) : Begin(s, t, events)
       /\ UNCHANGED queue

(* onReceiveLog: the node pushes the events of a closed block, blocks in   *)
(* order, and processBatchLogs (@Async) hands them to the pool.            *)
PushLogs(s) ==
  LET events == {i \in 1..Len(logs) : /\ logs[i].core = ServedCore[s]
                                      /\ logs[i].block = cursor[s]}
  IN  /\ 0 < cursor[s] /\ cursor[s] < now
      /\ cursor' = [cursor EXCEPT ![s] = @ + 1]
      /\ IF events = {} THEN UNCHANGED <<queue, threadVars>> ELSE Submit(s, events)
      /\ UNCHANGED <<vars, reqHistory, crashes>>

TakeFromQueue(s, t) ==
  /\ pc[s][t] = "idle"
  /\ queue[s] # <<>>
  /\ Begin(s, t, Head(queue[s]))
  /\ queue' = [queue EXCEPT ![s] = Tail(@)]
  /\ UNCHANGED <<vars, reqHistory, cursor, crashes>>

(* keepAliveSeconds: an idle thread beyond core-size ends. *)
KeepAliveEnds(s, t) ==
  /\ pc[s][t] = "idle"
  /\ queue[s] = <<>>
  /\ Cardinality(Alive(s)) > CorePoolSize
  /\ pc' = [pc EXCEPT ![s][t] = "none"]
  /\ UNCHANGED <<vars, reqHistory, cursor, queue, current, batch, outcome, crashes>>

-----------------------------------------------------------------------------
(* processSingleLog, by thread t of service s, for the event Event(s, t).  *)

Event(s, t) == logs[current[s][t]]

Record(s, t, status, result) ==
  outcome' = [outcome EXCEPT ![s][t] = [status |-> status, result |-> result]]

(* What the rest of the method will write into the row. *)
Finish(s, t, status, result) ==
  Goto(s, t, "update") /\ Record(s, t, status, result)

(* Mutant: the loop ends after the first event. *)
NextEvent_FirstOnly(s, t) == Rest(s, t)

(* The next turn of the loop of processBatchLogs. *)
NextEvent(s, t) ==
  IF batch[s][t] = {} THEN Rest(s, t) ELSE Begin(s, t, batch[s][t])

(* Mutant: the row is not looked for. *)
Find_NoLookup(s, t) ==
  /\ pc[s][t] = "find"
  /\ Goto(s, t, "save") /\ UNCHANGED <<current, batch, outcome>>
  /\ UNCHANGED <<vars, reqHistory, cursor, queue, crashes>>

(* findByReqId: REQ_ALREADY_EXISTS skips the event, and the update. *)
Find(s, t) ==
  /\ pc[s][t] = "find"
  /\ IF reqHistory[Event(s, t).id] # None
     THEN NextEvent(s, t)
     ELSE Goto(s, t, "save") /\ UNCHANGED <<current, batch, outcome>>
  /\ UNCHANGED <<vars, reqHistory, cursor, queue, crashes>>

(* makeDBReqHistory. *)
NewRow(event) ==
  [block |-> event.block, createTime |-> now, status |-> "SUCCESS", result |-> None]

SaveRow(event) ==
  reqHistory' = [reqHistory EXCEPT ![event.id] = NewRow(event)]

(* Mutant: req_id is not UNIQUE, save overwrites. *)
Save_NotUnique(s, t) ==
  /\ pc[s][t] = "save"
  /\ IF Event(s, t).url \in Unsavable
     THEN Finish(s, t, "UNEXPECTED", NoResult) /\ UNCHANGED reqHistory
     ELSE /\ SaveRow(Event(s, t))
          /\ Goto(s, t, "fetch") /\ UNCHANGED outcome
  /\ UNCHANGED <<vars, cursor, queue, current, batch, crashes>>

(* save of the new row: the database refuses a second row of a req_id, and *)
(* a query that does not fit.                                              *)
Save(s, t) ==
  /\ pc[s][t] = "save"
  /\ IF reqHistory[Event(s, t).id] # None \/ Event(s, t).url \in Unsavable
     THEN Finish(s, t, "UNEXPECTED", NoResult) /\ UNCHANGED reqHistory
     ELSE /\ SaveRow(Event(s, t))
          /\ Goto(s, t, "fetch") /\ UNCHANGED outcome
  /\ UNCHANGED <<vars, cursor, queue, current, batch, crashes>>

(* processLog up to the call of checkRequestId: the data source answers     *)
(* what it likes; the crawler throws, or an exception of another kind (an   *)
(* answer that is not a number) falls through. "" is returned for "".       *)
Fetch(s, t) ==
  /\ pc[s][t] = "fetch"
  /\ IF Event(s, t).url = EmptyUrl
     THEN Finish(s, t, "SUCCESS", NoResult)
     ELSE \/ \E error \in {"FETCH_ERROR", "UNEXPECTED"} : Finish(s, t, error, NoResult)
          \/ /\ Goto(s, t, "check")
             /\ \E result \in Results : Record(s, t, "SUCCESS", result)
  /\ UNCHANGED <<vars, reqHistory, cursor, queue, current, batch, crashes>>

(* fulfill: a request the core no longer knows, or that expired, is not    *)
(* written back, and processLog still returns the result. The call may     *)
(* fail.                                                                   *)
Check(s, t) ==
  /\ pc[s][t] = "check"
  /\ \/ /\ Goto(s, t, IF CheckRequestId(Event(s, t).core, Event(s, t).id)
                      THEN "fulfill" ELSE "update")
        /\ UNCHANGED outcome
     \/ Finish(s, t, "UNEXPECTED", NoResult)
  /\ UNCHANGED <<vars, reqHistory, cursor, queue, current, batch, crashes>>

(* The transaction is executed and its receipt arrives or is lost; or it   *)
(* reverts and FulFillException is thrown; or it does not reach the chain. *)
Fulfill(s, t) ==
  LET e == Event(s, t)
  IN  /\ pc[s][t] = "fulfill"
      /\ \/ /\ FulfillRequest(e.core, AccountOf[s], e.id, e.callback,
                              e.expiration, outcome[s][t].result)
            /\ \/ Goto(s, t, "update") /\ UNCHANGED outcome
               \/ Finish(s, t, "UNEXPECTED", NoResult)
         \/ /\ ~Fulfillable(e.core, AccountOf[s], e.id, e.callback, e.expiration)
            /\ Finish(s, t, "UPLOAD_ERROR", NoResult) /\ UNCHANGED vars
         \/ Finish(s, t, "UNEXPECTED", NoResult) /\ UNCHANGED vars
      /\ UNCHANGED <<reqHistory, cursor, queue, current, batch, crashes>>

(* updateReqHistory: whichever thread comes last, it writes the outcome of *)
(* its own processSingleLog. The database does not fail.                   *)
Update(s, t) ==
  LET id == Event(s, t).id
  IN  /\ pc[s][t] = "update"
      /\ IF reqHistory[id] = None
         THEN UNCHANGED reqHistory
         ELSE reqHistory' = [reqHistory EXCEPT
                ![id] = [@ EXCEPT !.status = outcome[s][t].status,
                                  !.result = outcome[s][t].result]]
      /\ NextEvent(s, t)
      /\ UNCHANGED <<vars, cursor, queue, crashes>>

-----------------------------------------------------------------------------
(* What the contracts do without the services; fulfillRequest reverts for  *)
(* every account but the owner's, and an owner answers only as a service.  *)
ChainStep ==
  /\ \/ \E c \in Consumers, url \in Urls : RequestSource(c, url)
     \/ \E core \in Cores, c \in Consumers, nonce \in 1..MaxRequests,
           url \in Urls, expiryTime \in ExternalExpiry :
          QueryExternally(core, c, nonce, url, expiryTime)
     \/ \E core \in Cores, newOwner \in Accounts : TransferOwnership(core, newOwner)
     \/ Tick
  /\ UNCHANGED serviceVars

ProcessLogs(s, t) ==
  \/ Find(s, t) \/ Save(s, t) \/ Fetch(s, t)
  \/ Check(s, t) \/ Fulfill(s, t) \/ Update(s, t)

ServiceStep(s) ==
  \/ Start(s) \/ Crash(s) \/ PushLogs(s)
  \/ \E t \in Threads :
       TakeFromQueue(s, t) \/ KeepAliveEnds(s, t) \/ ProcessLogs(s, t)

SystemNext == ChainStep \/ \E s \in Services : ServiceStep(s)

SystemSpec == SystemInit /\ [][SystemNext]_systemVars

(* A block with a transaction is sealed, the node pushes what it sealed, a *)
(* free thread takes what waits, and a thread goes on: HTTP exchanges have *)
(* timeouts, calls and transactions get an answer or an exception. Nothing *)
(* promises that a process is started, that it crashes, or that somebody   *)
(* makes a request.                                                        *)
Fairness ==
  /\ WF_systemVars(Tick /\ UNCHANGED serviceVars)
  /\ \A s \in Services :
       /\ WF_systemVars(PushLogs(s))
       /\ \A t \in Threads : /\ WF_systemVars(TakeFromQueue(s, t))
                             /\ WF_systemVars(ProcessLogs(s, t))

FairSystemSpec == SystemSpec /\ Fairness

-----------------------------------------------------------------------------
(* The threads that are between save and update of a request. *)
Processing(s, t, id) ==
  /\ pc[s][t] \in {"fetch", "check", "fulfill"}
  /\ Event(s, t).id = id

(* Every variable of the service holds a value of its type, a thread has an *)
(* event exactly while it works, and the events it still has to process, or *)
(* that wait in the queue, were emitted.                                    *)
SystemTypeOK ==
  /\ TypeOK
  /\ reqHistory \in [RequestId -> DBReqHistory \cup {None}]
  /\ cursor \in [Services -> Nat]
  /\ queue \in [Services -> Seq(SUBSET Nat)]
  /\ \A s \in Services : \A k \in 1..Len(queue[s]) : queue[s][k] \subseteq 1..Len(logs)
  /\ pc \in [Services -> [Threads -> PC]]
  /\ current \in [Services -> [Threads -> 0..Len(logs)]]
  /\ batch \in [Services -> [Threads -> SUBSET (1..Len(logs))]]
  /\ outcome \in [Services -> [Threads -> Outcome]]
  /\ crashes \in 0..MaxCrashes
  /\ \A s \in Services, t \in Threads : current[s][t] # 0 <=> pc[s][t] \in Working

(* However many services and threads see an event, and however often, at    *)
(* most one thread at a time asks the data source and writes back for it,   *)
(* and its row is already in the table. findByReqId alone does not do it:   *)
(* the row is saved before the data source is asked, and req_id is UNIQUE   *)
(* in the one table all services share. (A comment in OracleCoreWorker      *)
(* still expects several services to ask twice; with a table each, they do.) *)
ExclusiveProcessing ==
  \A id \in RequestId, s1, s2 \in Services, t1, t2 \in Threads :
    Processing(s1, t1, id) =>
      /\ reqHistory[id] # None
      /\ Processing(s2, t2, id) => s1 = s2 /\ t1 = t2

(* A request whose answer reached the consumer is in the table, its row     *)
(* does not blame the data source or the chain, and when it tells a result  *)
(* it is the one the consumer has: no crash, race of services or revert     *)
(* makes the table contradict the chain on a delivered answer.              *)
DeliveredIsRecorded ==
  \A id \in RequestId :
    rawResultMap[id] # None =>
      /\ reqHistory[id] # None
      /\ reqHistory[id].status \in {"SUCCESS", "UNEXPECTED"}
      /\ reqHistory[id].result \in {None, NoResult, rawResultMap[id]}

(* The row of a request that was finished is not touched again, by a        *)
(* duplicate of its event or by an event pushed again after a restart.      *)
FinishedRecordsStay ==
  [][\A id \in RequestId :
       reqHistory[id] # None /\ reqHistory[id].result # None
         => reqHistory'[id] = reqHistory[id]]_systemVars

(* A row with status 0 (ReqStatusEnum.SUCCESS) and a result written is of a *)
(* request whose consumer received that result.                             *)
SuccessMeansDelivered ==
  \A id \in RequestId :
    /\ reqHistory[id] # None
    /\ reqHistory[id].status = "SUCCESS"
    /\ reqHistory[id].result # None
    => rawResultMap[id] = reqHistory[id].result

(* s is listening, and will be pushed an event of request id. *)
Awaits(s, id) ==
  \E i \in 1..Len(logs) :
    /\ logs[i].core = ServedCore[s] /\ logs[i].id = id
    /\ cursor[s] \in 1..logs[i].block

(* Every request of a block a service listens to is settled: its row is     *)
(* finished, and either the consumer has the result it tells or it tells of *)
(* a failure. Pool, queue and batches lose none of them on the way.         *)
AwaitedRequestsAreSettled ==
  \A s \in Services, id \in RequestId :
    Awaits(s, id) ~>
      /\ reqHistory[id] # None
      /\ reqHistory[id].result # None
      /\ \/ reqHistory[id].status # "SUCCESS"
         \/ rawResultMap[id] = reqHistory[id].result
=============================================================================
