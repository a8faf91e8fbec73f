------------------------------ MODULE OracleCore ------------------------------
(***************************************************************************)
(* The on-chain half of the URL oracle: contracts OracleCore, Ownable,     *)
(* FiscoOracleClient and the consumer GeneralOracle (contracts/oracle/v3). *)
(*                                                                         *)
(* A transaction is atomic, so each action is one transaction. One that    *)
(* reverts leaves no state behind and is no step. `now` is both the block  *)
(* timestamp the contracts read and the height of the block being built:   *)
(* all a block's transactions see one `now`, and Tick closes the block.    *)
(*                                                                         *)
(* keccak256 is injective here: a request id is the pair it hashes, and a  *)
(* commitment is the record it hashes (chainId and groupId are the same    *)
(* for all the contracts of a group). A consumer's mappings are indexed by *)
(* ids of its own, so they are merged into one function over all ids.      *)
(***************************************************************************)
EXTENDS Naturals, Sequences

CONSTANTS
  Cores,           \* OracleCore contracts of the group
  Consumers,       \* GeneralOracle contracts
  Accounts,        \* external accounts: oracle services and others
  CoreOf,          \* CoreOf[c]: the oracle address c was constructed with
  Reverting,       \* consumers whose own __callback code may revert
  Results,         \* values a data source may return
  Urls,            \* sources a consumer may ask for
  EXPIRY_TIME,     \* FiscoOracleClient.EXPIRY_TIME
  ExternalExpiry,  \* _expiryTime values of direct calls of query()
  MaxUint,         \* largest uint256
  MaxTime,         \* bound: the last block of a behaviour
  MaxRequests,     \* bound: requests of one consumer
  MaxLogs,         \* bound: OracleRequest events of a behaviour
  None             \* a mapping entry that is not set

(* What keccak256 hashes into a commitment. *)
CommitmentHash == [callback : Consumers, expiration : Nat]

ASSUME ConstantsAssumption ==
  /\ CoreOf \in [Consumers -> Cores]
  /\ Reverting \subseteq Consumers
  /\ EXPIRY_TIME \in Nat
  /\ ExternalExpiry \subseteq Nat
  /\ MaxUint \in Nat /\ MaxTime \in Nat \ {0}
  /\ MaxRequests \in Nat /\ MaxLogs \in Nat

ASSUME NoneAssumption ==
  /\ None \notin Cores
  /\ None \notin Results
  /\ None \notin CommitmentHash

VARIABLES
  now,              \* timestamp and height of the block being built
  owner,            \* owner[core]: Ownable._owner
  commitments,      \* commitments[core][id]: hash(callback, expiration), or None
  timeoutMap,       \* timeoutMap[core][id]: expiration, 0 when deleted
  logs,             \* the OracleRequest events, in the order of emission
  requestCount,     \* requestCount[c]: next nonce of consumer c
  pendingRequests,  \* pendingRequests[id]: the core that may call back, or None
  validIds,         \* validIds[id]: 0 unknown, 1 ongoing, 2 fulfilled
  rawResultMap      \* rawResultMap[id]: the result received, or None

coreVars == <<commitments, timeoutMap>>
clientVars == <<pendingRequests, validIds, rawResultMap>>
vars == <<now, owner, coreVars, logs, requestCount, clientVars>>

RequestId == [callback : Consumers, nonce : 1..MaxRequests]

Commitment(callback, expiration) ==
  [callback |-> callback, expiration |-> expiration]

OracleRequest ==
  [core : Cores, callback : Consumers, id : RequestId, url : Urls,
   expiration : 0..MaxUint, block : Nat]

-----------------------------------------------------------------------------
(* Initial state: contracts just deployed, owned by their deployer.        *)

Init ==
  /\ now = 1
  /\ owner \in [Cores -> Accounts]
  /\ commitments = [core \in Cores |-> [id \in RequestId |-> None]]
  /\ timeoutMap = [core \in Cores |-> [id \in RequestId |-> 0]]
  /\ logs = <<>>
  /\ requestCount = [c \in Consumers |-> 1]
  /\ pendingRequests = [id \in RequestId |-> None]
  /\ validIds = [id \in RequestId |-> 0]
  /\ rawResultMap = [id \in RequestId |-> None]

-----------------------------------------------------------------------------
(* Mutant: the addition without SafeMath, which wraps. *)
Query_Wrapping(core, callback, nonce, url, expiryTime) ==
  LET id == [callback |-> callback, nonce |-> nonce]
      expiration == (now + expiryTime) % (MaxUint + 1)
  IN  /\ now < MaxTime /\ Len(logs) < MaxLogs
      /\ timeoutMap' = [timeoutMap EXCEPT ![core][id] = expiration]
      /\ commitments' = [commitments EXCEPT
                           ![core][id] = Commitment(callback, expiration)]
      /\ logs' = Append(logs, [core |-> core, callback |-> callback, id |-> id,
                               url |-> url, expiration |-> expiration,
                               block |-> now])

(* OracleCore.query. The id depends on the callback and the nonce the      *)
(* caller passes, not on the caller, and a commitment already there is     *)
(* overwritten. now.add reverts on overflow.                               *)

Query(core, callback, nonce, url, expiryTime) ==
  LET id == [callback |-> callback, nonce |-> nonce]
      expiration == now + expiryTime
  IN  /\ now < MaxTime /\ Len(logs) < MaxLogs
      /\ expiration <= MaxUint
      /\ timeoutMap' = [timeoutMap EXCEPT ![core][id] = expiration]
      /\ commitments' = [commitments EXCEPT
                           ![core][id] = Commitment(callback, expiration)]
      /\ logs' = Append(logs, [core |-> core, callback |-> callback, id |-> id,
                               url |-> url, expiration |-> expiration,
                               block |-> now])

(* Mutant: requestCount++ moved before the call of query(). *)
RequestSource_CountFirst(consumer, url) ==
  LET nonce == requestCount[consumer]
      id == [callback |-> consumer, nonce |-> nonce]
  IN  /\ nonce < MaxRequests
      /\ Query(CoreOf[consumer], consumer, nonce + 1, url, EXPIRY_TIME)
      /\ pendingRequests' = [pendingRequests EXCEPT ![id] = CoreOf[consumer]]
      /\ requestCount' = [requestCount EXCEPT ![consumer] = nonce + 1]
      /\ validIds' = [validIds EXCEPT ![id] = 1]
      /\ UNCHANGED <<now, owner, rawResultMap>>

(* GeneralOracle.requestSource and, inside it, FiscoOracleClient.oracleQuery. *)
RequestSource(consumer, url) ==
  LET nonce == requestCount[consumer]
      id == [callback |-> consumer, nonce |-> nonce]
  IN  /\ nonce <= MaxRequests
      /\ Query(CoreOf[consumer], consumer, nonce, url, EXPIRY_TIME)
      /\ pendingRequests' = [pendingRequests EXCEPT ![id] = CoreOf[consumer]]
      /\ requestCount' = [requestCount EXCEPT ![consumer] = nonce + 1]
      /\ validIds' = [validIds EXCEPT ![id] = 1]
      /\ UNCHANGED <<now, owner, rawResultMap>>

(* query() is external: anybody may call it with any consumer's address    *)
(* and any nonce, one in use or one still to come.                         *)
QueryExternally(core, callback, nonce, url, expiryTime) ==
  /\ Query(core, callback, nonce, url, expiryTime)
  /\ UNCHANGED <<now, owner, requestCount, clientVars>>

-----------------------------------------------------------------------------
(* Mutant: the time is not looked at. *)
CheckRequestId_NoTimeout(core, id) == commitments[core][id] # None

(* OracleCore.checkRequestId: equality is still in time.                   *)
CheckRequestId(core, id) ==
  /\ commitments[core][id] # None
  /\ timeoutMap[core][id] >= now

(* What fulfillRequest requires: onlyOwner, isValidRequest, and the        *)
(* parameters hash to the commitment.                                      *)
Fulfillable(core, sender, id, callback, expiration) ==
  /\ sender = owner[core]
  /\ CheckRequestId(core, id)
  /\ commitments[core][id] = Commitment(callback, expiration)

(* Mutant: a callback without its guards. *)
AcceptsCallback_Unguarded(core, callback, id) == callback = id.callback

(* The two guards on the way into the consumer: onlyOracleCoreInvoke, then *)
(* "id must be ongoing!". Another consumer holds no entry for the id.      *)
AcceptsCallback(core, callback, id) ==
  /\ callback = id.callback
  /\ pendingRequests[id] = core
  /\ validIds[id] = 1

(* Mutants: the entry is not deleted; the wrong status is written. *)
Callback_KeepsPending(id, result) ==
  /\ rawResultMap' = [rawResultMap EXCEPT ![id] = result]
  /\ validIds' = [validIds EXCEPT ![id] = 2]
  /\ UNCHANGED pendingRequests

Callback_WrongStatus(id, result) ==
  /\ pendingRequests' = [pendingRequests EXCEPT ![id] = None]
  /\ rawResultMap' = [rawResultMap EXCEPT ![id] = result]
  /\ validIds' = [validIds EXCEPT ![id] = @ + 2]

(* FiscoOracleClient.callback and GeneralOracle.__callback, when no guard  *)
(* and no code of the consumer reverts.                                    *)
Callback(id, result) ==
  /\ pendingRequests' = [pendingRequests EXCEPT ![id] = None]
  /\ rawResultMap' = [rawResultMap EXCEPT ![id] = result]
  /\ validIds' = [validIds EXCEPT ![id] = 2]

(* OracleCore.fulfillRequest. The callback is a low-level call: when it    *)
(* fails the function returns false, and the deletions stay.               *)
FulfillRequest(core, sender, id, callback, expiration, result) ==
  /\ Fulfillable(core, sender, id, callback, expiration)
  /\ commitments' = [commitments EXCEPT ![core][id] = None]
  /\ timeoutMap' = [timeoutMap EXCEPT ![core][id] = 0]
  /\ \/ /\ AcceptsCallback(core, callback, id)
        /\ Callback(id, result)
     \/ /\ ~AcceptsCallback(core, callback, id) \/ callback \in Reverting
        /\ UNCHANGED clientVars
  /\ UNCHANGED <<now, owner, logs, requestCount>>

-----------------------------------------------------------------------------
(* Ownable.transferOwnership. *)
TransferOwnership(core, newOwner) ==
  /\ owner' = [owner EXCEPT ![core] = newOwner]
  /\ UNCHANGED <<now, coreVars, logs, requestCount, clientVars>>

(* The chain closes the block; the next one has a later timestamp. *)
Tick ==
  /\ now < MaxTime
  /\ now' = now + 1
  /\ UNCHANGED <<owner, coreVars, logs, requestCount, clientVars>>

Next ==
  \/ \E c \in Consumers, url \in Urls : RequestSource(c, url)
  \/ \E core \in Cores, c \in Consumers, nonce \in 1..MaxRequests,
        url \in Urls, expiryTime \in ExternalExpiry :
       QueryExternally(core, c, nonce, url, expiryTime)
  \/ \E core \in Cores, id \in RequestId, c \in Consumers,
        expiration \in 0..MaxUint, result \in Results :
       FulfillRequest(core, owner[core], id, c, expiration, result)
  \/ \E core \in Cores, newOwner \in Accounts : TransferOwnership(core, newOwner)
  \/ Tick

Spec == Init /\ [][Next]_vars

-----------------------------------------------------------------------------
(* Every variable holds a value of its type. *)
TypeOK ==
  /\ now \in 1..MaxTime
  /\ owner \in [Cores -> Accounts]
  /\ commitments \in [Cores -> [RequestId -> CommitmentHash \cup {None}]]
  /\ timeoutMap \in [Cores -> [RequestId -> Nat]]
  /\ logs \in Seq(OracleRequest)
  /\ requestCount \in [Consumers -> 1..MaxRequests + 1]
  /\ pendingRequests \in [RequestId -> Cores \cup {None}]
  /\ validIds \in [RequestId -> 0..2]
  /\ rawResultMap \in [RequestId -> Results \cup {None}]

(* The base contract's pendingRequests and the consumer's validIds, written  *)
(* by different contracts of the inheritance chain, never disagree on which  *)
(* requests are open, and exactly the nonces below requestCount were used:   *)
(* neither of the two guards of a callback can pass without the other.       *)
ConsumerConsistent ==
  \A id \in RequestId :
    /\ pendingRequests[id] = IF validIds[id] = 1 THEN CoreOf[id.callback] ELSE None
    /\ (rawResultMap[id] # None) <=> (validIds[id] = 2)
    /\ (validIds[id] # 0) <=> (id.nonce < requestCount[id.callback])

(* The two mappings of OracleCore describe the same requests, and what they  *)
(* say was announced by an OracleRequest event whose deadline had not passed *)
(* when it was emitted: the off-chain service, which sees only the events,   *)
(* has the parameters fulfillRequest will require.                           *)
CommitmentAnnounced ==
  \A core \in Cores, id \in RequestId :
    IF commitments[core][id] = None
    THEN timeoutMap[core][id] = 0
    ELSE /\ commitments[core][id] = Commitment(id.callback, timeoutMap[core][id])
         /\ \E i \in 1..Len(logs) :
              /\ logs[i].core = core /\ logs[i].id = id
              /\ logs[i].callback = id.callback
              /\ logs[i].expiration = timeoutMap[core][id]
              /\ logs[i].expiration >= logs[i].block

(* The core announced this id in this event,                                 *)
Announces(event, core, id) == event.core = core /\ event.id = id

(* and not again after it.                                                   *)
AnnouncedLast(i, core, id) ==
  /\ Announces(logs[i], core, id)
  /\ \A j \in i + 1..Len(logs) : ~Announces(logs[j], core, id)

(* An open request of a consumer that does not revert can be answered until  *)
(* the deadline its core announced last: fulfillRequest takes what the event *)
(* says, and the consumer takes the answer. If nobody else calls query() for *)
(* it, the event is its own, and the deadline EXPIRY_TIME after its block.   *)
(* Who does may bring it forward, but takes nothing else away, and neither   *)
(* do fulfilments, requests of others and transfers of ownership.            *)
OngoingIsAnswerable ==
  \A id \in RequestId :
    validIds[id] = 1 /\ id.callback \notin Reverting =>
      LET asked == CoreOf[id.callback]
      IN  \E own \in 1..Len(logs), last \in 1..Len(logs) :
            /\ own <= last
            /\ Announces(logs[own], asked, id)
            /\ logs[own].expiration = logs[own].block + EXPIRY_TIME
            /\ AnnouncedLast(last, asked, id)
            /\ now <= logs[last].expiration =>
                 /\ Fulfillable(asked, owner[asked], id, id.callback, logs[last].expiration)
                 /\ AcceptsCallback(asked, id.callback, id)

(* A consumer is only ever given an answer before a deadline announced for   *)
(* this request by the core it asked.                                        *)
AnsweredInTime ==
  [][\A id \in RequestId :
       rawResultMap'[id] # rawResultMap[id] =>
         \E i \in 1..Len(logs) :
           /\ logs[i].core = CoreOf[id.callback]
           /\ logs[i].id = id
           /\ now <= logs[i].expiration]_vars

(* The contracts keep the promise of OneShotRequests: requests are opened    *)
(* one by one and each is answered at most once, whatever is re-queried.     *)
OneShot ==
  INSTANCE OneShotRequests
    WITH opened <- [c \in Consumers |-> requestCount[c] - 1],
         answer <- rawResultMap

ImplementsOneShot == OneShot!Spec
=============================================================================
