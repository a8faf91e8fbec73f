--------------------------- MODULE EventWorkerProofs ---------------------------
(***************************************************************************)
(* Proofs about OracleCore for every set of cores, consumers, accounts and *)
(* results, every expiry time and every bound; and about EventWorker,      *)
(* which extends it, for every set of services, threads and contracts and  *)
(* every size of pool and queue.                                           *)
(***************************************************************************)
EXTENDS EventWorker, TLAPS

-----------------------------------------------------------------------------
(* The contracts, by themselves.                                           *)

(* The parameters with which Next can take a step of each kind. *)
LEMMA NextCases ==
  ASSUME Next
  PROVE  \/ \E c \in Consumers, url \in Urls : RequestSource(c, url)
         \/ \E core \in Cores, c \in Consumers, nonce \in 1..MaxRequests,
               url \in Urls, expiryTime \in ExternalExpiry :
              QueryExternally(core, c, nonce, url, expiryTime)
         \/ \E core \in Cores, id \in RequestId, c \in Consumers,
               expiration \in 0..MaxUint, result \in Results :
              FulfillRequest(core, owner[core], id, c, expiration, result)
         \/ \E core \in Cores, newOwner \in Accounts : TransferOwnership(core, newOwner)
         \/ Tick
  BY DEF Next

(* What query() does to the mappings and the log keeps their types. *)
LEMMA QueryType ==
  ASSUME TypeOK, NEW core \in Cores, NEW c \in Consumers, NEW nonce \in 1..MaxRequests,
         NEW url \in Urls, NEW expiryTime \in Nat,
         Query(core, c, nonce, url, expiryTime)
  PROVE  /\ commitments' \in [Cores -> [RequestId -> CommitmentHash \cup {None}]]
         /\ timeoutMap' \in [Cores -> [RequestId -> Nat]]
         /\ logs' \in Seq(OracleRequest)
  <1> DEFINE id == [callback |-> c, nonce |-> nonce]
             expiration == now + expiryTime
             event == [core |-> core, callback |-> c, id |-> id, url |-> url,
                       expiration |-> expiration, block |-> now]
  <1>1. id \in RequestId /\ expiration \in Nat /\ now \in Nat
    BY DEF TypeOK, RequestId
  <1>2. event \in OracleRequest
    <2>1. expiration \in 0..MaxUint
      BY <1>1, ConstantsAssumption DEF Query
    <2> QED BY <1>1, <2>1 DEF OracleRequest
  <1>3. /\ timeoutMap' = [timeoutMap EXCEPT ![core][id] = expiration]
        /\ commitments' = [commitments EXCEPT ![core][id] = Commitment(c, expiration)]
        /\ logs' = Append(logs, event)
    BY DEF Query
  <1>4. Commitment(c, expiration) \in CommitmentHash
    BY <1>1 DEF Commitment, CommitmentHash
  <1>5. logs' \in Seq(OracleRequest)
    BY <1>2, <1>3 DEF TypeOK
  <1> HIDE DEF id, expiration, event
  <1>6. timeoutMap' \in [Cores -> [RequestId -> Nat]]
    BY <1>1, <1>3 DEF TypeOK
  <1>7. commitments' \in [Cores -> [RequestId -> CommitmentHash \cup {None}]]
    BY <1>1, <1>3, <1>4 DEF TypeOK
  <1> QED BY <1>5, <1>6, <1>7

(* A consumer sends its request, with a nonce in range, to its own core.   *)
LEMMA RequestArguments ==
  ASSUME TypeOK, NEW c \in Consumers, NEW url \in Urls, RequestSource(c, url)
  PROVE  /\ requestCount[c] \in 1..MaxRequests
         /\ CoreOf[c] \in Cores
         /\ Query(CoreOf[c], c, requestCount[c], url, EXPIRY_TIME)
  <1>1. requestCount[c] <= MaxRequests
    BY DEF RequestSource
  <1>2. requestCount[c] \in 1..MaxRequests + 1
    BY DEF TypeOK
  <1>3. requestCount[c] \in 1..MaxRequests
    BY <1>1, <1>2, ConstantsAssumption
  <1>4. CoreOf[c] \in Cores
    BY ConstantsAssumption
  <1>5. Query(CoreOf[c], c, requestCount[c], url, EXPIRY_TIME)
    BY DEF RequestSource
  <1> QED BY <1>3, <1>4, <1>5

(* Type correctness: Spec => []TypeOK, the first part of the invariant. *)
LEMMA TypeStep == ASSUME TypeOK, [Next]_vars PROVE TypeOK'
  <1>1. ASSUME NEW c \in Consumers, NEW url \in Urls, RequestSource(c, url)
        PROVE  TypeOK'
    <2> DEFINE nonce == requestCount[c]
               id == [callback |-> c, nonce |-> nonce]
    <2>1. nonce \in 1..MaxRequests /\ nonce + 1 \in 1..MaxRequests + 1
      BY <1>1, ConstantsAssumption DEF TypeOK, RequestSource
    <2> id \in RequestId
      BY <2>1 DEF RequestId
    <2>2. Query(CoreOf[c], c, nonce, url, EXPIRY_TIME) /\ CoreOf[c] \in Cores
      BY <1>1, ConstantsAssumption DEF RequestSource
    <2>3. /\ commitments' \in [Cores -> [RequestId -> CommitmentHash \cup {None}]]
          /\ timeoutMap' \in [Cores -> [RequestId -> Nat]]
          /\ logs' \in Seq(OracleRequest)
      BY <2>1, <2>2, QueryType, ConstantsAssumption
    <2>4. /\ pendingRequests' = [pendingRequests EXCEPT ![id] = CoreOf[c]]
          /\ requestCount' = [requestCount EXCEPT ![c] = nonce + 1]
          /\ validIds' = [validIds EXCEPT ![id] = 1]
          /\ UNCHANGED <<now, owner, rawResultMap>>
      BY <1>1 DEF RequestSource
    <2> HIDE DEF id, nonce
    <2>5. requestCount' \in [Consumers -> 1..MaxRequests + 1]
      BY <2>1, <2>4 DEF TypeOK
    <2>6. pendingRequests' \in [RequestId -> Cores \cup {None}]
      BY <2>2, <2>4 DEF TypeOK
    <2>7. validIds' \in [RequestId -> 0..2]
      BY <2>4 DEF TypeOK
    <2>8. now' = now /\ owner' = owner /\ rawResultMap' = rawResultMap
      BY <2>4
    <2> QED BY <2>3, <2>5, <2>6, <2>7, <2>8, Zenon DEF TypeOK
  <1>2. ASSUME NEW core \in Cores, NEW c \in Consumers, NEW nonce \in 1..MaxRequests,
               NEW url \in Urls, NEW expiryTime \in ExternalExpiry,
               QueryExternally(core, c, nonce, url, expiryTime)
        PROVE  TypeOK'
    <2>1. expiryTime \in Nat /\ Query(core, c, nonce, url, expiryTime)
      BY <1>2, ConstantsAssumption DEF QueryExternally
    <2>2. UNCHANGED <<now, owner, requestCount, clientVars>>
      BY <1>2 DEF QueryExternally
    <2> QED BY <2>1, <2>2, QueryType DEF TypeOK, clientVars
  <1>3. ASSUME NEW core \in Cores, NEW id \in RequestId, NEW c \in Consumers,
               NEW expiration \in 0..MaxUint, NEW result \in Results,
               FulfillRequest(core, owner[core], id, c, expiration, result)
        PROVE  TypeOK'
    <2>1. /\ commitments' = [commitments EXCEPT ![core][id] = None]
          /\ timeoutMap' = [timeoutMap EXCEPT ![core][id] = 0]
          /\ UNCHANGED <<now, owner, logs, requestCount>>
      BY <1>3 DEF FulfillRequest
    <2>2. /\ commitments' \in [Cores -> [RequestId -> CommitmentHash \cup {None}]]
          /\ timeoutMap' \in [Cores -> [RequestId -> Nat]]
      BY <2>1 DEF TypeOK
    <2>3. Callback(id, result) \/ UNCHANGED clientVars
      BY <1>3 DEF FulfillRequest
    <2>4. /\ pendingRequests' \in [RequestId -> Cores \cup {None}]
          /\ validIds' \in [RequestId -> 0..2]
          /\ rawResultMap' \in [RequestId -> Results \cup {None}]
      <3>1. CASE Callback(id, result)
        <4>1. pendingRequests' = [pendingRequests EXCEPT ![id] = None]
          BY <3>1 DEF Callback
        <4>2. validIds' = [validIds EXCEPT ![id] = 2]
          BY <3>1 DEF Callback
        <4>3. rawResultMap' = [rawResultMap EXCEPT ![id] = result]
          BY <3>1 DEF Callback
        <4>4. pendingRequests' \in [RequestId -> Cores \cup {None}]
          BY <4>1 DEF TypeOK
        <4>5. validIds' \in [RequestId -> 0..2]
          BY <4>2 DEF TypeOK
        <4>6. rawResultMap' \in [RequestId -> Results \cup {None}]
          BY <4>3 DEF TypeOK
        <4> QED BY <4>4, <4>5, <4>6
      <3>2. CASE UNCHANGED clientVars
        BY <3>2 DEF clientVars, TypeOK
      <3> QED BY <2>3, <3>1, <3>2
    <2>5. now' = now /\ owner' = owner /\ logs' = logs /\ requestCount' = requestCount
      BY <2>1
    <2> QED BY <2>2, <2>4, <2>5, Zenon DEF TypeOK
  <1>4. ASSUME NEW core \in Cores, NEW newOwner \in Accounts,
               TransferOwnership(core, newOwner)
        PROVE  TypeOK'
    BY <1>4 DEF TransferOwnership, TypeOK, coreVars, clientVars
  <1>5. ASSUME Tick PROVE TypeOK'
    BY <1>5, ConstantsAssumption DEF Tick, TypeOK, coreVars, clientVars
  <1>6. ASSUME UNCHANGED vars PROVE TypeOK'
    BY <1>6 DEF vars, coreVars, clientVars, TypeOK
  <1> QED BY <1>1, <1>2, <1>3, <1>4, <1>5, <1>6 DEF Next

(* The contracts are deployed with values of their types. *)
LEMMA TypeInit == Init => TypeOK
  <1> SUFFICES ASSUME Init PROVE TypeOK
    OBVIOUS
  <1>1. logs \in Seq(OracleRequest)
    BY DEF Init
  <1>2. requestCount \in [Consumers -> 1..MaxRequests + 1] /\ now \in 1..MaxTime
    BY ConstantsAssumption DEF Init
  <1> QED BY <1>1, <1>2 DEF Init, TypeOK

(* Every reachable state of the contracts is well typed. *)
THEOREM TypeCorrect == Spec => []TypeOK
  BY TypeInit, TypeStep, PTL DEF Spec

-----------------------------------------------------------------------------
(* The consumer's two layers agree: one case per action that writes them.   *)
LEMMA ConsumerStep ==
  ASSUME TypeOK, ConsumerConsistent, [Next]_vars
  PROVE  ConsumerConsistent'
  <1>1. ASSUME NEW c \in Consumers, NEW url \in Urls, RequestSource(c, url)
        PROVE  ConsumerConsistent'
    <2> DEFINE nonce == requestCount[c]
               id == [callback |-> c, nonce |-> nonce]
    <2>1. nonce \in 1..MaxRequests /\ requestCount \in [Consumers -> 1..MaxRequests + 1]
      BY <1>1, ConstantsAssumption DEF TypeOK, RequestSource
    <2>2. id \in RequestId
      BY <2>1 DEF RequestId
    <2>3. /\ pendingRequests' = [pendingRequests EXCEPT ![id] = CoreOf[c]]
          /\ requestCount' = [requestCount EXCEPT ![c] = nonce + 1]
          /\ validIds' = [validIds EXCEPT ![id] = 1]
          /\ rawResultMap' = rawResultMap
      BY <1>1 DEF RequestSource
    <2>4. validIds[id] = 0
      BY <2>1, <2>2 DEF ConsumerConsistent
    <2> SUFFICES ASSUME NEW other \in RequestId
                 PROVE  /\ pendingRequests'[other] = IF validIds'[other] = 1
                                                      THEN CoreOf[other.callback] ELSE None
                        /\ (rawResultMap'[other] # None) <=> (validIds'[other] = 2)
                        /\ (validIds'[other] # 0) <=> (other.nonce < requestCount'[other.callback])
      BY DEF ConsumerConsistent
    <2>5. CASE other = id
      <3>1. /\ pendingRequests'[other] = CoreOf[c] /\ validIds'[other] = 1
            /\ other.callback = c /\ other.nonce = nonce
        BY <2>2, <2>3, <2>5 DEF TypeOK
      <3>2. requestCount'[c] = nonce + 1
        BY <2>1, <2>3
      <3>3. rawResultMap'[other] = None
        BY <2>2, <2>3, <2>4, <2>5 DEF ConsumerConsistent
      <3> QED BY <2>1, <3>1, <3>2, <3>3
    <2>6. CASE other # id
      <3>1. /\ pendingRequests'[other] = pendingRequests[other]
            /\ validIds'[other] = validIds[other]
            /\ rawResultMap'[other] = rawResultMap[other]
        BY <2>3, <2>6 DEF TypeOK
      <3>2. other.callback # c \/ other.nonce # nonce
        BY <2>6 DEF RequestId
      <3>3. other.callback \in Consumers /\ other.nonce \in Nat
        BY DEF RequestId
      <3>4. (other.nonce < requestCount'[other.callback])
              <=> (other.nonce < requestCount[other.callback])
        BY <2>1, <2>3, <3>2, <3>3
      <3> QED BY <3>1, <3>4 DEF ConsumerConsistent
    <2> QED BY <2>5, <2>6
  <1>2. ASSUME NEW core \in Cores, NEW id \in RequestId, NEW c \in Consumers,
               NEW expiration \in 0..MaxUint, NEW result \in Results,
               FulfillRequest(core, owner[core], id, c, expiration, result)
        PROVE  ConsumerConsistent'
    <2>1. CASE AcceptsCallback(core, c, id) /\ Callback(id, result)
      <3>1. /\ pendingRequests' = [pendingRequests EXCEPT ![id] = None]
            /\ rawResultMap' = [rawResultMap EXCEPT ![id] = result]
            /\ validIds' = [validIds EXCEPT ![id] = 2]
            /\ requestCount' = requestCount
        BY <1>2, <2>1 DEF Callback, FulfillRequest
      <3>2. validIds[id] = 1 /\ result # None
        BY <2>1, NoneAssumption DEF AcceptsCallback
      <3> QED BY <3>1, <3>2 DEF ConsumerConsistent, TypeOK
    <2>2. CASE UNCHANGED clientVars
      BY <1>2, <2>2 DEF clientVars, FulfillRequest, ConsumerConsistent
    <2> QED BY <1>2, <2>1, <2>2 DEF FulfillRequest
  <1>3. ASSUME UNCHANGED <<requestCount, clientVars>>
        PROVE  ConsumerConsistent'
    BY <1>3 DEF clientVars, ConsumerConsistent
  <1> QED
    BY <1>1, <1>2, <1>3 DEF Next, QueryExternally, TransferOwnership, Tick, vars

(* query() announces the commitment it writes and leaves the others alone.  *)
LEMMA QueryAnnounces ==
  ASSUME TypeOK, CommitmentAnnounced, NEW core \in Cores, NEW c \in Consumers,
         NEW nonce \in 1..MaxRequests, NEW url \in Urls, NEW expiryTime \in Nat,
         Query(core, c, nonce, url, expiryTime)
  PROVE  CommitmentAnnounced'
  <1> DEFINE id == [callback |-> c, nonce |-> nonce]
             expiration == now + expiryTime
             event == [core |-> core, callback |-> c, id |-> id, url |-> url,
                       expiration |-> expiration, block |-> now]
  <1>1. id \in RequestId /\ expiration \in Nat /\ now \in Nat /\ expiration >= now
    BY DEF TypeOK, RequestId
  <1>2. /\ timeoutMap' = [timeoutMap EXCEPT ![core][id] = expiration]
        /\ commitments' = [commitments EXCEPT ![core][id] = Commitment(c, expiration)]
        /\ logs' = Append(logs, event)
    BY DEF Query
  <1>3. logs \in Seq(OracleRequest) /\ Len(logs) \in Nat
    BY DEF TypeOK
  <1>4. /\ Len(logs') = Len(logs) + 1
        /\ logs'[Len(logs) + 1] = event
        /\ \A i \in 1..Len(logs) : logs'[i] = logs[i]
    BY <1>2, <1>3
  <1>5. Commitment(c, expiration) # None
    BY <1>1, NoneAssumption DEF Commitment, CommitmentHash
  <1> SUFFICES ASSUME NEW k \in Cores, NEW other \in RequestId
               PROVE  IF commitments'[k][other] = None
                      THEN timeoutMap'[k][other] = 0
                      ELSE /\ commitments'[k][other]
                                = Commitment(other.callback, timeoutMap'[k][other])
                           /\ \E i \in 1..Len(logs') :
                                /\ logs'[i].core = k /\ logs'[i].id = other
                                /\ logs'[i].callback = other.callback
                                /\ logs'[i].expiration = timeoutMap'[k][other]
                                /\ logs'[i].expiration >= logs'[i].block
    BY DEF CommitmentAnnounced, Commitment
  <1>6. CASE k = core /\ other = id
    <2>1. /\ timeoutMap'[k][other] = expiration
          /\ commitments'[k][other] = Commitment(c, expiration)
      BY <1>1, <1>2, <1>6 DEF TypeOK
    <2>2. /\ event.core = k /\ event.id = other /\ event.callback = other.callback
          /\ event.expiration = expiration /\ event.block = now /\ other.callback = c
      BY <1>6
    <2>3. Len(logs) + 1 \in 1..Len(logs')
      BY <1>3, <1>4
    <2> HIDE DEF event, id, expiration
    <2> QED BY <1>1, <1>4, <1>5, <2>1, <2>2, <2>3
  <1>7. CASE ~(k = core /\ other = id)
    <2> HIDE DEF event, id, expiration
    <2>1. /\ timeoutMap'[k][other] = timeoutMap[k][other]
          /\ commitments'[k][other] = commitments[k][other]
      BY <1>2, <1>7 DEF TypeOK
    <2>2. CASE commitments[k][other] = None
      BY <2>1, <2>2 DEF CommitmentAnnounced
    <2>3. CASE commitments[k][other] # None
      <3>1. PICK i \in 1..Len(logs) :
              /\ logs[i].core = k /\ logs[i].id = other
              /\ logs[i].callback = other.callback
              /\ logs[i].expiration = timeoutMap[k][other]
              /\ logs[i].expiration >= logs[i].block
        BY <2>3 DEF CommitmentAnnounced
      <3>2. i \in 1..Len(logs') /\ logs'[i] = logs[i]
        BY <1>3, <1>4
      <3>3. commitments[k][other] = Commitment(other.callback, timeoutMap[k][other])
        BY <2>3 DEF CommitmentAnnounced
      <3> QED BY <2>1, <2>3, <3>1, <3>2, <3>3
    <2> QED BY <2>2, <2>3
  <1> QED BY <1>6, <1>7

(* The two mappings and the event log stay in step. *)
LEMMA CommitmentStep ==
  ASSUME TypeOK, CommitmentAnnounced, [Next]_vars
  PROVE  CommitmentAnnounced'
  <1>1. ASSUME NEW c \in Consumers, NEW url \in Urls, RequestSource(c, url)
        PROVE  CommitmentAnnounced'
    <2>1. requestCount[c] \in 1..MaxRequests /\ CoreOf[c] \in Cores
      BY <1>1, RequestArguments
    <2>2. Query(CoreOf[c], c, requestCount[c], url, EXPIRY_TIME)
      BY <1>1, RequestArguments
    <2> QED BY <2>1, <2>2, QueryAnnounces, ConstantsAssumption
  <1>2. ASSUME NEW core \in Cores, NEW c \in Consumers, NEW nonce \in 1..MaxRequests,
               NEW url \in Urls, NEW expiryTime \in ExternalExpiry,
               QueryExternally(core, c, nonce, url, expiryTime)
        PROVE  CommitmentAnnounced'
    BY <1>2, QueryAnnounces, ConstantsAssumption DEF QueryExternally
  <1>3. ASSUME NEW core \in Cores, NEW id \in RequestId, NEW c \in Consumers,
               NEW expiration \in 0..MaxUint, NEW result \in Results,
               FulfillRequest(core, owner[core], id, c, expiration, result)
        PROVE  CommitmentAnnounced'
    <2>1. /\ commitments' = [commitments EXCEPT ![core][id] = None]
          /\ timeoutMap' = [timeoutMap EXCEPT ![core][id] = 0]
          /\ logs' = logs
      BY <1>3 DEF FulfillRequest
    <2>2. ASSUME NEW k \in Cores, NEW other \in RequestId
          PROVE  \/ commitments'[k][other] = None /\ timeoutMap'[k][other] = 0
                 \/ /\ commitments'[k][other] = commitments[k][other]
                    /\ timeoutMap'[k][other] = timeoutMap[k][other]
      BY <2>1 DEF TypeOK
    <2> QED BY <2>1, <2>2 DEF CommitmentAnnounced, Commitment
  <1>4. ASSUME UNCHANGED <<coreVars, logs>>
        PROVE  CommitmentAnnounced'
    BY <1>4 DEF coreVars, CommitmentAnnounced, Commitment
  <1> QED BY <1>1, <1>2, <1>3, <1>4 DEF Next, TransferOwnership, Tick, vars

(* What the core of an open request has committed itself to is what it      *)
(* announced last, and it announced the deadline of the request.            *)
Pledged(id) ==
  LET core == CoreOf[id.callback]
  IN  \E own \in 1..Len(logs), last \in 1..Len(logs) :
        /\ own <= last
        /\ Announces(logs[own], core, id)
        /\ logs[own].expiration = logs[own].block + EXPIRY_TIME
        /\ AnnouncedLast(last, core, id)
        /\ commitments[core][id] = Commitment(id.callback, logs[last].expiration)

OngoingIsPledged ==
  \A id \in RequestId : validIds[id] = 1 /\ id.callback \notin Reverting => Pledged(id)

(* So it can be answered until that deadline.                               *)
LEMMA PledgeIsAnswerable ==
  ASSUME TypeOK, ConsumerConsistent, CommitmentAnnounced, OngoingIsPledged
  PROVE  OngoingIsAnswerable
  <1> SUFFICES ASSUME NEW id \in RequestId, validIds[id] = 1, id.callback \notin Reverting
               PROVE  LET core == CoreOf[id.callback]
                      IN  \E own \in 1..Len(logs), last \in 1..Len(logs) :
                            /\ own <= last
                            /\ Announces(logs[own], core, id)
                            /\ logs[own].expiration = logs[own].block + EXPIRY_TIME
                            /\ AnnouncedLast(last, core, id)
                            /\ now <= logs[last].expiration =>
                                 /\ Fulfillable(core, owner[core], id, id.callback,
                                                logs[last].expiration)
                                 /\ AcceptsCallback(core, id.callback, id)
    BY DEF OngoingIsAnswerable
  <1> DEFINE core == CoreOf[id.callback]
  <1>1. PICK own \in 1..Len(logs), last \in 1..Len(logs) :
          /\ own <= last
          /\ Announces(logs[own], core, id)
          /\ logs[own].expiration = logs[own].block + EXPIRY_TIME
          /\ AnnouncedLast(last, core, id)
          /\ commitments[core][id] = Commitment(id.callback, logs[last].expiration)
    BY DEF OngoingIsPledged, Pledged
  <1>2. core \in Cores /\ id.callback \in Consumers
    BY ConstantsAssumption DEF RequestId
  <1>3. logs[last].expiration \in Nat
    <2>1. logs[last] \in OracleRequest
      BY DEF TypeOK
    <2> QED BY <2>1, ConstantsAssumption DEF OracleRequest
  <1>4. commitments[core][id] # None
    BY <1>1, <1>2, <1>3, NoneAssumption DEF Commitment, CommitmentHash
  <1>5. timeoutMap[core][id] = logs[last].expiration
    <2>1. commitments[core][id] = Commitment(id.callback, timeoutMap[core][id])
      BY <1>2, <1>4 DEF CommitmentAnnounced
    <2>2. Commitment(id.callback, timeoutMap[core][id])
            = Commitment(id.callback, logs[last].expiration)
      BY <1>1, <2>1
    <2> QED BY <2>2 DEF Commitment
  <1>6. AcceptsCallback(core, id.callback, id)
    BY DEF AcceptsCallback, ConsumerConsistent
  <1>7. now <= logs[last].expiration =>
          Fulfillable(core, owner[core], id, id.callback, logs[last].expiration)
    BY <1>1, <1>3, <1>4, <1>5 DEF Fulfillable, CheckRequestId, TypeOK
  <1> QED BY <1>1, <1>6, <1>7

(* query() announces what it commits its core to,                           *)
LEMMA QueryPledges ==
  ASSUME TypeOK, NEW core \in Cores, NEW c \in Consumers, NEW nonce \in 1..MaxRequests,
         NEW url \in Urls, NEW expiryTime \in Nat, Query(core, c, nonce, url, expiryTime)
  PROVE  LET id == [callback |-> c, nonce |-> nonce]
         IN  /\ core = CoreOf[c] /\ expiryTime = EXPIRY_TIME => Pledged(id)'
             /\ \A other \in RequestId : Pledged(other) => Pledged(other)'
  <1> DEFINE id == [callback |-> c, nonce |-> nonce]
             expiration == now + expiryTime
             event == [core |-> core, callback |-> c, id |-> id, url |-> url,
                       expiration |-> expiration, block |-> now]
  <1>1. PICK n \in Nat : n = Len(logs)
    BY DEF TypeOK
  <1>2. id \in RequestId /\ expiration \in Nat /\ now \in Nat
    BY DEF TypeOK, RequestId
  <1>3. /\ commitments' = [commitments EXCEPT ![core][id] = Commitment(c, expiration)]
        /\ logs' = Append(logs, event)
    BY DEF Query
  <1>4. logs \in Seq(OracleRequest)
    BY DEF TypeOK
  <1>5. /\ Len(logs') = n + 1 /\ n + 1 \in 1..n + 1
        /\ logs'[n + 1] = event
        /\ \A i \in 1..n : i \in 1..n + 1 /\ logs'[i] = logs[i]
    BY <1>3, <1>4, <1>1
  <1>6. Announces(event, core, id)
    BY DEF Announces
  <1>7. AnnouncedLast(n + 1, core, id)'
    BY <1>4, <1>5, <1>6 DEF AnnouncedLast, Announces
  <1>8. event.expiration = expiration /\ event.block = now /\ id.callback = c
    OBVIOUS
  <1>9. commitments'[core][id] = Commitment(c, expiration)
    BY <1>2, <1>3 DEF TypeOK
  <1> HIDE DEF id, event, expiration
  <1>10. ASSUME core = CoreOf[c], expiryTime = EXPIRY_TIME
        PROVE  Pledged(id)'
    <2>1. event.expiration = event.block + EXPIRY_TIME
      BY <1>8, <1>10 DEF expiration
    <2>2. Announces(logs[n + 1], core, id)'
      BY <1>5, <1>6 DEF Announces
    <2> QED BY <1>5, <1>7, <1>8, <1>9, <1>10, <2>1, <2>2, ConstantsAssumption DEF Pledged
  <1>11. ASSUME NEW other \in RequestId, Pledged(other)
         PROVE  Pledged(other)'
    <2> DEFINE k == CoreOf[other.callback]
    <2>1. PICK own \in 1..n, last \in 1..n :
            /\ own <= last
            /\ Announces(logs[own], k, other)
            /\ logs[own].expiration = logs[own].block + EXPIRY_TIME
            /\ AnnouncedLast(last, k, other)
            /\ commitments[k][other] = Commitment(other.callback, logs[last].expiration)
      BY <1>11, <1>1 DEF Pledged
    <2>2. /\ own \in 1..n + 1 /\ last \in 1..n + 1 /\ own <= n + 1
          /\ logs'[own] = logs[own] /\ logs'[last] = logs[last]
      BY <1>4, <1>5, <2>1
    <2>3. Announces(logs[own], k, other)'
      BY <2>1, <2>2 DEF Announces
    <2>4. k \in Cores /\ other.callback \in Consumers
      BY ConstantsAssumption DEF RequestId
    <2>5. CASE k = core /\ other = id
      <3>1. commitments'[k][other] = Commitment(other.callback, event.expiration)
        BY <1>8, <1>9, <2>5
      <3> QED
        BY <1>5, <1>7, <2>1, <2>2, <2>3, <2>5, <3>1, ConstantsAssumption DEF Pledged
    <2>6. CASE ~(k = core /\ other = id)
      <3>1. commitments'[k][other] = commitments[k][other]
        BY <1>3, <2>4, <2>6 DEF TypeOK
      <3>2. ~Announces(event, k, other)
        BY <1>6, <2>6 DEF Announces
      <3>3. AnnouncedLast(last, k, other)'
        <4>1. Announces(logs'[last], k, other)
          BY <2>1, <2>2 DEF AnnouncedLast
        <4>2. ASSUME NEW j \in last + 1..n + 1 PROVE ~Announces(logs'[j], k, other)
          <5>1. CASE j = n + 1
            BY <1>5, <3>2, <5>1
          <5>2. CASE j # n + 1
            <6>1. j \in last + 1..n /\ j \in 1..n
              BY <1>4, <5>2
            <6> QED BY <1>5, <1>1, <2>1, <6>1 DEF AnnouncedLast
          <5> QED BY <5>1, <5>2
        <4> QED BY <1>5, <4>1, <4>2 DEF AnnouncedLast, Announces
      <3> QED BY <1>5, <2>1, <2>2, <2>3, <3>1, <3>3, ConstantsAssumption DEF Pledged
    <2> QED BY <2>5, <2>6
  <1> QED BY <1>10, <1>11 DEF id

(* and nothing else changes it but the step that answers the request.       *)
LEMMA OngoingStep ==
  ASSUME TypeOK, ConsumerConsistent, CommitmentAnnounced, OngoingIsPledged, [Next]_vars
  PROVE  OngoingIsPledged'
  <1>1. ASSUME NEW c \in Consumers, NEW url \in Urls, RequestSource(c, url)
        PROVE  OngoingIsPledged'
    <2>1. CoreOf[c] \in Cores
      BY <1>1, RequestArguments
    <2>2. PICK nonce \in 1..MaxRequests :
            nonce = requestCount[c] /\ Query(CoreOf[c], c, nonce, url, EXPIRY_TIME)
      BY <1>1, RequestArguments
    <2> DEFINE new == [callback |-> c, nonce |-> nonce]
    <2>3. /\ Pledged(new)'
          /\ \A id \in RequestId : Pledged(id) => Pledged(id)'
      BY <2>1, <2>2, QueryPledges, ConstantsAssumption
    <2>4. validIds' = [validIds EXCEPT ![new] = 1]
      BY <1>1, <2>2 DEF RequestSource
    <2> HIDE DEF new
    <2>5. \A id \in RequestId : validIds'[id] = 1 => validIds[id] = 1 \/ id = new
      BY <2>4 DEF TypeOK
    <2> QED BY <2>3, <2>5 DEF OngoingIsPledged
  <1>2. ASSUME NEW core \in Cores, NEW c \in Consumers, NEW nonce \in 1..MaxRequests,
               NEW url \in Urls, NEW expiryTime \in ExternalExpiry,
               QueryExternally(core, c, nonce, url, expiryTime)
        PROVE  OngoingIsPledged'
    <2>1. \A id \in RequestId : Pledged(id) => Pledged(id)'
      BY <1>2, QueryPledges, ConstantsAssumption DEF QueryExternally
    <2>2. validIds' = validIds
      BY <1>2 DEF QueryExternally, clientVars
    <2> QED BY <2>1, <2>2 DEF OngoingIsPledged
  <1>3. ASSUME NEW core \in Cores, NEW id \in RequestId, NEW c \in Consumers,
               NEW expiration \in 0..MaxUint, NEW result \in Results,
               FulfillRequest(core, owner[core], id, c, expiration, result)
        PROVE  OngoingIsPledged'
    <2>1. commitments' = [commitments EXCEPT ![core][id] = None] /\ logs' = logs
      BY <1>3 DEF FulfillRequest
    <2>2. c = id.callback /\ CoreOf[id.callback] \in Cores
      <3>1. commitments[core][id] # None /\ commitments[core][id] = Commitment(c, expiration)
        BY <1>3 DEF FulfillRequest, Fulfillable, CheckRequestId
      <3>2. commitments[core][id] = Commitment(id.callback, timeoutMap[core][id])
        BY <3>1 DEF CommitmentAnnounced
      <3>3. c = id.callback
        BY <3>1, <3>2 DEF Commitment
      <3> QED BY <3>3, ConstantsAssumption
    <2>3. ASSUME NEW other \in RequestId, Pledged(other),
                 ~(other = id /\ core = CoreOf[id.callback])
          PROVE  Pledged(other)'
      <3>1. CoreOf[other.callback] \in Cores
        BY ConstantsAssumption DEF RequestId
      <3>2. commitments'[CoreOf[other.callback]][other]
              = commitments[CoreOf[other.callback]][other]
        BY <2>1, <2>2, <2>3, <3>1 DEF TypeOK
      <3> QED BY <2>1, <2>3, <3>2 DEF Pledged, AnnouncedLast, Announces, Commitment
    <2>4. CASE Callback(id, result)
      <3>1. validIds' = [validIds EXCEPT ![id] = 2]
        BY <2>4 DEF Callback
      <3>2. \A other \in RequestId : validIds'[other] = 1 => other # id /\ validIds[other] = 1
        BY <3>1 DEF TypeOK
      <3> QED BY <2>3, <3>2 DEF OngoingIsPledged
    <2>5. CASE /\ ~AcceptsCallback(core, c, id) \/ c \in Reverting
               /\ UNCHANGED clientVars
      <3>1. validIds' = validIds
        BY <2>5 DEF clientVars
      <3>2. ASSUME NEW other \in RequestId, validIds[other] = 1,
                   other.callback \notin Reverting, other = id, core = CoreOf[id.callback]
            PROVE  FALSE
        <4>1. pendingRequests[id] = core
          BY <3>2 DEF ConsumerConsistent
        <4> QED BY <2>2, <2>5, <3>2, <4>1 DEF AcceptsCallback
      <3> QED BY <2>3, <3>1, <3>2 DEF OngoingIsPledged
    <2> QED BY <1>3, <2>4, <2>5 DEF FulfillRequest
  <1>4. ASSUME UNCHANGED <<coreVars, logs, clientVars>>
        PROVE  OngoingIsPledged'
    BY <1>4
    DEF coreVars, clientVars, OngoingIsPledged, Pledged, AnnouncedLast, Announces, Commitment
  <1> QED BY <1>1, <1>2, <1>3, <1>4 DEF Next, TransferOwnership, Tick, vars

-----------------------------------------------------------------------------
(* The inductive invariant: no part but TypeOK is inductive alone.          *)
Inv == TypeOK /\ ConsumerConsistent /\ CommitmentAnnounced /\ OngoingIsPledged

(* The inductive invariant holds of contracts just deployed. *)
LEMMA InvInit == Init => Inv
  BY TypeInit
     DEF Init, Inv, ConsumerConsistent, CommitmentAnnounced, OngoingIsPledged, RequestId

(* Every transaction preserves the inductive invariant. *)
LEMMA InvStep == Inv /\ [Next]_vars => Inv'
  BY TypeStep, ConsumerStep, CommitmentStep, OngoingStep DEF Inv

(* The inductive invariant of the contracts: types, and the three relations *)
(* between the mappings of consumer, core and log that need one another.    *)
THEOREM Invariance == Spec => []Inv
  BY InvInit, InvStep, PTL DEF Spec

(* pendingRequests, validIds, rawResultMap and requestCount always tell the *)
(* same story about a request.                                              *)
THEOREM ConsumerIsConsistent == Spec => []ConsumerConsistent
  BY Invariance, PTL DEF Inv

(* Whatever is committed on a core was announced by an event.               *)
THEOREM CommitmentsAreAnnounced == Spec => []CommitmentAnnounced
  BY Invariance, PTL DEF Inv

(* Until the deadline its core announced last, an open request of a         *)
(* consumer that does not revert can be answered with what was announced,   *)
(* whoever calls query() and whatever else is fulfilled.                    *)
THEOREM OngoingStaysAnswerable == Spec => []OngoingIsAnswerable
  <1>1. Inv => OngoingIsAnswerable
    BY PledgeIsAnswerable DEF Inv
  <1> QED BY <1>1, Invariance, PTL

(* An answer arrives before a deadline the asked core announced.            *)
LEMMA AnsweredInTimeStep ==
  ASSUME Inv, [Next]_vars, NEW id \in RequestId, rawResultMap'[id] # rawResultMap[id]
  PROVE  \E i \in 1..Len(logs) :
           /\ logs[i].core = CoreOf[id.callback]
           /\ logs[i].id = id
           /\ now <= logs[i].expiration
  <1>1. PICK core \in Cores, req \in RequestId, c \in Consumers,
             expiration \in 0..MaxUint, result \in Results :
               FulfillRequest(core, owner[core], req, c, expiration, result)
    BY DEF Next, vars, clientVars, RequestSource, QueryExternally, TransferOwnership, Tick
  <1>2. AcceptsCallback(core, c, req) /\ rawResultMap' = [rawResultMap EXCEPT ![req] = result]
    BY <1>1 DEF FulfillRequest, Callback, clientVars
  <1>3. req = id
    BY <1>2 DEF Inv, TypeOK
  <1>4. core = CoreOf[id.callback]
    BY <1>2, <1>3 DEF AcceptsCallback, Inv, ConsumerConsistent
  <1>5. commitments[core][id] # None /\ timeoutMap[core][id] >= now
    BY <1>1, <1>3 DEF FulfillRequest, Fulfillable, CheckRequestId
  <1>6. \E i \in 1..Len(logs) : /\ logs[i].core = core /\ logs[i].id = id
                               /\ logs[i].expiration = timeoutMap[core][id]
    BY <1>5 DEF Inv, CommitmentAnnounced
  <1> QED BY <1>4, <1>5, <1>6

(* No consumer is given an answer after the deadline announced for it.      *)
THEOREM AnswersComeInTime == Spec => AnsweredInTime
  <1>1. Inv /\ [Next]_vars =>
          [\A id \in RequestId :
             rawResultMap'[id] # rawResultMap[id] =>
               \E i \in 1..Len(logs) :
                 /\ logs[i].core = CoreOf[id.callback]
                 /\ logs[i].id = id
                 /\ now <= logs[i].expiration]_vars
    BY AnsweredInTimeStep
  <1> QED BY <1>1, Invariance, PTL DEF Spec, AnsweredInTime

-----------------------------------------------------------------------------
(* Refinement: a request opens a request of the abstract specification, an  *)
(* accepted callback answers one, every other transaction changes nothing.  *)
LEMMA OneShotInit == Init => OneShot!Init
  <1> SUFFICES ASSUME Init PROVE OneShot!Init
    OBVIOUS
  <1>1. [c \in Consumers |-> requestCount[c] - 1] = [c \in Consumers |-> 0]
    BY DEF Init
  <1> QED BY <1>1 DEF Init, OneShot!Init, OneShot!RequestId, RequestId

(* Every transaction opens a request, answers one, or does neither. *)
LEMMA OneShotStep == ASSUME Inv, [Next]_vars PROVE [OneShot!Next]_OneShot!vars
  <1> DEFINE opened == [c \in Consumers |-> requestCount[c] - 1]
  <1>1. ASSUME NEW c \in Consumers, NEW url \in Urls, RequestSource(c, url)
        PROVE  OneShot!Open(c)
    <2>1. requestCount[c] \in 1..MaxRequests /\ requestCount \in [Consumers -> Nat]
      BY <1>1, RequestArguments DEF Inv, TypeOK
    <2>2. /\ requestCount' = [requestCount EXCEPT ![c] = requestCount[c] + 1]
          /\ rawResultMap' = rawResultMap
      BY <1>1 DEF RequestSource
    <2>3. opened[c] < MaxRequests
      BY <2>1, ConstantsAssumption
    <2>4. opened' = [opened EXCEPT ![c] = opened[c] + 1]
      <3>1. ASSUME NEW d \in Consumers
            PROVE  requestCount'[d] - 1
                     = IF d = c THEN (requestCount[c] - 1) + 1 ELSE requestCount[d] - 1
        BY <2>1, <2>2
      <3>2. opened' = [d \in Consumers |->
                         IF d = c THEN (requestCount[c] - 1) + 1 ELSE requestCount[d] - 1]
        BY <3>1
      <3> QED BY <3>2
    <2> QED BY <2>2, <2>3, <2>4 DEF OneShot!Open
  <1>2. ASSUME NEW core \in Cores, NEW id \in RequestId, NEW c \in Consumers,
               NEW expiration \in 0..MaxUint, NEW result \in Results,
               FulfillRequest(core, owner[core], id, c, expiration, result)
        PROVE  OneShot!Answer(id, result) \/ UNCHANGED <<requestCount, rawResultMap>>
    <2>1. CASE AcceptsCallback(core, c, id) /\ Callback(id, result)
      <3>1. validIds[id] = 1
        BY <2>1 DEF AcceptsCallback
      <3>2. id.nonce < requestCount[id.callback] /\ rawResultMap[id] = None
        BY <3>1 DEF Inv, ConsumerConsistent
      <3>3. id.callback \in Consumers /\ id.nonce \in Nat /\ requestCount[id.callback] \in Nat
        BY DEF RequestId, Inv, TypeOK
      <3>4. id.nonce <= opened[id.callback]
        BY <3>2, <3>3
      <3>5. /\ rawResultMap' = [rawResultMap EXCEPT ![id] = result]
            /\ requestCount' = requestCount
        BY <1>2, <2>1 DEF Callback, FulfillRequest
      <3> QED BY <3>2, <3>4, <3>5 DEF OneShot!Answer
    <2>2. CASE UNCHANGED clientVars
      BY <1>2, <2>2 DEF clientVars, FulfillRequest
    <2> QED BY <1>2, <2>1, <2>2 DEF FulfillRequest
  <1>3. ASSUME UNCHANGED <<requestCount, rawResultMap>>
        PROVE  UNCHANGED OneShot!vars
    BY <1>3 DEF OneShot!vars
  <1>4. CASE \E c \in Consumers, url \in Urls : RequestSource(c, url)
    BY <1>1, <1>4 DEF OneShot!Next
  <1>5. CASE \E core \in Cores, id \in RequestId, c \in Consumers,
                expiration \in 0..MaxUint, result \in Results :
               FulfillRequest(core, owner[core], id, c, expiration, result)
    <2>1. PICK core \in Cores, id \in RequestId, c \in Consumers,
               expiration \in 0..MaxUint, result \in Results :
                 FulfillRequest(core, owner[core], id, c, expiration, result)
      BY <1>5
    <2>2. CASE OneShot!Answer(id, result)
      BY <2>2 DEF OneShot!Next, OneShot!RequestId, RequestId
    <2> QED BY <1>2, <1>3, <2>1, <2>2
  <1>6. CASE \/ \E core \in Cores, c \in Consumers, nonce \in 1..MaxRequests,
                   url \in Urls, expiryTime \in ExternalExpiry :
                  QueryExternally(core, c, nonce, url, expiryTime)
             \/ \E core \in Cores, newOwner \in Accounts : TransferOwnership(core, newOwner)
             \/ Tick
             \/ UNCHANGED vars
    <2>1. UNCHANGED <<requestCount, rawResultMap>>
      BY <1>6 DEF QueryExternally, TransferOwnership, Tick, vars, clientVars
    <2> QED BY <1>3, <2>1
  <1> QED BY <1>4, <1>5, <1>6, NextCases

(* The contracts implement OneShotRequests: a request is answered at most   *)
(* once, with one value, and only after it was opened.                      *)
THEOREM Refinement == Spec => ImplementsOneShot
  BY OneShotInit, OneShotStep, Invariance, PTL DEF Spec, ImplementsOneShot, OneShot!Spec

-----------------------------------------------------------------------------
(* The services.                                                           *)

(* Assigning to the entry of one thread changes that entry and no other.   *)
LEMMA PutThread ==
  ASSUME NEW T, NEW f \in [Services -> [Threads -> T]],
         NEW s \in Services, NEW t \in Threads, NEW v \in T
  PROVE  /\ [f EXCEPT ![s][t] = v] \in [Services -> [Threads -> T]]
         /\ \A s2 \in Services, t2 \in Threads :
              [f EXCEPT ![s][t] = v][s2][t2] = IF s2 = s /\ t2 = t THEN v ELSE f[s2][t2]
  <1>1. [f EXCEPT ![s][t] = v] \in [Services -> [Threads -> T]]
    OBVIOUS
  <1>2. ASSUME NEW s2 \in Services, NEW t2 \in Threads
        PROVE  [f EXCEPT ![s][t] = v][s2][t2] = IF s2 = s /\ t2 = t THEN v ELSE f[s2][t2]
    OBVIOUS
  <1> QED BY <1>1, <1>2

-----------------------------------------------------------------------------
(* What the chain does: the service adds nothing to what OracleCore allows. *)

(* The event a thread works on. *)
LEMMA EventType ==
  ASSUME SystemTypeOK, NEW s \in Services, NEW t \in Threads, pc[s][t] \in Working
  PROVE  /\ current[s][t] \in 1..Len(logs)
         /\ Event(s, t) \in OracleRequest
         /\ Event(s, t).id \in RequestId
  <1>1. /\ current[s][t] \in 0..Len(logs) /\ current[s][t] # 0
        /\ logs \in Seq(OracleRequest)
    BY DEF SystemTypeOK, TypeOK
  <1>2. current[s][t] \in 1..Len(logs) /\ Event(s, t) \in OracleRequest
    BY <1>1 DEF Event
  <1> QED BY <1>2 DEF OracleRequest

(* A thread writes back what the data source answered, or an empty string. *)
LEMMA FulfillOnChain ==
  ASSUME SystemTypeOK, NEW s \in Services, NEW t \in Threads, Fulfill(s, t),
         outcome[s][t].result \in Results
  PROVE  [Next]_vars
  <1> DEFINE e == Event(s, t)
  <1>1. CASE UNCHANGED vars
    BY <1>1
  <1>2. CASE FulfillRequest(e.core, AccountOf[s], e.id, e.callback,
                            e.expiration, outcome[s][t].result)
    <2>1. pc[s][t] \in Working
      BY DEF Fulfill, Working
    <2>2. e.core \in Cores /\ e.id \in RequestId /\ e.callback \in Consumers
                           /\ e.expiration \in 0..MaxUint
      BY <2>1, EventType DEF OracleRequest
    <2>3. AccountOf[s] = owner[e.core]
      BY <1>2 DEF FulfillRequest, Fulfillable
    <2> HIDE DEF e
    <2>4. FulfillRequest(e.core, owner[e.core], e.id, e.callback,
                         e.expiration, outcome[s][t].result)
      BY <1>2, <2>3
    <2> QED BY <2>2, <2>4 DEF Next
  <1> QED BY <1>1, <1>2 DEF Fulfill

-----------------------------------------------------------------------------
(* What the parts of an action do to the variables of the threads.          *)

ThreadVarsTyped ==
  /\ pc \in [Services -> [Threads -> PC]]
  /\ current \in [Services -> [Threads -> 0..Len(logs)]]
  /\ batch \in [Services -> [Threads -> SUBSET (1..Len(logs))]]
  /\ outcome \in [Services -> [Threads -> Outcome]]

(* Only thread t of s moves. *)
OthersStay(s, t) ==
  \A s2 \in Services, t2 \in Threads :
    s2 # s \/ t2 # t =>
      /\ pc'[s2][t2] = pc[s2][t2]
      /\ current'[s2][t2] = current[s2][t2]
      /\ outcome'[s2][t2] = outcome[s2][t2]

(* What a thread has at hand fits what it is about to do. *)
ThreadOK(s, t) ==
  /\ current[s][t] # 0 <=> pc[s][t] \in Working
  /\ pc[s][t] \in {"find", "save", "fetch"} => outcome[s][t] = Success
  /\ pc[s][t] \in {"check", "fulfill"} =>
       outcome[s][t].status = "SUCCESS" /\ outcome[s][t].result \in Results
  /\ pc[s][t] = "update" /\ outcome[s][t].status = "UNEXPECTED" =>
       outcome[s][t].result = NoResult

(* The outcome a thread starts with is an outcome. *)
LEMMA SuccessType == Success \in Outcome
  BY DEF Success, Outcome, ReqStatus

(* A thread that begins with an event is at find, and the others stay. *)
LEMMA BeginEffect ==
  ASSUME ThreadVarsTyped, logs' = logs, NEW s \in Services, NEW t \in Threads,
         NEW events \in SUBSET (1..Len(logs)), Begin(s, t, events)
  PROVE  /\ ThreadVarsTyped'
         /\ OthersStay(s, t)
         /\ pc'[s][t] = "find"
         /\ ThreadOK(s, t)'
  <1>1. PICK first \in events :
          /\ pc' = [pc EXCEPT ![s][t] = "find"]
          /\ current' = [current EXCEPT ![s][t] = first]
          /\ batch' = [batch EXCEPT ![s][t] = events \ {first}]
          /\ outcome' = [outcome EXCEPT ![s][t] = Success]
    BY DEF Begin, Goto
  <1>2. first \in 0..Len(logs) /\ first # 0 /\ events \ {first} \in SUBSET (1..Len(logs))
    OBVIOUS
  <1>3. "find" \in PC /\ "find" \in Working
    BY DEF PC, Working
  <1>4. /\ pc' \in [Services -> [Threads -> PC]]
        /\ \A s2 \in Services, t2 \in Threads :
             pc'[s2][t2] = IF s2 = s /\ t2 = t THEN "find" ELSE pc[s2][t2]
    BY <1>1, <1>3, PutThread DEF ThreadVarsTyped
  <1>5. /\ current' \in [Services -> [Threads -> 0..Len(logs)]]
        /\ \A s2 \in Services, t2 \in Threads :
             current'[s2][t2] = IF s2 = s /\ t2 = t THEN first ELSE current[s2][t2]
    BY <1>1, <1>2, PutThread DEF ThreadVarsTyped
  <1>6. batch' \in [Services -> [Threads -> SUBSET (1..Len(logs))]]
    BY <1>1, <1>2, PutThread DEF ThreadVarsTyped
  <1>7. /\ outcome' \in [Services -> [Threads -> Outcome]]
        /\ \A s2 \in Services, t2 \in Threads :
             outcome'[s2][t2] = IF s2 = s /\ t2 = t THEN Success ELSE outcome[s2][t2]
    BY <1>1, SuccessType, PutThread DEF ThreadVarsTyped
  <1>8. ThreadVarsTyped'
    BY <1>4, <1>5, <1>6, <1>7 DEF ThreadVarsTyped
  <1>9. OthersStay(s, t)
    BY <1>4, <1>5, <1>7 DEF OthersStay
  <1>10. pc'[s][t] = "find" /\ current'[s][t] # 0 /\ outcome'[s][t] = Success
    BY <1>2, <1>4, <1>5, <1>7
  <1>11. ThreadOK(s, t)'
    BY <1>3, <1>10 DEF ThreadOK
  <1> QED BY <1>8, <1>9, <1>10, <1>11

(* A thread that rests has no event, and the others stay. *)
LEMMA RestEffect ==
  ASSUME ThreadVarsTyped, logs' = logs, NEW s \in Services, NEW t \in Threads, Rest(s, t)
  PROVE  /\ ThreadVarsTyped'
         /\ OthersStay(s, t)
         /\ pc'[s][t] = "idle"
         /\ ThreadOK(s, t)'
  <1>1. /\ pc' = [pc EXCEPT ![s][t] = "idle"]
        /\ current' = [current EXCEPT ![s][t] = 0]
        /\ batch' = [batch EXCEPT ![s][t] = {}]
        /\ outcome' = [outcome EXCEPT ![s][t] = Success]
    BY DEF Rest, Goto
  <1>2. 0 \in 0..Len(logs) /\ {} \in SUBSET (1..Len(logs))
    <2>1. Len(logs) \in Nat
      BY DEF ThreadVarsTyped
    <2> QED BY <2>1
  <1>3. "idle" \in PC /\ "idle" \notin Working
    BY DEF PC, Working
  <1>4. /\ pc' \in [Services -> [Threads -> PC]]
        /\ \A s2 \in Services, t2 \in Threads :
             pc'[s2][t2] = IF s2 = s /\ t2 = t THEN "idle" ELSE pc[s2][t2]
    BY <1>1, <1>3, PutThread DEF ThreadVarsTyped
  <1>5. /\ current' \in [Services -> [Threads -> 0..Len(logs)]]
        /\ \A s2 \in Services, t2 \in Threads :
             current'[s2][t2] = IF s2 = s /\ t2 = t THEN 0 ELSE current[s2][t2]
    BY <1>1, <1>2, PutThread DEF ThreadVarsTyped
  <1>6. batch' \in [Services -> [Threads -> SUBSET (1..Len(logs))]]
    BY <1>1, <1>2, PutThread DEF ThreadVarsTyped
  <1>7. /\ outcome' \in [Services -> [Threads -> Outcome]]
        /\ \A s2 \in Services, t2 \in Threads :
             outcome'[s2][t2] = IF s2 = s /\ t2 = t THEN Success ELSE outcome[s2][t2]
    BY <1>1, SuccessType, PutThread DEF ThreadVarsTyped
  <1>8. ThreadVarsTyped'
    BY <1>4, <1>5, <1>6, <1>7 DEF ThreadVarsTyped
  <1>9. OthersStay(s, t)
    BY <1>4, <1>5, <1>7 DEF OthersStay
  <1>10. pc'[s][t] = "idle" /\ current'[s][t] = 0
    BY <1>4, <1>5
  <1>11. ThreadOK(s, t)'
    BY <1>3, <1>10 DEF ThreadOK
  <1> QED BY <1>8, <1>9, <1>10, <1>11

(* A step inside processSingleLog to another label. *)
LEMMA GotoEffect ==
  ASSUME ThreadVarsTyped, logs' = logs, NEW s \in Services, NEW t \in Threads,
         NEW label \in Working, Goto(s, t, label),
         current' = current, batch' = batch, outcome' = outcome
  PROVE  /\ ThreadVarsTyped'
         /\ OthersStay(s, t)
         /\ pc'[s][t] = label
         /\ current'[s][t] = current[s][t]
         /\ outcome'[s][t] = outcome[s][t]
  <1>1. pc' = [pc EXCEPT ![s][t] = label] /\ label \in PC
    BY DEF Goto, PC
  <1>2. /\ pc' \in [Services -> [Threads -> PC]]
        /\ \A s2 \in Services, t2 \in Threads :
             pc'[s2][t2] = IF s2 = s /\ t2 = t THEN label ELSE pc[s2][t2]
    BY <1>1, PutThread DEF ThreadVarsTyped
  <1> QED BY <1>2 DEF ThreadVarsTyped, OthersStay

(* A step inside processSingleLog that also sets the outcome. *)
LEMMA RecordEffect ==
  ASSUME ThreadVarsTyped, logs' = logs, NEW s \in Services, NEW t \in Threads,
         NEW label \in Working, Goto(s, t, label),
         NEW status \in ReqStatus, NEW result \in Results \cup {NoResult},
         Record(s, t, status, result), current' = current, batch' = batch
  PROVE  /\ ThreadVarsTyped'
         /\ OthersStay(s, t)
         /\ pc'[s][t] = label
         /\ current'[s][t] = current[s][t]
         /\ outcome'[s][t].status = status /\ outcome'[s][t].result = result
  <1> DEFINE o == [status |-> status, result |-> result]
  <1>1. pc' = [pc EXCEPT ![s][t] = label] /\ label \in PC
    BY DEF Goto, PC
  <1>2. /\ pc' \in [Services -> [Threads -> PC]]
        /\ \A s2 \in Services, t2 \in Threads :
             pc'[s2][t2] = IF s2 = s /\ t2 = t THEN label ELSE pc[s2][t2]
    BY <1>1, PutThread DEF ThreadVarsTyped
  <1>3. /\ o \in Outcome /\ o.status = status /\ o.result = result
        /\ outcome' = [outcome EXCEPT ![s][t] = o]
    BY DEF Outcome, Record
  <1> HIDE DEF o
  <1>4. /\ outcome' \in [Services -> [Threads -> Outcome]]
        /\ \A s2 \in Services, t2 \in Threads :
             outcome'[s2][t2] = IF s2 = s /\ t2 = t THEN o ELSE outcome[s2][t2]
    BY <1>3, PutThread DEF ThreadVarsTyped
  <1> QED BY <1>2, <1>3, <1>4 DEF ThreadVarsTyped, OthersStay

-----------------------------------------------------------------------------
(* The first half of the inductive invariant: types, and a thread's outcome *)
(* fits the place it is at.                                                 *)
WorkerInv ==
  /\ SystemTypeOK
  /\ \A s \in Services, t \in Threads : ThreadOK(s, t)

(* The parts of the type invariant the step lemmas start from. *)
LEMMA TypeParts ==
  ASSUME WorkerInv
  PROVE  /\ ThreadVarsTyped
         /\ TypeOK
         /\ Len(logs) \in Nat
         /\ reqHistory \in [RequestId -> DBReqHistory \cup {None}]
  BY DEF WorkerInv, SystemTypeOK, ThreadVarsTyped, TypeOK

(* When one thread moves, and the queues and the log do not, it is enough   *)
(* to look at that thread.                                                  *)
LEMMA ThreadPreserves ==
  ASSUME WorkerInv, NEW s \in Services, NEW t \in Threads,
         logs' = logs, UNCHANGED <<cursor, queue, crashes>>,
         TypeOK', reqHistory' \in [RequestId -> DBReqHistory \cup {None}],
         ThreadVarsTyped', OthersStay(s, t), ThreadOK(s, t)'
  PROVE  WorkerInv'
  <1>1. ASSUME NEW s2 \in Services, NEW t2 \in Threads PROVE ThreadOK(s2, t2)'
    <2>1. CASE s2 = s /\ t2 = t
      BY <2>1
    <2>2. CASE s2 # s \/ t2 # t
      <3>1. ThreadOK(s2, t2)
        BY DEF WorkerInv
      <3> QED BY <2>2, <3>1 DEF OthersStay, ThreadOK
    <2> QED BY <2>1, <2>2
  <1>2. \A s2 \in Services, t2 \in Threads :
          (current[s2][t2] # 0 <=> pc[s2][t2] \in Working)'
    BY <1>1 DEF ThreadOK
  <1>3. /\ cursor' \in [Services -> Nat]
        /\ queue' \in [Services -> Seq(SUBSET Nat)]
        /\ \A s2 \in Services : \A k \in 1..Len(queue'[s2]) :
             queue'[s2][k] \subseteq 1..Len(logs')
        /\ crashes' \in 0..MaxCrashes
    BY DEF WorkerInv, SystemTypeOK
  <1>4. SystemTypeOK'
    BY <1>2, <1>3 DEF SystemTypeOK, ThreadVarsTyped
  <1> QED BY <1>1, <1>4 DEF WorkerInv

(* NextEvent: the thread is at the next event, or at rest. *)
LEMMA NextEventEffect ==
  ASSUME WorkerInv, logs' = logs, NEW s \in Services, NEW t \in Threads, NextEvent(s, t)
  PROVE  /\ ThreadVarsTyped'
         /\ OthersStay(s, t)
         /\ pc'[s][t] \in {"find", "idle"}
         /\ ThreadOK(s, t)'
  <1>1. ThreadVarsTyped /\ batch[s][t] \in SUBSET (1..Len(logs))
    BY TypeParts DEF ThreadVarsTyped
  <1>2. CASE Rest(s, t)
    BY <1>1, <1>2, RestEffect
  <1>3. CASE Begin(s, t, batch[s][t])
    BY <1>1, <1>3, BeginEffect
  <1> QED BY <1>2, <1>3 DEF NextEvent

(* An exception ends the work on an event: the row will tell of an error. *)
LEMMA FailEffect ==
  ASSUME WorkerInv, logs' = logs, NEW s \in Services, NEW t \in Threads,
         NEW status \in {"UNEXPECTED", "UPLOAD_ERROR"}, Finish(s, t, status, NoResult),
         current[s][t] # 0, current' = current, batch' = batch
  PROVE  /\ ThreadVarsTyped' /\ OthersStay(s, t) /\ ThreadOK(s, t)'
         /\ pc'[s][t] = "update" /\ current'[s][t] = current[s][t]
         /\ outcome'[s][t].status = status
  <1>1. Goto(s, t, "update") /\ Record(s, t, status, NoResult)
    BY DEF Finish
  <1>2. status \in ReqStatus /\ "update" \in Working
    BY DEF ReqStatus, Working
  <1>3. /\ ThreadVarsTyped' /\ OthersStay(s, t) /\ pc'[s][t] = "update"
        /\ current'[s][t] = current[s][t]
        /\ outcome'[s][t].status = status /\ outcome'[s][t].result = NoResult
    BY <1>1, <1>2, TypeParts, RecordEffect
  <1>4. ThreadOK(s, t)'
    BY <1>2, <1>3 DEF ThreadOK
  <1> QED BY <1>3, <1>4

-----------------------------------------------------------------------------
(* The steps of processSingleLog, one by one: each preserves WorkerInv and  *)
(* moves one thread, to the places its code allows.                         *)

(* findByReqId: the event is skipped or goes on to save. *)
LEMMA FindEffect ==
  ASSUME WorkerInv, NEW s \in Services, NEW t \in Threads, Find(s, t)
  PROVE  WorkerInv' /\ OthersStay(s, t) /\ pc'[s][t] \in {"find", "idle", "save"}
  <1>1. /\ UNCHANGED <<vars, reqHistory, cursor, queue, crashes>>
        /\ pc[s][t] = "find"
    BY DEF Find
  <1>2. /\ logs' = logs /\ TypeOK' /\ UNCHANGED <<cursor, queue, crashes>>
        /\ reqHistory' \in [RequestId -> DBReqHistory \cup {None}]
    BY <1>1, TypeParts, TypeStep DEF vars
  <1>3. CASE NextEvent(s, t)
    BY <1>2, <1>3, NextEventEffect, ThreadPreserves
  <1>4. CASE Goto(s, t, "save") /\ UNCHANGED <<current, batch, outcome>>
    <2>1. outcome[s][t] = Success /\ current[s][t] # 0
      BY <1>1 DEF WorkerInv, ThreadOK, Working
    <2>2. "save" \in Working
      BY DEF Working
    <2>3. /\ ThreadVarsTyped' /\ OthersStay(s, t) /\ pc'[s][t] = "save"
          /\ current'[s][t] = current[s][t] /\ outcome'[s][t] = Success
      BY <1>2, <1>4, <2>1, <2>2, TypeParts, GotoEffect
    <2>4. ThreadOK(s, t)'
      BY <2>1, <2>2, <2>3 DEF ThreadOK
    <2> QED BY <1>2, <2>3, <2>4, ThreadPreserves
  <1> QED BY <1>3, <1>4 DEF Find

(* save: refused without a trace, or a new row is in the table. *)
LEMMA SaveEffect ==
  ASSUME WorkerInv, NEW s \in Services, NEW t \in Threads, Save(s, t)
  PROVE  /\ WorkerInv' /\ OthersStay(s, t)
         /\ current'[s][t] = current[s][t]
         /\ \/ /\ pc'[s][t] = "update" /\ outcome'[s][t].status = "UNEXPECTED"
               /\ reqHistory' = reqHistory
            \/ /\ pc'[s][t] = "fetch"
               /\ reqHistory[Event(s, t).id] = None
               /\ SaveRow(Event(s, t))
               /\ NewRow(Event(s, t)) \in DBReqHistory
  <1>1. /\ UNCHANGED <<vars, cursor, queue, current, batch, crashes>>
        /\ pc[s][t] = "save" /\ "save" \in Working
    BY DEF Save, Working
  <1>2. logs' = logs /\ TypeOK'
    BY <1>1, TypeParts, TypeStep DEF vars
  <1>3. outcome[s][t] = Success /\ current[s][t] # 0
    BY <1>1 DEF WorkerInv, ThreadOK
  <1>4. CASE Finish(s, t, "UNEXPECTED", NoResult) /\ UNCHANGED reqHistory
    <2>1. Goto(s, t, "update") /\ Record(s, t, "UNEXPECTED", NoResult)
      BY <1>4 DEF Finish
    <2>2. "UNEXPECTED" \in ReqStatus /\ "update" \in Working
      BY DEF ReqStatus, Working
    <2>3. /\ ThreadVarsTyped' /\ OthersStay(s, t) /\ pc'[s][t] = "update"
          /\ current'[s][t] = current[s][t]
          /\ outcome'[s][t].status = "UNEXPECTED" /\ outcome'[s][t].result = NoResult
      BY <1>1, <1>2, <2>1, <2>2, TypeParts, RecordEffect
    <2>4. ThreadOK(s, t)'
      BY <1>3, <2>2, <2>3 DEF ThreadOK
    <2>5. reqHistory' \in [RequestId -> DBReqHistory \cup {None}]
      BY <1>4, TypeParts
    <2>6. WorkerInv'
      BY <1>1, <1>2, <2>3, <2>4, <2>5, ThreadPreserves
    <2> QED BY <1>4, <2>3, <2>6
  <1>5. CASE /\ SaveRow(Event(s, t))
             /\ Goto(s, t, "fetch") /\ UNCHANGED outcome
             /\ reqHistory[Event(s, t).id] = None
    <2>1. "fetch" \in Working
      BY DEF Working
    <2>2. /\ ThreadVarsTyped' /\ OthersStay(s, t) /\ pc'[s][t] = "fetch"
          /\ current'[s][t] = current[s][t] /\ outcome'[s][t] = Success
      BY <1>1, <1>2, <1>3, <1>5, <2>1, TypeParts, GotoEffect
    <2>3. ThreadOK(s, t)'
      BY <1>3, <2>1, <2>2 DEF ThreadOK
    <2>4. NewRow(Event(s, t)) \in DBReqHistory
      <3>1. Event(s, t).block \in Nat
        BY <1>1, EventType DEF WorkerInv, OracleRequest
      <3>2. now \in Nat
        BY <1>1 DEF WorkerInv, SystemTypeOK, TypeOK
      <3> QED BY <3>1, <3>2 DEF NewRow, DBReqHistory, ReqStatus
    <2>5. reqHistory' \in [RequestId -> DBReqHistory \cup {None}]
      BY <1>5, <2>4, TypeParts DEF SaveRow
    <2>6. WorkerInv'
      BY <1>1, <1>2, <2>2, <2>3, <2>5, ThreadPreserves
    <2> QED BY <1>5, <2>2, <2>4, <2>6
  <1> QED BY <1>4, <1>5 DEF Save

(* processLog up to the call: there is a result to check, or an end. *)
LEMMA FetchEffect ==
  ASSUME WorkerInv, NEW s \in Services, NEW t \in Threads, Fetch(s, t)
  PROVE  /\ WorkerInv' /\ OthersStay(s, t)
         /\ current'[s][t] = current[s][t]
         /\ pc'[s][t] \in {"check", "update"}
  <1>1. /\ UNCHANGED <<vars, reqHistory, cursor, queue, current, batch, crashes>>
        /\ pc[s][t] = "fetch" /\ "fetch" \in Working
    BY DEF Fetch, Working
  <1>2. /\ logs' = logs /\ TypeOK'
        /\ reqHistory' \in [RequestId -> DBReqHistory \cup {None}]
    BY <1>1, TypeParts, TypeStep DEF vars
  <1>3. current[s][t] # 0
    BY <1>1 DEF WorkerInv, ThreadOK
  <1>4. PICK status \in {"SUCCESS", "FETCH_ERROR", "UNEXPECTED"}, result \in Results \cup {NoResult},
             label \in {"check", "update"} :
          /\ Goto(s, t, label) /\ Record(s, t, status, result)
          /\ label = "check" => status = "SUCCESS" /\ result \in Results
          /\ status = "UNEXPECTED" => result = NoResult
    <2>1. CASE Finish(s, t, "SUCCESS", NoResult)
      BY <2>1 DEF Finish
    <2>2. CASE \E error \in {"FETCH_ERROR", "UNEXPECTED"} : Finish(s, t, error, NoResult)
      BY <2>2 DEF Finish
    <2>3. CASE Goto(s, t, "check") /\ \E result \in Results : Record(s, t, "SUCCESS", result)
      BY <2>3
    <2> QED BY <2>1, <2>2, <2>3 DEF Fetch
  <1>5. /\ status \in ReqStatus
        /\ label \in Working /\ label \notin {"find", "save", "fetch"}
    BY DEF ReqStatus, Working
  <1>6. /\ ThreadVarsTyped' /\ OthersStay(s, t) /\ pc'[s][t] = label
        /\ current'[s][t] = current[s][t]
        /\ outcome'[s][t].status = status /\ outcome'[s][t].result = result
    BY <1>1, <1>2, <1>4, <1>5, TypeParts, RecordEffect
  <1>7. ThreadOK(s, t)'
    BY <1>3, <1>4, <1>5, <1>6 DEF ThreadOK
  <1>8. WorkerInv'
    BY <1>1, <1>2, <1>6, <1>7, ThreadPreserves
  <1> QED BY <1>6, <1>8

(* checkRequestId: the thread goes on to write back, or to the end. *)
LEMMA CheckEffect ==
  ASSUME WorkerInv, NEW s \in Services, NEW t \in Threads, Check(s, t)
  PROVE  /\ WorkerInv' /\ OthersStay(s, t)
         /\ current'[s][t] = current[s][t]
         /\ pc'[s][t] \in {"fulfill", "update"}
  <1>1. /\ UNCHANGED <<vars, reqHistory, cursor, queue, current, batch, crashes>>
        /\ pc[s][t] = "check"
    BY DEF Check
  <1>2. /\ logs' = logs /\ TypeOK'
        /\ reqHistory' \in [RequestId -> DBReqHistory \cup {None}]
    BY <1>1, TypeParts, TypeStep DEF vars
  <1>3. current[s][t] # 0 /\ outcome[s][t].status = "SUCCESS" /\ outcome[s][t].result \in Results
    BY <1>1 DEF WorkerInv, ThreadOK, Working
  <1>4. CASE (\E label \in {"fulfill", "update"} : Goto(s, t, label)) /\ UNCHANGED outcome
    <2>1. PICK label \in {"fulfill", "update"} : Goto(s, t, label)
      BY <1>4
    <2>2. label \in Working /\ label \notin {"find", "save", "fetch"}
      BY DEF Working
    <2>3. /\ ThreadVarsTyped' /\ OthersStay(s, t) /\ pc'[s][t] = label
          /\ current'[s][t] = current[s][t] /\ outcome'[s][t] = outcome[s][t]
      BY <1>1, <1>2, <1>4, <2>1, <2>2, TypeParts, GotoEffect
    <2>4. ThreadOK(s, t)'
      BY <1>3, <2>2, <2>3 DEF ThreadOK
    <2>5. WorkerInv'
      BY <1>1, <1>2, <2>3, <2>4, ThreadPreserves
    <2> QED BY <2>3, <2>5
  <1>5. CASE Finish(s, t, "UNEXPECTED", NoResult)
    <2>1. /\ ThreadVarsTyped' /\ OthersStay(s, t) /\ ThreadOK(s, t)'
          /\ pc'[s][t] = "update" /\ current'[s][t] = current[s][t]
      BY <1>1, <1>2, <1>3, <1>5, FailEffect
    <2>2. WorkerInv'
      BY <1>1, <1>2, <2>1, ThreadPreserves
    <2> QED BY <2>1, <2>2
  <1> QED BY <1>4, <1>5 DEF Check

(* fulfillRequest: the consumer is answered what was fetched, or it is not. *)
LEMMA FulfillEffect ==
  ASSUME WorkerInv, NEW s \in Services, NEW t \in Threads, Fulfill(s, t)
  PROVE  /\ WorkerInv' /\ [Next]_vars /\ OthersStay(s, t)
         /\ current'[s][t] = current[s][t] /\ logs' = logs
         /\ pc'[s][t] = "update"
         /\ \/ rawResultMap' = rawResultMap
            \/ /\ rawResultMap' = [rawResultMap EXCEPT ![Event(s, t).id] = outcome[s][t].result]
               /\ \/ outcome'[s][t] = outcome[s][t]
                  \/ outcome'[s][t].status = "UNEXPECTED"
  <1>1. /\ UNCHANGED <<reqHistory, cursor, queue, current, batch, crashes>>
        /\ pc[s][t] = "fulfill" /\ "update" \in Working
    BY DEF Fulfill, Working
  <1>2. current[s][t] # 0 /\ outcome[s][t].status = "SUCCESS" /\ outcome[s][t].result \in Results
    BY <1>1 DEF WorkerInv, ThreadOK, Working
  <1>3. [Next]_vars
    BY <1>2, FulfillOnChain DEF WorkerInv
  <1>4. TypeOK' /\ reqHistory' \in [RequestId -> DBReqHistory \cup {None}]
    BY <1>1, <1>3, TypeParts, TypeStep
  <1>5. /\ logs' = logs
        /\ \/ rawResultMap' = rawResultMap
           \/ rawResultMap' = [rawResultMap EXCEPT ![Event(s, t).id] = outcome[s][t].result]
    BY DEF Fulfill, FulfillRequest, Callback, vars, clientVars
  <1>6. CASE Goto(s, t, "update") /\ UNCHANGED outcome
    <2>1. /\ ThreadVarsTyped' /\ OthersStay(s, t) /\ pc'[s][t] = "update"
          /\ current'[s][t] = current[s][t] /\ outcome'[s][t] = outcome[s][t]
      BY <1>1, <1>5, <1>6, TypeParts, GotoEffect
    <2>2. ThreadOK(s, t)'
      BY <1>1, <1>2, <2>1 DEF ThreadOK
    <2>3. WorkerInv'
      BY <1>1, <1>4, <1>5, <2>1, <2>2, ThreadPreserves
    <2> QED BY <1>3, <1>5, <2>1, <2>3
  <1>7. CASE Finish(s, t, "UNEXPECTED", NoResult)
    <2>1. /\ ThreadVarsTyped' /\ OthersStay(s, t) /\ ThreadOK(s, t)'
          /\ pc'[s][t] = "update" /\ current'[s][t] = current[s][t]
          /\ outcome'[s][t].status = "UNEXPECTED"
      BY <1>1, <1>2, <1>5, <1>7, FailEffect
    <2>2. WorkerInv'
      BY <1>1, <1>4, <1>5, <2>1, ThreadPreserves
    <2> QED BY <1>3, <1>5, <2>1, <2>2
  <1>8. CASE Finish(s, t, "UPLOAD_ERROR", NoResult) /\ UNCHANGED vars
    <2>1. /\ ThreadVarsTyped' /\ OthersStay(s, t) /\ ThreadOK(s, t)'
          /\ pc'[s][t] = "update" /\ current'[s][t] = current[s][t]
      BY <1>1, <1>2, <1>5, <1>8, FailEffect
    <2>2. WorkerInv'
      BY <1>1, <1>4, <1>5, <2>1, ThreadPreserves
    <2>3. rawResultMap' = rawResultMap
      BY <1>8 DEF vars, clientVars
    <2> QED BY <1>3, <1>5, <2>1, <2>2, <2>3
  <1> QED BY <1>6, <1>7, <1>8 DEF Fulfill

(* updateReqHistory: the row keeps its type, and the thread goes on. *)
LEMMA UpdateEffect ==
  ASSUME WorkerInv, NEW s \in Services, NEW t \in Threads, Update(s, t)
  PROVE  /\ WorkerInv' /\ OthersStay(s, t)
         /\ pc'[s][t] \in {"find", "idle"}
  <1> DEFINE id == Event(s, t).id
             row == [reqHistory[id] EXCEPT !.status = outcome[s][t].status,
                                           !.result = outcome[s][t].result]
  <1>1. /\ UNCHANGED <<vars, cursor, queue, crashes>>
        /\ pc[s][t] = "update" /\ "update" \in Working
        /\ NextEvent(s, t)
    BY DEF Update, Working
  <1>2. logs' = logs /\ TypeOK'
    BY <1>1, TypeParts, TypeStep DEF vars
  <1>3. /\ ThreadVarsTyped' /\ OthersStay(s, t) /\ ThreadOK(s, t)'
        /\ pc'[s][t] \in {"find", "idle"}
    BY <1>1, <1>2, NextEventEffect
  <1>4. id \in RequestId
    BY <1>1, EventType DEF WorkerInv
  <1>5. reqHistory' \in [RequestId -> DBReqHistory \cup {None}]
    <2>1. CASE reqHistory' = reqHistory
      BY <2>1, TypeParts
    <2>2. CASE reqHistory[id] # None /\ reqHistory' = [reqHistory EXCEPT ![id] = row]
      <3>1. reqHistory[id] \in DBReqHistory
        BY <1>4, <2>2, TypeParts
      <3>2. outcome[s][t] \in Outcome
        BY TypeParts DEF ThreadVarsTyped
      <3>3. row \in DBReqHistory
        BY <3>1, <3>2 DEF DBReqHistory, Outcome
      <3> HIDE DEF row, id
      <3> QED BY <1>4, <2>2, <3>3, TypeParts
    <2> QED BY <2>1, <2>2 DEF Update
  <1>6. WorkerInv'
    BY <1>1, <1>2, <1>3, <1>5, ThreadPreserves
  <1> QED BY <1>3, <1>6

-----------------------------------------------------------------------------
(* The other steps of a process: no thread gets into the middle of          *)
(* processSingleLog by any of them.                                         *)
Quiet ==
  /\ UNCHANGED <<vars, reqHistory>>
  /\ \A s \in Services, t \in Threads :
       \/ /\ pc'[s][t] = pc[s][t] /\ current'[s][t] = current[s][t]
          /\ outcome'[s][t] = outcome[s][t]
       \/ pc'[s][t] \in {"none", "find"}

QueueOK ==
  /\ queue \in [Services -> Seq(SUBSET Nat)]
  /\ \A s \in Services : \A k \in 1..Len(queue[s]) : queue[s][k] \subseteq 1..Len(logs)

(* WorkerInv after a step, from its parts. *)
LEMMA WorkerInvParts ==
  ASSUME TypeOK', reqHistory' \in [RequestId -> DBReqHistory \cup {None}],
         cursor' \in [Services -> Nat], QueueOK', ThreadVarsTyped', crashes' \in 0..MaxCrashes,
         \A s \in Services, t \in Threads : ThreadOK(s, t)'
  PROVE  WorkerInv'
  <1>1. \A s \in Services, t \in Threads : (current[s][t] # 0 <=> pc[s][t] \in Working)'
    BY DEF ThreadOK
  <1>2. \A s \in Services : \A k \in 1..Len(queue'[s]) : queue'[s][k] \subseteq 1..Len(logs')
    BY DEF QueueOK
  <1> QED BY <1>1, <1>2 DEF WorkerInv, SystemTypeOK, QueueOK, ThreadVarsTyped

(* A start registers the listener and touches no thread. *)
LEMMA StartEffect ==
  ASSUME WorkerInv, NEW s \in Services, Start(s)
  PROVE  WorkerInv' /\ Quiet
  <1>1. UNCHANGED <<vars, reqHistory, queue, threadVars, crashes>>
    BY DEF Start
  <1>2. /\ logs' = logs /\ TypeOK' /\ queue' = queue /\ crashes' = crashes
        /\ pc' = pc /\ current' = current /\ batch' = batch /\ outcome' = outcome
        /\ reqHistory' = reqHistory
    BY <1>1, TypeParts, TypeStep DEF vars, threadVars
  <1>3. cursor' \in [Services -> Nat]
    <2>1. cursor \in [Services -> Nat]
      BY DEF WorkerInv, SystemTypeOK
    <2>2. CASE cursor' = [cursor EXCEPT ![s] = now]
      <3>1. now \in Nat
        BY TypeParts DEF TypeOK
      <3> QED BY <2>1, <2>2, <3>1
    <2>3. CASE \E id \in RequestId :
                 /\ IsLatestRecord(id)
                 /\ cursor' = [cursor EXCEPT ![s] = reqHistory[id].block + 1]
      <3>1. PICK id \in RequestId :
              /\ reqHistory[id] # None
              /\ cursor' = [cursor EXCEPT ![s] = reqHistory[id].block + 1]
        BY <2>3 DEF IsLatestRecord, Rows
      <3>2. reqHistory[id] \in DBReqHistory
        BY <3>1, TypeParts
      <3>3. reqHistory[id].block + 1 \in Nat
        BY <3>2 DEF DBReqHistory
      <3> QED BY <2>1, <3>1, <3>3
    <2> QED BY <2>2, <2>3 DEF Start
  <1>4. Quiet
    BY <1>1, <1>2 DEF Quiet
  <1>5. QueueOK' /\ ThreadVarsTyped' /\ crashes' \in 0..MaxCrashes
    BY <1>2, TypeParts DEF WorkerInv, SystemTypeOK, QueueOK, ThreadVarsTyped
  <1>6. \A s2 \in Services, t2 \in Threads : ThreadOK(s2, t2)'
    BY <1>2 DEF WorkerInv, ThreadOK
  <1>7. reqHistory' \in [RequestId -> DBReqHistory \cup {None}]
    BY <1>2, TypeParts
  <1> QED BY <1>2, <1>3, <1>4, <1>5, <1>6, <1>7, WorkerInvParts

(* A crash leaves every thread of the process without an event. *)
LEMMA CrashEffect ==
  ASSUME WorkerInv, NEW s \in Services, Crash(s)
  PROVE  WorkerInv' /\ Quiet
  <1>1. /\ UNCHANGED <<vars, reqHistory>>
        /\ crashes < MaxCrashes /\ crashes' = crashes + 1
        /\ cursor' = [cursor EXCEPT ![s] = 0]
        /\ queue' = [queue EXCEPT ![s] = <<>>]
        /\ pc' = [pc EXCEPT ![s] = [t \in Threads |-> "none"]]
        /\ current' = [current EXCEPT ![s] = [t \in Threads |-> 0]]
        /\ batch' = [batch EXCEPT ![s] = [t \in Threads |-> {}]]
        /\ outcome' = [outcome EXCEPT ![s] = [t \in Threads |-> Success]]
    BY DEF Crash
  <1>2. logs' = logs /\ TypeOK' /\ reqHistory' = reqHistory
    BY <1>1, TypeParts, TypeStep DEF vars
  <1>3. /\ ThreadVarsTyped /\ Len(logs) \in Nat
        /\ cursor \in [Services -> Nat] /\ QueueOK /\ crashes \in 0..MaxCrashes
    BY TypeParts DEF WorkerInv, SystemTypeOK, QueueOK
  <1>4. cursor' \in [Services -> Nat] /\ crashes' \in 0..MaxCrashes
    BY <1>1, <1>3, ServiceAssumption
  <1>5. QueueOK'
    BY <1>1, <1>2, <1>3 DEF QueueOK
  <1>6. pc' \in [Services -> [Threads -> PC]]
    BY <1>1, <1>3 DEF ThreadVarsTyped, PC
  <1>7. current' \in [Services -> [Threads -> 0..Len(logs')]]
    BY <1>1, <1>2, <1>3 DEF ThreadVarsTyped
  <1>8. batch' \in [Services -> [Threads -> SUBSET (1..Len(logs'))]]
    BY <1>1, <1>2, <1>3 DEF ThreadVarsTyped
  <1>9. outcome' \in [Services -> [Threads -> Outcome]]
    BY <1>1, <1>3, SuccessType DEF ThreadVarsTyped
  <1>10. ASSUME NEW s2 \in Services, NEW t2 \in Threads
         PROVE  \/ /\ pc'[s2][t2] = pc[s2][t2] /\ current'[s2][t2] = current[s2][t2]
                   /\ outcome'[s2][t2] = outcome[s2][t2]
                \/ pc'[s2][t2] = "none" /\ current'[s2][t2] = 0
    BY <1>1, <1>3 DEF ThreadVarsTyped
  <1>11. ASSUME NEW s2 \in Services, NEW t2 \in Threads PROVE ThreadOK(s2, t2)'
    <2>1. ThreadOK(s2, t2) /\ "none" \notin Working
      BY DEF WorkerInv, Working
    <2> QED BY <1>10, <2>1 DEF ThreadOK
  <1>12. Quiet
    BY <1>1, <1>10 DEF Quiet
  <1>13. reqHistory' \in [RequestId -> DBReqHistory \cup {None}]
    BY <1>2, TypeParts
  <1>14. ThreadVarsTyped'
    BY <1>6, <1>7, <1>8, <1>9 DEF ThreadVarsTyped
  <1> QED BY <1>2, <1>4, <1>5, <1>11, <1>12, <1>13, <1>14, WorkerInvParts

(* A step that lets one thread begin with pushed events, or none, and       *)
(* queues what it does not begin with.                                      *)
LEMMA HandOver ==
  ASSUME WorkerInv, UNCHANGED <<vars, reqHistory, crashes>>,
         cursor' \in [Services -> Nat], QueueOK',
         NEW s \in Services, NEW events \in SUBSET (1..Len(logs)),
         (\E t \in Threads : Begin(s, t, events)) \/ UNCHANGED threadVars
  PROVE  WorkerInv' /\ Quiet
  <1>1. /\ logs' = logs /\ TypeOK' /\ reqHistory' = reqHistory /\ crashes' \in 0..MaxCrashes
        /\ reqHistory' \in [RequestId -> DBReqHistory \cup {None}]
    BY TypeParts, TypeStep DEF vars, WorkerInv, SystemTypeOK
  <1>2. CASE UNCHANGED threadVars
    <2>1. /\ pc' = pc /\ current' = current /\ batch' = batch /\ outcome' = outcome
      BY <1>2 DEF threadVars
    <2>2. ThreadVarsTyped'
      BY <1>1, <2>1, TypeParts DEF ThreadVarsTyped
    <2>3. \A s2 \in Services, t2 \in Threads : ThreadOK(s2, t2)'
      BY <2>1 DEF WorkerInv, ThreadOK
    <2>4. Quiet
      BY <2>1 DEF Quiet
    <2> QED BY <1>1, <2>2, <2>3, <2>4, WorkerInvParts
  <1>3. CASE \E t \in Threads : Begin(s, t, events)
    <2>1. PICK t \in Threads : Begin(s, t, events)
      BY <1>3
    <2>2. /\ ThreadVarsTyped' /\ OthersStay(s, t) /\ pc'[s][t] = "find" /\ ThreadOK(s, t)'
      BY <1>1, <2>1, TypeParts, BeginEffect
    <2>3. ASSUME NEW s2 \in Services, NEW t2 \in Threads PROVE ThreadOK(s2, t2)'
      <3>1. CASE s2 = s /\ t2 = t
        BY <2>2, <3>1
      <3>2. CASE s2 # s \/ t2 # t
        BY <2>2, <3>2 DEF WorkerInv, OthersStay, ThreadOK
      <3> QED BY <3>1, <3>2
    <2>4. Quiet
      BY <2>2 DEF Quiet, OthersStay
    <2> QED BY <1>1, <2>2, <2>3, <2>4, WorkerInvParts
  <1> QED BY <1>2, <1>3

(* A push hands a batch to a thread or to the queue, or loses it. *)
LEMMA PushLogsEffect ==
  ASSUME WorkerInv, NEW s \in Services, PushLogs(s)
  PROVE  WorkerInv' /\ Quiet
  <1> DEFINE events == {i \in 1..Len(logs) : /\ logs[i].core = ServedCore[s]
                                             /\ logs[i].block = cursor[s]}
  <1>1. UNCHANGED <<vars, reqHistory, crashes>> /\ logs' = logs
    BY DEF PushLogs, vars
  <1>2. cursor' \in [Services -> Nat]
    BY DEF PushLogs, WorkerInv, SystemTypeOK
  <1>3. QueueOK /\ events \in SUBSET (1..Len(logs)) /\ Len(logs) \in Nat
    BY TypeParts DEF QueueOK, WorkerInv, SystemTypeOK
  <1>4. /\ queue' = queue \/ queue' = [queue EXCEPT ![s] = Append(queue[s], events)]
        /\ (\E t \in Threads : Begin(s, t, events)) \/ UNCHANGED threadVars
    BY DEF PushLogs, Submit, Idle
  <1> HIDE DEF events
  <1>5. QueueOK'
    <2>1. CASE queue' = queue
      BY <1>1, <1>3, <2>1 DEF QueueOK
    <2>2. CASE queue' = [queue EXCEPT ![s] = Append(queue[s], events)]
      <3>1. queue[s] \in Seq(SUBSET Nat) /\ events \in SUBSET Nat
        BY <1>3 DEF QueueOK
      <3>2. Append(queue[s], events) \in Seq(SUBSET Nat)
        BY <3>1
      <3>3. queue' \in [Services -> Seq(SUBSET Nat)]
        BY <1>3, <2>2, <3>2 DEF QueueOK
      <3>4. ASSUME NEW s2 \in Services, NEW k \in 1..Len(queue'[s2])
            PROVE  queue'[s2][k] \subseteq 1..Len(logs')
        <4>1. CASE s2 = s
          <5>1. queue'[s] = Append(queue[s], events)
            BY <1>3, <2>2 DEF QueueOK
          <5>2. k = Len(queue[s]) + 1 \/ k \in 1..Len(queue[s])
            BY <3>1, <4>1, <5>1
          <5>3. CASE k = Len(queue[s]) + 1
            <6>1. queue'[s2][k] = events
              BY <3>1, <4>1, <5>1, <5>3
            <6> QED BY <1>1, <1>3, <6>1
          <5>4. CASE k \in 1..Len(queue[s])
            <6>1. queue'[s2][k] = queue[s][k]
              BY <3>1, <4>1, <5>1, <5>4
            <6> QED BY <1>1, <1>3, <5>4, <6>1 DEF QueueOK
          <5> QED BY <5>2, <5>3, <5>4
        <4>2. CASE s2 # s
          BY <1>1, <1>3, <2>2, <4>2 DEF QueueOK
        <4> QED BY <4>1, <4>2
      <3> QED BY <3>3, <3>4 DEF QueueOK
    <2> QED BY <1>4, <2>1, <2>2
  <1> QED BY <1>1, <1>2, <1>3, <1>4, <1>5, HandOver

(* A thread that takes from the queue begins with emitted events. *)
LEMMA TakeFromQueueEffect ==
  ASSUME WorkerInv, NEW s \in Services, NEW t \in Threads, TakeFromQueue(s, t)
  PROVE  WorkerInv' /\ Quiet
  <1>1. /\ UNCHANGED <<vars, reqHistory, cursor, crashes>> /\ logs' = logs
        /\ queue[s] # <<>> /\ Begin(s, t, Head(queue[s]))
        /\ queue' = [queue EXCEPT ![s] = Tail(queue[s])]
    BY DEF TakeFromQueue, vars
  <1>2. cursor' \in [Services -> Nat] /\ QueueOK
    BY <1>1 DEF WorkerInv, SystemTypeOK, QueueOK
  <1>3. /\ queue[s] \in Seq(SUBSET Nat) /\ Len(queue[s]) \in Nat \ {0}
        /\ Head(queue[s]) = queue[s][1]
        /\ Tail(queue[s]) \in Seq(SUBSET Nat) /\ Len(Tail(queue[s])) = Len(queue[s]) - 1
        /\ \A k \in 1..Len(Tail(queue[s])) : Tail(queue[s])[k] = queue[s][k + 1]
    BY <1>1, <1>2 DEF QueueOK
  <1>4. Head(queue[s]) \in SUBSET (1..Len(logs))
    BY <1>2, <1>3 DEF QueueOK
  <1>5. queue' \in [Services -> Seq(SUBSET Nat)]
    BY <1>1, <1>2, <1>3 DEF QueueOK
  <1>6. ASSUME NEW s2 \in Services, NEW k \in 1..Len(queue'[s2])
        PROVE  queue'[s2][k] \subseteq 1..Len(logs')
    <2>1. CASE s2 = s
      <3>1. queue'[s2] = Tail(queue[s])
        BY <1>1, <1>2, <2>1 DEF QueueOK
      <3>2. queue'[s2][k] = queue[s][k + 1] /\ k + 1 \in 1..Len(queue[s])
        BY <1>3, <3>1
      <3> QED BY <1>1, <1>2, <3>2 DEF QueueOK
    <2>2. CASE s2 # s
      BY <1>1, <1>2, <2>2 DEF QueueOK
    <2> QED BY <2>1, <2>2
  <1>7. QueueOK'
    BY <1>5, <1>6 DEF QueueOK
  <1> QED BY <1>1, <1>2, <1>4, <1>7, HandOver

(* A thread that ends had no event. *)
LEMMA KeepAliveEffect ==
  ASSUME WorkerInv, NEW s \in Services, NEW t \in Threads, KeepAliveEnds(s, t)
  PROVE  WorkerInv' /\ Quiet
  <1>1. /\ UNCHANGED <<vars, reqHistory, cursor, queue, current, batch, outcome, crashes>>
        /\ pc[s][t] = "idle" /\ pc' = [pc EXCEPT ![s][t] = "none"]
    BY DEF KeepAliveEnds
  <1>2. /\ logs' = logs /\ TypeOK' /\ crashes' \in 0..MaxCrashes
        /\ reqHistory' \in [RequestId -> DBReqHistory \cup {None}]
        /\ cursor' \in [Services -> Nat] /\ QueueOK'
    BY <1>1, TypeParts, TypeStep DEF vars, WorkerInv, SystemTypeOK, QueueOK
  <1>3. "none" \in PC /\ "none" \notin Working /\ "idle" \notin Working
    BY DEF PC, Working
  <1>4. /\ pc' \in [Services -> [Threads -> PC]]
        /\ \A s2 \in Services, t2 \in Threads :
             pc'[s2][t2] = IF s2 = s /\ t2 = t THEN "none" ELSE pc[s2][t2]
    BY <1>1, <1>3, TypeParts, PutThread DEF ThreadVarsTyped
  <1>5. ThreadVarsTyped'
    BY <1>1, <1>2, <1>4, TypeParts DEF ThreadVarsTyped
  <1>6. ASSUME NEW s2 \in Services, NEW t2 \in Threads PROVE ThreadOK(s2, t2)'
    <2>1. ThreadOK(s2, t2)
      BY DEF WorkerInv
    <2> QED BY <1>1, <1>3, <1>4, <2>1 DEF ThreadOK
  <1>7. Quiet
    BY <1>1, <1>4 DEF Quiet
  <1> QED BY <1>2, <1>5, <1>6, <1>7, WorkerInvParts

(* The chain goes on without the service: events are added, none changes,   *)
(* and no consumer is answered.                                             *)
LEMMA ChainEffect ==
  ASSUME WorkerInv, ChainStep
  PROVE  /\ WorkerInv' /\ [Next]_vars /\ UNCHANGED serviceVars
         /\ rawResultMap' = rawResultMap
         /\ \A i \in 1..Len(logs) : logs'[i] = logs[i]
  <1>1. [Next]_vars /\ UNCHANGED serviceVars /\ rawResultMap' = rawResultMap
    BY DEF ChainStep, Next, RequestSource, QueryExternally, TransferOwnership, Tick, clientVars
  <1>2. TypeOK /\ TypeOK'
    BY <1>1, TypeParts, TypeStep
  <1>3. logs' = logs \/ \E e : logs' = Append(logs, e)
    BY ZenonT(40) DEF ChainStep, RequestSource, QueryExternally, Query, TransferOwnership, Tick
  <1>4. /\ Len(logs) \in Nat /\ Len(logs') \in Nat /\ Len(logs) <= Len(logs')
        /\ \A i \in 1..Len(logs) : logs'[i] = logs[i]
    <2>1. logs \in Seq(OracleRequest) /\ logs' \in Seq(OracleRequest)
      BY <1>2 DEF TypeOK
    <2>2. CASE logs' = logs
      BY <2>1, <2>2
    <2>3. CASE \E e : logs' = Append(logs, e)
      <3>1. PICK e : logs' = Append(logs, e)
        BY <2>3
      <3> QED BY <2>1, <3>1
    <2> QED BY <1>3, <2>2, <2>3
  <1>5. /\ reqHistory' = reqHistory /\ cursor' = cursor /\ queue' = queue /\ crashes' = crashes
        /\ pc' = pc /\ current' = current /\ batch' = batch /\ outcome' = outcome
    BY <1>1 DEF serviceVars, threadVars
  <1>6. QueueOK'
    <2>1. QueueOK
      BY DEF WorkerInv, SystemTypeOK, QueueOK
    <2>2. 1..Len(logs) \subseteq 1..Len(logs')
      BY <1>4
    <2> QED BY <1>5, <2>1, <2>2 DEF QueueOK
  <1>7. ThreadVarsTyped'
    <2>1. ThreadVarsTyped
      BY TypeParts
    <2>2. 0..Len(logs) \subseteq 0..Len(logs')
      BY <1>4
    <2>3. SUBSET (1..Len(logs)) \subseteq SUBSET (1..Len(logs'))
      BY <1>4
    <2>4. current' \in [Services -> [Threads -> 0..Len(logs')]]
      BY <1>5, <2>1, <2>2 DEF ThreadVarsTyped
    <2>5. batch' \in [Services -> [Threads -> SUBSET (1..Len(logs'))]]
      BY <1>5, <2>1, <2>3 DEF ThreadVarsTyped
    <2> QED BY <1>5, <2>1, <2>4, <2>5 DEF ThreadVarsTyped
  <1>8. \A s \in Services, t \in Threads : ThreadOK(s, t)'
    BY <1>5 DEF WorkerInv, ThreadOK
  <1>9. /\ reqHistory' \in [RequestId -> DBReqHistory \cup {None}]
        /\ cursor' \in [Services -> Nat] /\ crashes' \in 0..MaxCrashes
    BY <1>5, TypeParts DEF WorkerInv, SystemTypeOK
  <1>10. WorkerInv'
    BY <1>2, <1>6, <1>7, <1>8, <1>9, WorkerInvParts
  <1> QED BY <1>1, <1>4, <1>10

-----------------------------------------------------------------------------
(* The steps of the system, by what they do to the chain.                   *)
LEMMA SystemCases ==
  ASSUME WorkerInv, SystemNext
  PROVE  \/ ChainStep
         \/ WorkerInv' /\ Quiet
         \/ \E s \in Services, t \in Threads : ProcessLogs(s, t)
  BY StartEffect, CrashEffect, PushLogsEffect, TakeFromQueueEffect, KeepAliveEffect
     DEF SystemNext, ServiceStep

(* Every step of processSingleLog. *)
LEMMA ProcessEffect ==
  ASSUME WorkerInv, NEW s \in Services, NEW t \in Threads, ProcessLogs(s, t)
  PROVE  WorkerInv' /\ [Next]_vars
  <1>1. CASE Fulfill(s, t)
    BY <1>1, FulfillEffect
  <1>2. CASE Find(s, t)
    BY <1>2, FindEffect DEF Find
  <1>3. CASE Save(s, t)
    BY <1>3, SaveEffect DEF Save
  <1>4. CASE Fetch(s, t)
    BY <1>4, FetchEffect DEF Fetch
  <1>5. CASE Check(s, t)
    BY <1>5, CheckEffect DEF Check
  <1>6. CASE Update(s, t)
    BY <1>6, UpdateEffect DEF Update
  <1> QED BY <1>1, <1>2, <1>3, <1>4, <1>5, <1>6 DEF ProcessLogs

(* Nothing is deployed, no thread runs. *)
LEMMA WorkerInvInit == SystemInit => WorkerInv
  <1> SUFFICES ASSUME SystemInit PROVE WorkerInv
    OBVIOUS
  <1>1. TypeOK /\ logs = <<>>
    BY TypeInit DEF SystemInit, Init
  <1>2. /\ reqHistory \in [RequestId -> DBReqHistory \cup {None}]
        /\ cursor \in [Services -> Nat]
        /\ queue \in [Services -> Seq(SUBSET Nat)]
        /\ crashes \in 0..MaxCrashes
    BY ServiceAssumption DEF SystemInit
  <1>3. \A s \in Services : \A k \in 1..Len(queue[s]) : queue[s][k] \subseteq 1..Len(logs)
    BY DEF SystemInit
  <1>4. /\ pc \in [Services -> [Threads -> PC]]
        /\ current \in [Services -> [Threads -> 0..Len(logs)]]
        /\ batch \in [Services -> [Threads -> SUBSET (1..Len(logs))]]
        /\ outcome \in [Services -> [Threads -> Outcome]]
    BY <1>1, SuccessType DEF SystemInit, PC
  <1>5. \A s \in Services, t \in Threads :
          pc[s][t] = "none" /\ current[s][t] = 0 /\ "none" \notin Working
    BY DEF SystemInit, Working
  <1>6. SystemTypeOK
    BY <1>1, <1>2, <1>3, <1>4, <1>5 DEF SystemTypeOK
  <1> QED BY <1>5, <1>6 DEF WorkerInv, ThreadOK

(* Every step of the system preserves WorkerInv and is one of OracleCore. *)
LEMMA WorkerInvStep ==
  ASSUME WorkerInv, [SystemNext]_systemVars
  PROVE  WorkerInv' /\ [Next]_vars
  <1>1. CASE ChainStep
    BY <1>1, ChainEffect
  <1>2. CASE WorkerInv' /\ Quiet
    BY <1>2 DEF Quiet
  <1>3. CASE \E s \in Services, t \in Threads : ProcessLogs(s, t)
    BY <1>3, ProcessEffect
  <1>4. CASE UNCHANGED systemVars
    BY <1>4 DEF systemVars, serviceVars, threadVars, vars, coreVars, clientVars,
                WorkerInv, SystemTypeOK, ThreadOK, TypeOK
  <1> QED BY <1>1, <1>2, <1>3, <1>4, SystemCases

(* The first inductive invariant: types, and threads fit their place. *)
THEOREM WorkerInvariance == SystemSpec => []WorkerInv
  <1>1. WorkerInv /\ [SystemNext]_systemVars => WorkerInv'
    BY WorkerInvStep
  <1> QED BY <1>1, WorkerInvInit, PTL DEF SystemSpec

(* Every variable of the composed system keeps its type.                    *)
THEOREM SystemTypeCorrect == SystemSpec => []SystemTypeOK
  <1>1. WorkerInv => SystemTypeOK
    BY DEF WorkerInv
  <1> QED BY <1>1, WorkerInvariance, PTL

(* The composed system implements OracleCore: with services, crashes and    *)
(* races added, the contracts still only do what OracleCore describes, so   *)
(* every theorem about OracleCore holds of the system.                      *)
THEOREM SystemImplementsOracleCore == SystemSpec => Spec
  <1>1. SystemInit => Init
    BY DEF SystemInit
  <1>2. WorkerInv /\ [SystemNext]_systemVars => [Next]_vars
    BY WorkerInvStep
  <1> QED BY <1>1, <1>2, WorkerInvariance, PTL DEF SystemSpec, Spec

-----------------------------------------------------------------------------
(* The second half: who owns a request. The thread that saved the row owns  *)
(* it until it has written its outcome; one whose save was refused never    *)
(* does.                                                                    *)
Owns(s, t, id) ==
  /\ \/ pc[s][t] \in {"fetch", "check", "fulfill"}
     \/ pc[s][t] = "update" /\ outcome[s][t].status # "UNEXPECTED"
  /\ Event(s, t).id = id

(* What holds of a request while it is owned: nobody has answered it before *)
(* its owner did, and its row is as new, or was spoilt by a duplicate.      *)
OwnedOK(s, t, id) ==
  /\ reqHistory[id] # None
  /\ reqHistory[id].status \in {"SUCCESS", "UNEXPECTED"}
  /\ reqHistory[id].result \in {None, NoResult}
  /\ IF pc[s][t] = "update"
     THEN rawResultMap[id] # None =>
            /\ outcome[s][t].status = "SUCCESS"
            /\ outcome[s][t].result = rawResultMap[id]
     ELSE rawResultMap[id] = None

OwnerInv ==
  /\ \A s \in Services, t \in Threads, id \in RequestId :
       Owns(s, t, id) => OwnedOK(s, t, id)
  /\ \A s1, s2 \in Services, t1, t2 \in Threads, id \in RequestId :
       Owns(s1, t1, id) /\ Owns(s2, t2, id) => s1 = s2 /\ t1 = t2
  /\ DeliveredIsRecorded

(* A step by which no thread becomes an owner, and no row or answer changes. *)
LEMMA NoNewOwner ==
  ASSUME OwnerInv, reqHistory' = reqHistory, rawResultMap' = rawResultMap,
         \A s \in Services, t \in Threads, id \in RequestId :
           Owns(s, t, id)' =>
             /\ Owns(s, t, id)
             /\ pc'[s][t] = pc[s][t] /\ outcome'[s][t] = outcome[s][t]
  PROVE  OwnerInv'
  <1>1. ASSUME NEW s \in Services, NEW t \in Threads, NEW id \in RequestId, Owns(s, t, id)'
        PROVE  OwnedOK(s, t, id)'
    <2>1. /\ OwnedOK(s, t, id)
          /\ pc'[s][t] = pc[s][t] /\ outcome'[s][t] = outcome[s][t]
      BY <1>1 DEF OwnerInv
    <2> QED BY <2>1 DEF OwnedOK
  <1>2. ASSUME NEW s1 \in Services, NEW s2 \in Services, NEW t1 \in Threads,
               NEW t2 \in Threads, NEW id \in RequestId,
               Owns(s1, t1, id)', Owns(s2, t2, id)'
        PROVE  s1 = s2 /\ t1 = t2
    BY <1>2 DEF OwnerInv
  <1>3. DeliveredIsRecorded'
    BY DEF OwnerInv, DeliveredIsRecorded
  <1> QED BY <1>1, <1>2, <1>3 DEF OwnerInv

(* Who owns what is decided by the thread alone, when the log only grows.   *)
LEMMA SameOwner ==
  ASSUME WorkerInv, NEW s \in Services, NEW t \in Threads, NEW id,
         pc'[s][t] = pc[s][t], current'[s][t] = current[s][t], outcome'[s][t] = outcome[s][t],
         \A i \in 1..Len(logs) : logs'[i] = logs[i]
  PROVE  Owns(s, t, id)' <=> Owns(s, t, id)
  <1>1. CASE pc[s][t] \in Working
    <2>1. current[s][t] \in 1..Len(logs)
      BY <1>1, EventType DEF WorkerInv
    <2> QED BY <2>1 DEF Owns, Event
  <1>2. CASE pc[s][t] \notin Working
    BY <1>2 DEF Owns, Working
  <1> QED BY <1>1, <1>2

(* Starts, crashes and the pool make no owner. *)
LEMMA QuietOwner == ASSUME WorkerInv, OwnerInv, Quiet PROVE OwnerInv'
  <1>1. reqHistory' = reqHistory /\ rawResultMap' = rawResultMap /\ logs' = logs
    BY DEF Quiet, vars, clientVars
  <1>2. ASSUME NEW s \in Services, NEW t \in Threads, NEW id \in RequestId, Owns(s, t, id)'
        PROVE  /\ Owns(s, t, id)
               /\ pc'[s][t] = pc[s][t] /\ outcome'[s][t] = outcome[s][t]
    <2>1. pc'[s][t] \notin {"none", "find"}
      BY <1>2 DEF Owns
    <2>2. /\ pc'[s][t] = pc[s][t] /\ current'[s][t] = current[s][t]
          /\ outcome'[s][t] = outcome[s][t]
      BY <2>1 DEF Quiet
    <2> QED BY <1>1, <1>2, <2>2, SameOwner
  <1> QED BY <1>1, <1>2, NoNewOwner

(* Requests, transfers and time make no owner. *)
LEMMA ChainOwner == ASSUME WorkerInv, OwnerInv, ChainStep PROVE OwnerInv'
  <1>1. /\ reqHistory' = reqHistory /\ rawResultMap' = rawResultMap
        /\ pc' = pc /\ current' = current /\ outcome' = outcome
        /\ \A i \in 1..Len(logs) : logs'[i] = logs[i]
    BY ChainEffect DEF serviceVars, threadVars
  <1>2. ASSUME NEW s \in Services, NEW t \in Threads, NEW id \in RequestId, Owns(s, t, id)'
        PROVE  Owns(s, t, id)
    BY <1>1, <1>2, SameOwner
  <1> QED BY <1>1, <1>2, NoNewOwner

(* Of the other threads nothing changes when one moves.                     *)
LEMMA OthersOwner ==
  ASSUME WorkerInv, NEW s \in Services, NEW t \in Threads, OthersStay(s, t), logs' = logs,
         NEW s2 \in Services, NEW t2 \in Threads, s2 # s \/ t2 # t, NEW id
  PROVE  /\ Owns(s2, t2, id)' <=> Owns(s2, t2, id)
         /\ pc'[s2][t2] = pc[s2][t2] /\ outcome'[s2][t2] = outcome[s2][t2]
  BY SameOwner DEF OthersStay

(* Looking for the row makes no owner. *)
LEMMA FindOwner ==
  ASSUME WorkerInv, OwnerInv, NEW s \in Services, NEW t \in Threads, Find(s, t)
  PROVE  OwnerInv'
  <1>1. /\ OthersStay(s, t) /\ pc'[s][t] \in {"find", "idle", "save"}
        /\ logs' = logs /\ reqHistory' = reqHistory /\ rawResultMap' = rawResultMap
    BY FindEffect DEF Find, vars, clientVars
  <1>2. ASSUME NEW s2 \in Services, NEW t2 \in Threads, NEW id \in RequestId, Owns(s2, t2, id)'
        PROVE  /\ Owns(s2, t2, id)
               /\ pc'[s2][t2] = pc[s2][t2] /\ outcome'[s2][t2] = outcome[s2][t2]
    <2>1. s2 # s \/ t2 # t
      BY <1>1, <1>2 DEF Owns
    <2> QED BY <1>1, <1>2, <2>1, OthersOwner
  <1> QED BY <1>1, <1>2, NoNewOwner

(* The row was free, so nobody owned it and nobody has been answered.       *)
LEMMA SaveOwner ==
  ASSUME WorkerInv, OwnerInv, NEW s \in Services, NEW t \in Threads, Save(s, t)
  PROVE  OwnerInv'
  <1>1. /\ OthersStay(s, t) /\ current'[s][t] = current[s][t]
        /\ logs' = logs /\ rawResultMap' = rawResultMap /\ pc[s][t] = "save"
    BY SaveEffect DEF Save, vars, clientVars
  <1>2. CASE /\ pc'[s][t] = "update" /\ outcome'[s][t].status = "UNEXPECTED"
             /\ reqHistory' = reqHistory
    <2>1. ASSUME NEW s2 \in Services, NEW t2 \in Threads, NEW id \in RequestId,
                 Owns(s2, t2, id)'
          PROVE  /\ Owns(s2, t2, id)
                 /\ pc'[s2][t2] = pc[s2][t2] /\ outcome'[s2][t2] = outcome[s2][t2]
      <3>1. s2 # s \/ t2 # t
        BY <1>2, <2>1 DEF Owns
      <3> QED BY <1>1, <2>1, <3>1, OthersOwner
    <2> QED BY <1>1, <1>2, <2>1, NoNewOwner
  <1>3. CASE /\ pc'[s][t] = "fetch"
             /\ reqHistory[Event(s, t).id] = None
             /\ SaveRow(Event(s, t))
             /\ NewRow(Event(s, t)) \in DBReqHistory
    <2> DEFINE new == Event(s, t).id
               row == NewRow(Event(s, t))
    <2>1. new \in RequestId
      BY <1>1, EventType DEF WorkerInv, Working
    <2>2. reqHistory \in [RequestId -> DBReqHistory \cup {None}]
      BY TypeParts
    <2>3. /\ \A id \in RequestId : reqHistory'[id] = IF id = new THEN row ELSE reqHistory[id]
          /\ row # None /\ row.status = "SUCCESS" /\ row.result = None
      <3>1. row.status = "SUCCESS" /\ row.result = None
        BY DEF NewRow
      <3>2. reqHistory' = [reqHistory EXCEPT ![new] = row]
        BY <1>3 DEF SaveRow
      <3>3. row # None
        BY <1>3, NoResultAssumption
      <3> HIDE DEF row, new
      <3> QED BY <2>1, <2>2, <3>1, <3>2, <3>3
    <2>4. Event(s, t)' = Event(s, t)
      BY <1>1 DEF Event
    <2>5. rawResultMap[new] = None
      BY <1>3, <2>1 DEF OwnerInv, DeliveredIsRecorded
    <2>6. \A s2 \in Services, t2 \in Threads : ~Owns(s2, t2, new)
      BY <1>3, <2>1 DEF OwnerInv, OwnedOK
    <2>7. ASSUME NEW id \in RequestId PROVE Owns(s, t, id)' <=> id = new
      BY <1>3, <2>4 DEF Owns
    <2>8. ASSUME NEW s2 \in Services, NEW t2 \in Threads, s2 # s \/ t2 # t,
                 NEW id \in RequestId, Owns(s2, t2, id)'
          PROVE  /\ Owns(s2, t2, id) /\ id # new
                 /\ pc'[s2][t2] = pc[s2][t2] /\ outcome'[s2][t2] = outcome[s2][t2]
      BY <1>1, <2>6, <2>8, OthersOwner
    <2> HIDE DEF new, row
    <2>9. ASSUME NEW s2 \in Services, NEW t2 \in Threads, NEW id \in RequestId,
                 Owns(s2, t2, id)'
          PROVE  OwnedOK(s2, t2, id)'
      <3>1. CASE s2 = s /\ t2 = t
        <4>1. id = new
          BY <2>7, <2>9, <3>1
        <4> QED BY <1>1, <1>3, <2>3, <2>5, <3>1, <4>1 DEF OwnedOK
      <3>2. CASE s2 # s \/ t2 # t
        <4>1. /\ OwnedOK(s2, t2, id) /\ id # new
              /\ pc'[s2][t2] = pc[s2][t2] /\ outcome'[s2][t2] = outcome[s2][t2]
          BY <2>8, <2>9, <3>2 DEF OwnerInv
        <4> QED BY <1>1, <2>3, <4>1 DEF OwnedOK
      <3> QED BY <3>1, <3>2
    <2>10. ASSUME NEW s1 \in Services, NEW s2 \in Services, NEW t1 \in Threads,
                  NEW t2 \in Threads, NEW id \in RequestId,
                  Owns(s1, t1, id)', Owns(s2, t2, id)'
           PROVE  s1 = s2 /\ t1 = t2
      <3>1. CASE id = new
        BY <2>8, <2>10, <3>1
      <3>2. CASE id # new
        <4>1. Owns(s1, t1, id) /\ Owns(s2, t2, id)
          BY <2>7, <2>8, <2>10, <3>2
        <4> QED BY <4>1 DEF OwnerInv
      <3> QED BY <3>1, <3>2
    <2>11. DeliveredIsRecorded'
      BY <1>1, <2>3, <2>5 DEF OwnerInv, DeliveredIsRecorded
    <2> QED BY <2>9, <2>10, <2>11 DEF OwnerInv
  <1> QED BY <1>2, <1>3, SaveEffect

(* An owner goes on: it is an owner no longer, or what it owes still holds; *)
(* the only answer it may have given is to its own request.                 *)
LEMMA OwnerMoves ==
  ASSUME WorkerInv, OwnerInv, NEW s \in Services, NEW t \in Threads,
         OthersStay(s, t), logs' = logs, reqHistory' = reqHistory,
         \A id \in RequestId : Owns(s, t, id)' => Owns(s, t, id) /\ OwnedOK(s, t, id)',
         \A id \in RequestId : rawResultMap'[id] = rawResultMap[id] \/ Owns(s, t, id),
         DeliveredIsRecorded'
  PROVE  OwnerInv'
  <1>1. ASSUME NEW s2 \in Services, NEW t2 \in Threads, NEW id \in RequestId, Owns(s2, t2, id)'
        PROVE  Owns(s2, t2, id) /\ OwnedOK(s2, t2, id)'
    <2>1. CASE s2 = s /\ t2 = t
      BY <1>1, <2>1
    <2>2. CASE s2 # s \/ t2 # t
      <3>1. /\ Owns(s2, t2, id)
            /\ pc'[s2][t2] = pc[s2][t2] /\ outcome'[s2][t2] = outcome[s2][t2]
        BY <1>1, <2>2, OthersOwner
      <3>2. OwnedOK(s2, t2, id) /\ ~Owns(s, t, id)
        BY <2>2, <3>1 DEF OwnerInv
      <3>3. rawResultMap'[id] = rawResultMap[id]
        BY <3>2
      <3> QED BY <3>1, <3>2, <3>3 DEF OwnedOK
    <2> QED BY <2>1, <2>2
  <1>2. ASSUME NEW s1 \in Services, NEW s2 \in Services, NEW t1 \in Threads,
               NEW t2 \in Threads, NEW id \in RequestId,
               Owns(s1, t1, id)', Owns(s2, t2, id)'
        PROVE  s1 = s2 /\ t1 = t2
    <2>1. Owns(s1, t1, id) /\ Owns(s2, t2, id)
      BY <1>1, <1>2
    <2> QED BY <2>1 DEF OwnerInv
  <1> QED BY <1>1, <1>2 DEF OwnerInv

(* What the thread that owns the request of its event knows about it. *)
LEMMA OwnerKnows ==
  ASSUME WorkerInv, OwnerInv, NEW s \in Services, NEW t \in Threads,
         pc[s][t] \in {"fetch", "check", "fulfill"}
  PROVE  /\ Event(s, t).id \in RequestId
         /\ Owns(s, t, Event(s, t).id)
         /\ OwnedOK(s, t, Event(s, t).id)
         /\ rawResultMap[Event(s, t).id] = None
  <1>1. Event(s, t).id \in RequestId
    BY EventType DEF WorkerInv, Working
  <1>2. Owns(s, t, Event(s, t).id)
    BY DEF Owns
  <1>3. OwnedOK(s, t, Event(s, t).id)
    BY <1>1, <1>2 DEF OwnerInv
  <1>4. rawResultMap[Event(s, t).id] = None
    BY <1>3 DEF OwnedOK
  <1> QED BY <1>1, <1>2, <1>3, <1>4

(* Before the callback: the owner goes on, and nobody is answered. *)
LEMMA UnansweredOwner ==
  ASSUME WorkerInv, OwnerInv, NEW s \in Services, NEW t \in Threads,
         pc[s][t] \in {"fetch", "check", "fulfill"}, current'[s][t] = current[s][t],
         OthersStay(s, t), logs' = logs, reqHistory' = reqHistory,
         rawResultMap' = rawResultMap
  PROVE  OwnerInv'
  <1>1. ASSUME NEW id \in RequestId, Owns(s, t, id)'
        PROVE  Owns(s, t, id) /\ OwnedOK(s, t, id)'
    <2>1. id = Event(s, t).id
      BY <1>1 DEF Owns, Event
    <2>2. Owns(s, t, id) /\ OwnedOK(s, t, id) /\ rawResultMap[id] = None
      BY <2>1, OwnerKnows
    <2> QED BY <2>2 DEF OwnedOK
  <1>2. DeliveredIsRecorded'
    BY DEF OwnerInv, DeliveredIsRecorded
  <1> QED BY <1>1, <1>2, OwnerMoves

(* Fetching: the owner stays the only one, and nobody was answered. *)
LEMMA FetchOwner ==
  ASSUME WorkerInv, OwnerInv, NEW s \in Services, NEW t \in Threads, Fetch(s, t)
  PROVE  OwnerInv'
  <1>1. /\ logs' = logs /\ reqHistory' = reqHistory /\ rawResultMap' = rawResultMap
        /\ pc[s][t] = "fetch"
    BY DEF Fetch, vars, clientVars
  <1> QED BY <1>1, FetchEffect, UnansweredOwner

(* Checking: the owner stays the only one, and nobody was answered. *)
LEMMA CheckOwner ==
  ASSUME WorkerInv, OwnerInv, NEW s \in Services, NEW t \in Threads, Check(s, t)
  PROVE  OwnerInv'
  <1>1. /\ logs' = logs /\ reqHistory' = reqHistory /\ rawResultMap' = rawResultMap
        /\ pc[s][t] = "check"
    BY DEF Check, vars, clientVars
  <1> QED BY <1>1, CheckEffect, UnansweredOwner

(* The callback that sets an answer sets the one the owner will write. *)
LEMMA FulfillOwner ==
  ASSUME WorkerInv, OwnerInv, NEW s \in Services, NEW t \in Threads, Fulfill(s, t)
  PROVE  OwnerInv'
  <1> DEFINE own == Event(s, t).id
             answer == outcome[s][t].result
  <1>1. /\ OthersStay(s, t) /\ current'[s][t] = current[s][t]
        /\ logs' = logs /\ pc'[s][t] = "update"
    BY FulfillEffect
  <1>2. reqHistory' = reqHistory /\ pc[s][t] = "fulfill"
    BY DEF Fulfill
  <1>3. CASE rawResultMap' = rawResultMap
    BY <1>1, <1>2, <1>3, UnansweredOwner
  <1>4. CASE /\ rawResultMap' = [rawResultMap EXCEPT ![own] = answer]
             /\ \/ outcome'[s][t] = outcome[s][t]
                \/ outcome'[s][t].status = "UNEXPECTED"
    <2>1. /\ own \in RequestId /\ Owns(s, t, own) /\ OwnedOK(s, t, own)
      BY <1>2, OwnerKnows
    <2>2. outcome[s][t].status = "SUCCESS"
      BY <1>2 DEF WorkerInv, ThreadOK
    <2>3. rawResultMap \in [RequestId -> Results \cup {None}]
      BY TypeParts DEF TypeOK
    <2>4. own' = own
      BY <1>1 DEF Event
    <2>5. ASSUME NEW id \in RequestId, Owns(s, t, id)'
          PROVE  id = own /\ outcome'[s][t] = outcome[s][t]
      BY <1>1, <1>4, <2>4, <2>5 DEF Owns
    <2> HIDE DEF own, answer
    <2>6. \A id \in RequestId : rawResultMap'[id] = IF id = own THEN answer ELSE rawResultMap[id]
      BY <1>4, <2>1, <2>3
    <2>7. ASSUME outcome'[s][t] = outcome[s][t] PROVE OwnedOK(s, t, own)'
      <3>1. rawResultMap'[own] = answer
        BY <2>1, <2>6
      <3>2. outcome'[s][t].status = "SUCCESS" /\ outcome'[s][t].result = answer
        BY <2>2, <2>7 DEF answer
      <3> SUFFICES /\ reqHistory'[own] # None
                   /\ reqHistory'[own].status \in {"SUCCESS", "UNEXPECTED"}
                   /\ reqHistory'[own].result \in {None, NoResult}
        BY <1>1, <2>4, <3>1, <3>2 DEF OwnedOK
      <3> QED BY <1>2, <2>1 DEF OwnedOK
    <2>8. DeliveredIsRecorded'
      <3>1. ASSUME NEW id \in RequestId, rawResultMap'[id] # None
            PROVE  /\ reqHistory'[id] # None
                   /\ reqHistory'[id].status \in {"SUCCESS", "UNEXPECTED"}
                   /\ reqHistory'[id].result \in {None, NoResult, rawResultMap'[id]}
        <4>1. CASE id = own
          BY <1>2, <2>1, <4>1 DEF OwnedOK
        <4>2. CASE id # own
          BY <1>2, <2>6, <3>1, <4>2 DEF OwnerInv, DeliveredIsRecorded
        <4> QED BY <4>1, <4>2
      <3> QED BY <3>1 DEF DeliveredIsRecorded
    <2> QED BY <1>1, <1>2, <2>1, <2>4, <2>5, <2>6, <2>7, <2>8, OwnerMoves
  <1> QED BY <1>3, <1>4, FulfillEffect

(* What updateReqHistory does to the table. *)
LEMMA UpdatedRow ==
  ASSUME WorkerInv, NEW s \in Services, NEW t \in Threads, Update(s, t)
  PROVE  /\ Event(s, t).id \in RequestId
         /\ \A id \in RequestId : id # Event(s, t).id => reqHistory'[id] = reqHistory[id]
         /\ reqHistory[Event(s, t).id] # None =>
              /\ reqHistory'[Event(s, t).id] # None
              /\ reqHistory'[Event(s, t).id].status = outcome[s][t].status
              /\ reqHistory'[Event(s, t).id].result = outcome[s][t].result
  <1> DEFINE mine == Event(s, t).id
             row == [reqHistory[mine] EXCEPT !.status = outcome[s][t].status,
                                             !.result = outcome[s][t].result]
  <1>1. mine \in RequestId
    BY EventType DEF Update, WorkerInv, Working
  <1>2. reqHistory \in [RequestId -> DBReqHistory \cup {None}]
    BY TypeParts
  <1>3. CASE reqHistory[mine] = None /\ reqHistory' = reqHistory
    BY <1>1, <1>3
  <1>4. CASE reqHistory[mine] # None /\ reqHistory' = [reqHistory EXCEPT ![mine] = row]
    <2>1. reqHistory[mine] \in DBReqHistory
      BY <1>1, <1>2, <1>4
    <2>2. outcome[s][t] \in Outcome
      BY TypeParts DEF ThreadVarsTyped
    <2>3. /\ row \in DBReqHistory
          /\ row.status = outcome[s][t].status /\ row.result = outcome[s][t].result
      BY <2>1, <2>2 DEF DBReqHistory, Outcome
    <2>4. row # None
      BY <2>3, NoResultAssumption
    <2> HIDE DEF mine, row
    <2>5. \A id \in RequestId : reqHistory'[id] = IF id = mine THEN row ELSE reqHistory[id]
      BY <1>1, <1>2, <1>4
    <2>6. /\ \A id \in RequestId : id # mine => reqHistory'[id] = reqHistory[id]
          /\ reqHistory'[mine] = row
      BY <1>1, <2>5
    <2> QED BY <1>1, <2>3, <2>4, <2>6 DEF mine
  <1> QED BY <1>3, <1>4 DEF Update

(* The row of a finished thread: the owner's tells what it knows; that of a *)
(* thread whose save was refused tells nothing, and spoils no answer.       *)
LEMMA UpdateOwner ==
  ASSUME WorkerInv, OwnerInv, NEW s \in Services, NEW t \in Threads, Update(s, t)
  PROVE  OwnerInv'
  <1> DEFINE mine == Event(s, t).id
  <1>1. /\ OthersStay(s, t) /\ pc'[s][t] \in {"find", "idle"}
    BY UpdateEffect
  <1>2. logs' = logs /\ rawResultMap' = rawResultMap /\ pc[s][t] = "update"
    BY DEF Update, vars, clientVars
  <1>3. /\ mine \in RequestId
        /\ \A id \in RequestId : id # mine => reqHistory'[id] = reqHistory[id]
        /\ reqHistory[mine] # None =>
             /\ reqHistory'[mine] # None
             /\ reqHistory'[mine].status = outcome[s][t].status
             /\ reqHistory'[mine].result = outcome[s][t].result
    BY UpdatedRow
  <1>4. \/ Owns(s, t, mine)
        \/ outcome[s][t].status = "UNEXPECTED" /\ outcome[s][t].result = NoResult
    BY <1>2 DEF Owns, WorkerInv, ThreadOK
  <1> HIDE DEF mine
  <1>5. ASSUME NEW s2 \in Services, NEW t2 \in Threads, NEW id \in RequestId, Owns(s2, t2, id)'
        PROVE  /\ s2 # s \/ t2 # t
               /\ Owns(s2, t2, id) /\ OwnedOK(s2, t2, id)
               /\ pc'[s2][t2] = pc[s2][t2] /\ outcome'[s2][t2] = outcome[s2][t2]
    <2>1. s2 # s \/ t2 # t
      BY <1>1, <1>5 DEF Owns
    <2> QED BY <1>1, <1>2, <1>5, <2>1, OthersOwner DEF OwnerInv
  <1>6. ASSUME NEW s2 \in Services, NEW t2 \in Threads, NEW id \in RequestId, Owns(s2, t2, id)'
        PROVE  OwnedOK(s2, t2, id)'
    <2>1. /\ s2 # s \/ t2 # t
          /\ Owns(s2, t2, id) /\ OwnedOK(s2, t2, id)
          /\ pc'[s2][t2] = pc[s2][t2] /\ outcome'[s2][t2] = outcome[s2][t2]
      BY <1>5, <1>6
    <2>2. CASE id # mine
      BY <1>2, <1>3, <2>1, <2>2 DEF OwnedOK
    <2>3. CASE id = mine
      <3>1. ~Owns(s, t, mine)
        BY <1>3, <2>1, <2>3 DEF OwnerInv
      <3>2. reqHistory[mine] # None
        BY <2>1, <2>3 DEF OwnedOK
      <3>3. /\ reqHistory'[mine] # None
            /\ reqHistory'[mine].status = "UNEXPECTED"
            /\ reqHistory'[mine].result = NoResult
        BY <1>3, <1>4, <3>1, <3>2
      <3> QED BY <1>2, <2>1, <2>3, <3>3 DEF OwnedOK
    <2> QED BY <2>2, <2>3
  <1>7. ASSUME NEW s1 \in Services, NEW s2 \in Services, NEW t1 \in Threads,
               NEW t2 \in Threads, NEW id \in RequestId,
               Owns(s1, t1, id)', Owns(s2, t2, id)'
        PROVE  s1 = s2 /\ t1 = t2
    <2>1. Owns(s1, t1, id) /\ Owns(s2, t2, id)
      BY <1>5, <1>7
    <2> QED BY <2>1 DEF OwnerInv
  <1>8. ASSUME NEW id \in RequestId, rawResultMap'[id] # None
        PROVE  /\ reqHistory'[id] # None
               /\ reqHistory'[id].status \in {"SUCCESS", "UNEXPECTED"}
               /\ reqHistory'[id].result \in {None, NoResult, rawResultMap'[id]}
    <2>1. /\ rawResultMap[id] # None /\ reqHistory[id] # None
          /\ reqHistory[id].status \in {"SUCCESS", "UNEXPECTED"}
          /\ reqHistory[id].result \in {None, NoResult, rawResultMap[id]}
      BY <1>2, <1>8 DEF OwnerInv, DeliveredIsRecorded
    <2>2. CASE id # mine
      BY <1>2, <1>3, <2>1, <2>2
    <2>3. CASE id = mine
      <3>1. /\ reqHistory'[mine] # None
            /\ reqHistory'[mine].status = outcome[s][t].status
            /\ reqHistory'[mine].result = outcome[s][t].result
        BY <1>3, <2>1, <2>3
      <3>2. CASE Owns(s, t, mine)
        <4>1. OwnedOK(s, t, mine)
          BY <1>3, <3>2 DEF OwnerInv
        <4>2. outcome[s][t].status = "SUCCESS" /\ outcome[s][t].result = rawResultMap[mine]
          BY <1>2, <2>1, <2>3, <4>1 DEF OwnedOK
        <4> QED BY <1>2, <2>3, <3>1, <4>2
      <3>3. CASE outcome[s][t].status = "UNEXPECTED" /\ outcome[s][t].result = NoResult
        BY <2>3, <3>1, <3>3
      <3> QED BY <1>4, <3>2, <3>3
    <2> QED BY <2>2, <2>3
  <1>9. DeliveredIsRecorded'
    BY <1>8 DEF DeliveredIsRecorded
  <1> QED BY <1>6, <1>7, <1>9 DEF OwnerInv

(* At the start nobody owns anything. *)
LEMMA OwnerInvInit == SystemInit => OwnerInv
  <1> SUFFICES ASSUME SystemInit PROVE OwnerInv
    OBVIOUS
  <1>1. \A s \in Services, t \in Threads, id \in RequestId : ~Owns(s, t, id)
    BY DEF SystemInit, Owns
  <1>2. \A id \in RequestId : rawResultMap[id] = None
    BY DEF SystemInit, Init
  <1> QED BY <1>1, <1>2 DEF OwnerInv, DeliveredIsRecorded

(* Every step of the system preserves OwnerInv. *)
LEMMA OwnerInvStep ==
  ASSUME WorkerInv, OwnerInv, [SystemNext]_systemVars
  PROVE  OwnerInv'
  <1>1. CASE ChainStep
    BY <1>1, ChainOwner
  <1>2. CASE WorkerInv' /\ Quiet
    BY <1>2, QuietOwner
  <1>3. CASE \E s \in Services, t \in Threads : ProcessLogs(s, t)
    BY <1>3, FindOwner, SaveOwner, FetchOwner, CheckOwner, FulfillOwner, UpdateOwner
       DEF ProcessLogs
  <1>4. CASE UNCHANGED systemVars
    <2>1. Quiet
      BY <1>4 DEF systemVars, serviceVars, threadVars, vars, Quiet
    <2> QED BY <2>1, QuietOwner
  <1> QED BY <1>1, <1>2, <1>3, <1>4, SystemCases

(* The second inductive invariant: one owner of a request, who knows its fate. *)
THEOREM Ownership == SystemSpec => []OwnerInv
  <1>1. WorkerInv /\ OwnerInv /\ [SystemNext]_systemVars => OwnerInv'
    BY OwnerInvStep
  <1> QED BY <1>1, OwnerInvInit, WorkerInvariance, PTL DEF SystemSpec

(* However many services and threads share the table, and however often     *)
(* they crash, a request is fetched and written back by one thread at a     *)
(* time, whose row is in the table.                                         *)
THEOREM ProcessingIsExclusive == SystemSpec => []ExclusiveProcessing
  <1>1. OwnerInv => ExclusiveProcessing
    <2> SUFFICES ASSUME OwnerInv, NEW id \in RequestId,
                        NEW s1 \in Services, NEW s2 \in Services,
                        NEW t1 \in Threads, NEW t2 \in Threads, Processing(s1, t1, id)
                 PROVE  /\ reqHistory[id] # None
                        /\ Processing(s2, t2, id) => s1 = s2 /\ t1 = t2
      BY DEF ExclusiveProcessing
    <2>1. Owns(s1, t1, id) /\ (Processing(s2, t2, id) => Owns(s2, t2, id))
      BY DEF Processing, Owns
    <2> QED BY <2>1 DEF OwnerInv, OwnedOK
  <1> QED BY <1>1, Ownership, PTL

(* No crash, race of services or revert makes the table contradict the      *)
(* answer a consumer received.                                              *)
THEOREM DeliveriesAreRecorded == SystemSpec => []DeliveredIsRecorded
  <1>1. OwnerInv => DeliveredIsRecorded
    BY DEF OwnerInv
  <1> QED BY <1>1, Ownership, PTL

-----------------------------------------------------------------------------
(* One service per core, which only hears of what consumers ask.            *)

(* Every core is listened to by one service at most. *)
ServicesApart ==
  \A s1, s2 \in Services : ServedCore[s1] = ServedCore[s2] => s1 = s2

(* Nobody calls query() but the consumers, each with a nonce of its own. *)
OnlyConsumersQuery == ExternalExpiry = {}

(* Every event is of a nonce its consumer has used, and of its own request. *)
FreshEvents ==
  /\ \A i \in 1..Len(logs) : logs[i].id.nonce < requestCount[logs[i].id.callback]
  /\ \A i, j \in 1..Len(logs) : logs[i].id = logs[j].id => i = j

(* Thread t has event i in hand: it works on it, or will after others. *)
InThread(s, t, i) == current[s][t] = i \/ i \in batch[s][t]

(* Event i waits in the queue. *)
InQueue(s, i) == \E k \in 1..Len(queue[s]) : i \in queue[s][k]

(* s has event i in hand once, and was pushed it by its core. *)
Once(s, i) ==
  /\ \A t \in Threads : ~(current[s][t] = i /\ i \in batch[s][t])
  /\ \A t, u \in Threads : InThread(s, t, i) /\ InThread(s, u, i) => t = u
  /\ \A t \in Threads : InThread(s, t, i) => ~InQueue(s, i)
  /\ \A k, l \in 1..Len(queue[s]) : i \in queue[s][k] /\ i \in queue[s][l] => k = l
  /\ InQueue(s, i) \/ (\E t \in Threads : InThread(s, t, i)) =>
       logs[i].core = ServedCore[s] /\ logs[i].block < cursor[s]

HandedOnce == \A s \in Services : \A i \in 1..Len(logs) : Once(s, i)

(* A thread that is to save finds no row, and until it updates its row that *)
(* one has no result.                                                       *)
RowIsOpen(s, t) ==
  /\ pc[s][t] = "save" => reqHistory[Event(s, t).id] = None
  /\ pc[s][t] \in {"fetch", "check", "fulfill", "update"} =>
       reqHistory[Event(s, t).id] = None \/ reqHistory[Event(s, t).id].result = None

OpenRows == \A s \in Services, t \in Threads : RowIsOpen(s, t)

(* The third inductive invariant. *)
RecordInv == FreshEvents /\ HandedOnce /\ OpenRows

(* What one service may do to what its threads have in hand: thread t gets  *)
(* the events of E, the first of them in work.                              *)
Hands(s, t, E) ==
  /\ \A i \in 1..Len(logs) : InThread(s, t, i)' <=> i \in E
  /\ \A i \in 1..Len(logs) : ~(current'[s][t] = i /\ i \in batch'[s][t])
  /\ \A s2 \in Services, t2 \in Threads : s2 # s \/ t2 # t =>
       current'[s2][t2] = current[s2][t2] /\ batch'[s2][t2] = batch[s2][t2]

(* Begin hands its thread the events it is given. *)
LEMMA BeginHands ==
  ASSUME ThreadVarsTyped, NEW s \in Services, NEW t \in Threads,
         NEW E \in SUBSET (1..Len(logs)), Begin(s, t, E)
  PROVE  Hands(s, t, E)
  <1>1. PICK first \in E :
          /\ current' = [current EXCEPT ![s][t] = first]
          /\ batch' = [batch EXCEPT ![s][t] = E \ {first}]
    BY DEF Begin
  <1>2. first \in 0..Len(logs) /\ E \ {first} \in SUBSET (1..Len(logs))
    OBVIOUS
  <1>3. \A s2 \in Services, t2 \in Threads :
          current'[s2][t2] = IF s2 = s /\ t2 = t THEN first ELSE current[s2][t2]
    BY <1>1, <1>2, PutThread DEF ThreadVarsTyped
  <1>4. \A s2 \in Services, t2 \in Threads :
          batch'[s2][t2] = IF s2 = s /\ t2 = t THEN E \ {first} ELSE batch[s2][t2]
    BY <1>1, <1>2, PutThread DEF ThreadVarsTyped
  <1>5. current'[s][t] = first /\ batch'[s][t] = E \ {first}
    BY <1>3, <1>4
  <1>6. \A i \in 1..Len(logs) : InThread(s, t, i)' <=> i \in E
    BY <1>5 DEF InThread
  <1> QED BY <1>3, <1>4, <1>5, <1>6 DEF Hands

(* A thread that rests has nothing in hand. *)
LEMMA RestHands ==
  ASSUME ThreadVarsTyped, NEW s \in Services, NEW t \in Threads, Rest(s, t)
  PROVE  Hands(s, t, {})
  <1>1. /\ current' = [current EXCEPT ![s][t] = 0]
        /\ batch' = [batch EXCEPT ![s][t] = {}]
    BY DEF Rest
  <1>2. 0 \in 0..Len(logs) /\ {} \in SUBSET (1..Len(logs))
    <2>1. current[s][t] \in 0..Len(logs)
      BY DEF ThreadVarsTyped
    <2> QED BY <2>1
  <1>3. \A s2 \in Services, t2 \in Threads :
          current'[s2][t2] = IF s2 = s /\ t2 = t THEN 0 ELSE current[s2][t2]
    BY <1>1, <1>2, PutThread DEF ThreadVarsTyped
  <1>4. \A s2 \in Services, t2 \in Threads :
          batch'[s2][t2] = IF s2 = s /\ t2 = t THEN {} ELSE batch[s2][t2]
    BY <1>1, <1>2, PutThread DEF ThreadVarsTyped
  <1>5. current'[s][t] = 0 /\ batch'[s][t] = {}
    BY <1>3, <1>4
  <1>6. \A i \in 1..Len(logs) : InThread(s, t, i)' <=> i \in {}
    BY <1>5 DEF InThread
  <1> QED BY <1>3, <1>4, <1>5, <1>6 DEF Hands

(* A thread that goes on keeps in hand what was behind its event. *)
LEMMA NextEventHands ==
  ASSUME ThreadVarsTyped, NEW s \in Services, NEW t \in Threads, NextEvent(s, t)
  PROVE  Hands(s, t, batch[s][t])
  <1>1. batch[s][t] \in SUBSET (1..Len(logs))
    BY DEF ThreadVarsTyped
  <1>2. CASE batch[s][t] = {} /\ Rest(s, t)
    BY <1>2, RestHands
  <1>3. CASE Begin(s, t, batch[s][t])
    BY <1>1, <1>3, BeginHands
  <1> QED BY <1>2, <1>3 DEF NextEvent

(* The first d batches leave the queue, the others stay. *)
Leave(s, d) ==
  \A k \in 1..Len(queue'[s]) : k + d \in 1..Len(queue[s]) /\ queue'[s][k] = queue[s][k + d]

(* An event that one thread gets, out of its batch, the queue or a push, is *)
(* in hand once.                                                            *)
LEMMA HandsOnce ==
  ASSUME HandedOnce, logs' = logs, NEW s \in Services, NEW t \in Threads, NEW E, Hands(s, t, E),
         NEW d \in Nat,
         \A s2 \in Services : s2 # s => queue'[s2] = queue[s2],
         \A s2 \in Services : cursor[s2] \in Nat /\ cursor'[s2] \in Nat /\ cursor[s2] <= cursor'[s2],
         \A i \in 1..Len(logs) : logs[i].block \in Nat,
         Leave(s, d),
         \A i \in E \cap 1..Len(logs) :
           /\ logs[i].core = ServedCore[s] /\ logs[i].block < cursor'[s]
           /\ \A u \in Threads : u # t => ~InThread(s, u, i)
           /\ \A k \in 1..Len(queue'[s]) : i \notin queue'[s][k]
  PROVE  HandedOnce'
  <1> SUFFICES ASSUME NEW s2 \in Services, NEW i \in 1..Len(logs) PROVE Once(s2, i)'
    BY DEF HandedOnce
  <1>1. Once(s2, i)
    BY DEF HandedOnce
  <1>2. /\ cursor[s2] \in Nat /\ cursor'[s2] \in Nat /\ cursor[s2] <= cursor'[s2]
        /\ logs[i].block \in Nat
    OBVIOUS
  <1>3. CASE s2 # s
    <2>1. queue'[s2] = queue[s2]
      BY <1>3
    <2>2. \A u \in Threads : current'[s2][u] = current[s2][u] /\ batch'[s2][u] = batch[s2][u]
      BY <1>3 DEF Hands
    <2>3. /\ InQueue(s2, i)' <=> InQueue(s2, i)
          /\ \A u \in Threads : InThread(s2, u, i)' <=> InThread(s2, u, i)
      BY <2>1, <2>2 DEF InQueue, InThread
    <2>4. \A u \in Threads : ~(current'[s2][u] = i /\ i \in batch'[s2][u])
      BY <1>1, <2>2 DEF Once
    <2>5. \A u, v \in Threads : InThread(s2, u, i)' /\ InThread(s2, v, i)' => u = v
      BY <1>1, <2>3 DEF Once
    <2>6. \A u \in Threads : InThread(s2, u, i)' => ~InQueue(s2, i)'
      BY <1>1, <2>3 DEF Once
    <2>7. \A k, l \in 1..Len(queue'[s2]) : i \in queue'[s2][k] /\ i \in queue'[s2][l] => k = l
      BY <1>1, <2>1 DEF Once
    <2>8. InQueue(s2, i)' \/ (\E u \in Threads : InThread(s2, u, i)') =>
            logs[i].core = ServedCore[s2] /\ logs[i].block < cursor'[s2]
      BY <1>1, <1>2, <2>3 DEF Once
    <2> QED BY <2>4, <2>5, <2>6, <2>7, <2>8 DEF Once
  <1>4. CASE s2 = s
    <2>1. InQueue(s, i)' => InQueue(s, i) /\ i \notin E
      BY DEF InQueue, Leave
    <2>2. \A u \in Threads : u # t =>
            /\ current'[s][u] = current[s][u] /\ batch'[s][u] = batch[s][u]
            /\ InThread(s, u, i)' <=> InThread(s, u, i)
      BY DEF Hands, InThread
    <2>3. InThread(s, t, i)' <=> i \in E
      BY DEF Hands
    <2>4. \A u \in Threads : ~(current'[s][u] = i /\ i \in batch'[s][u])
      BY <1>1, <1>4, <2>2 DEF Hands, Once
    <2>5. \A u, v \in Threads : InThread(s, u, i)' /\ InThread(s, v, i)' => u = v
      BY <1>1, <1>4, <2>2, <2>3 DEF Once
    <2>6. \A u \in Threads : InThread(s, u, i)' => ~InQueue(s, i)'
      BY <1>1, <1>4, <2>1, <2>2, <2>3 DEF Once
    <2>7. \A k, l \in 1..Len(queue'[s]) : i \in queue'[s][k] /\ i \in queue'[s][l] => k = l
      <3> SUFFICES ASSUME NEW k \in 1..Len(queue'[s]), NEW l \in 1..Len(queue'[s]),
                          i \in queue'[s][k], i \in queue'[s][l]
                   PROVE  k = l
        OBVIOUS
      <3>1. k + d = l + d
        BY <1>1, <1>4 DEF Once, Leave
      <3> QED BY <3>1
    <2>8. InQueue(s, i)' \/ (\E u \in Threads : InThread(s, u, i)') =>
            logs[i].core = ServedCore[s] /\ logs[i].block < cursor'[s]
      <3>1. CASE i \in E
        BY <3>1
      <3>2. CASE i \notin E
        BY <1>1, <1>2, <1>4, <2>1, <2>2, <2>3, <3>2 DEF Once
      <3> QED BY <3>1, <3>2
    <2> QED BY <1>4, <2>4, <2>5, <2>6, <2>7, <2>8 DEF Once
  <1> QED BY <1>3, <1>4

(* When hands and queues stay, and the log only grows, events stay in hand  *)
(* once: a new event is in nobody's hand.                                   *)
LEMMA HandsStay ==
  ASSUME WorkerInv, HandedOnce, current' = current, batch' = batch, queue' = queue,
         \A i \in 1..Len(logs) : logs'[i] = logs[i],
         \A i \in 1..Len(logs) : logs[i].block \in Nat,
         \A s \in Services : cursor[s] \in Nat /\ cursor'[s] \in Nat /\ cursor[s] <= cursor'[s]
  PROVE  HandedOnce'
  <1> SUFFICES ASSUME NEW s \in Services, NEW i \in 1..Len(logs') PROVE Once(s, i)'
    BY DEF HandedOnce
  <1>1. /\ InQueue(s, i)' <=> InQueue(s, i)
        /\ \A t \in Threads : InThread(s, t, i)' <=> InThread(s, t, i)
    BY DEF InQueue, InThread
  <1>2. CASE i \in 1..Len(logs)
    <2>1. Once(s, i) /\ logs'[i] = logs[i] /\ logs[i].block \in Nat
      BY <1>2 DEF HandedOnce
    <2>2. /\ cursor[s] \in Nat /\ cursor'[s] \in Nat /\ cursor[s] <= cursor'[s]
      OBVIOUS
    <2>3. InQueue(s, i)' \/ (\E t \in Threads : InThread(s, t, i)') =>
            logs'[i].core = ServedCore[s] /\ logs'[i].block < cursor'[s]
      BY <1>1, <2>1, <2>2 DEF Once
    <2>4. /\ \A t, u \in Threads : InThread(s, t, i)' /\ InThread(s, u, i)' => t = u
          /\ \A t \in Threads : InThread(s, t, i)' => ~InQueue(s, i)'
      BY <1>1, <2>1 DEF Once
    <2>5. /\ \A t \in Threads : ~(current'[s][t] = i /\ i \in batch'[s][t])
          /\ \A k, l \in 1..Len(queue'[s]) : i \in queue'[s][k] /\ i \in queue'[s][l] => k = l
      BY <2>1 DEF Once
    <2> QED BY <2>3, <2>4, <2>5 DEF Once
  <1>3. CASE i \notin 1..Len(logs)
    <2>1. /\ ThreadVarsTyped /\ Len(logs) \in Nat
          /\ \A k \in 1..Len(queue[s]) : queue[s][k] \subseteq 1..Len(logs)
      BY TypeParts DEF WorkerInv, SystemTypeOK
    <2>2. i # 0
      OBVIOUS
    <2>3. \A t \in Threads : current[s][t] # i /\ i \notin batch[s][t]
      BY <1>3, <2>1, <2>2 DEF ThreadVarsTyped
    <2>4. \A k \in 1..Len(queue'[s]) : i \notin queue'[s][k]
      BY <1>3, <2>1
    <2>5. ~InQueue(s, i)' /\ \A t \in Threads : ~InThread(s, t, i)'
      BY <2>3, <2>4 DEF InQueue, InThread
    <2> QED BY <2>3, <2>4, <2>5 DEF Once
  <1> QED BY <1>2, <1>3

(* A process that dies loses what it had in hand. *)
LEMMA CrashHands ==
  ASSUME WorkerInv, HandedOnce, NEW s \in Services, Crash(s)
  PROVE  HandedOnce'
  <1>1. /\ logs' = logs
        /\ cursor' = [cursor EXCEPT ![s] = 0]
        /\ queue' = [queue EXCEPT ![s] = <<>>]
        /\ current' = [current EXCEPT ![s] = [t \in Threads |-> 0]]
        /\ batch' = [batch EXCEPT ![s] = [t \in Threads |-> {}]]
    BY DEF Crash, vars
  <1>2. /\ cursor \in [Services -> Nat] /\ queue \in [Services -> Seq(SUBSET Nat)]
        /\ current \in [Services -> [Threads -> 0..Len(logs)]]
        /\ batch \in [Services -> [Threads -> SUBSET (1..Len(logs))]]
    BY DEF WorkerInv, SystemTypeOK
  <1> SUFFICES ASSUME NEW s2 \in Services, NEW i \in 1..Len(logs) PROVE Once(s2, i)'
    BY <1>1 DEF HandedOnce
  <1>3. CASE s2 = s
    <2>1. queue'[s2] = <<>> /\ \A t \in Threads : current'[s2][t] = 0 /\ batch'[s2][t] = {}
      BY <1>1, <1>2, <1>3
    <2>2. Len(queue'[s2]) = 0
      BY <2>1
    <2>3. ~InQueue(s2, i)' /\ \A t \in Threads : ~InThread(s2, t, i)'
      BY <2>1, <2>2 DEF InQueue, InThread
    <2> QED BY <2>1, <2>2, <2>3 DEF Once
  <1>4. CASE s2 # s
    <2>1. /\ queue'[s2] = queue[s2] /\ cursor'[s2] = cursor[s2]
          /\ current'[s2] = current[s2] /\ batch'[s2] = batch[s2]
      BY <1>1, <1>2, <1>4
    <2>2. Once(s2, i)
      BY DEF HandedOnce
    <2> QED BY <1>1, <2>1, <2>2 DEF Once, InQueue, InThread
  <1> QED BY <1>3, <1>4

(* A batch that is queued was in nobody's hand. *)
LEMMA QueueHands ==
  ASSUME WorkerInv, HandedOnce, logs' = logs, current' = current, batch' = batch,
         NEW s \in Services, NEW E \in SUBSET (1..Len(logs)),
         queue' = [queue EXCEPT ![s] = Append(queue[s], E)],
         \A s2 \in Services : cursor[s2] \in Nat /\ cursor'[s2] \in Nat /\ cursor[s2] <= cursor'[s2],
         \A i \in 1..Len(logs) : logs[i].block \in Nat,
         \A i \in E : /\ logs[i].core = ServedCore[s] /\ logs[i].block = cursor[s]
                      /\ cursor[s] < cursor'[s]
  PROVE  HandedOnce'
  <1> SUFFICES ASSUME NEW s2 \in Services, NEW i \in 1..Len(logs) PROVE Once(s2, i)'
    BY DEF HandedOnce
  <1>1. Once(s2, i)
    BY DEF HandedOnce
  <1>2. \A t \in Threads : InThread(s2, t, i)' <=> InThread(s2, t, i)
    BY DEF InThread
  <1>3. /\ cursor[s2] \in Nat /\ cursor'[s2] \in Nat /\ cursor[s2] <= cursor'[s2]
        /\ logs[i].block \in Nat /\ queue \in [Services -> Seq(SUBSET Nat)]
    BY DEF WorkerInv, SystemTypeOK
  <1>4. CASE s2 # s \/ i \notin E
    <2>1. /\ Len(queue[s2]) \in Nat
          /\ \A k \in 1..Len(queue[s2]) :
               k \in 1..Len(queue'[s2]) /\ queue'[s2][k] = queue[s2][k]
          /\ \A k \in 1..Len(queue'[s2]) : i \in queue'[s2][k] =>
               k \in 1..Len(queue[s2]) /\ i \in queue[s2][k]
      <3>1. CASE s2 # s
        <4>1. queue'[s2] = queue[s2]
          BY <1>3, <3>1
        <4> QED BY <1>3, <4>1
      <3>2. CASE s2 = s /\ i \notin E
        <4>1. queue'[s] = Append(queue[s], E) /\ queue[s] \in Seq(SUBSET Nat)
          BY <1>3
        <4>2. /\ Len(queue'[s]) = Len(queue[s]) + 1 /\ Len(queue[s]) \in Nat
              /\ queue'[s][Len(queue[s]) + 1] = E
              /\ \A k \in 1..Len(queue[s]) : queue'[s][k] = queue[s][k]
          BY <4>1
        <4> QED BY <3>2, <4>2
      <3> QED BY <1>4, <3>1, <3>2
    <2>2. InQueue(s2, i)' <=> InQueue(s2, i)
      BY <2>1 DEF InQueue
    <2>3. \A k, l \in 1..Len(queue'[s2]) : i \in queue'[s2][k] /\ i \in queue'[s2][l] => k = l
      BY <1>1, <2>1 DEF Once
    <2>4. InQueue(s2, i)' \/ (\E t \in Threads : InThread(s2, t, i)') =>
            logs'[i].core = ServedCore[s2] /\ logs'[i].block < cursor'[s2]
      BY <1>1, <1>2, <1>3, <2>2 DEF Once
    <2>5. /\ \A t, u \in Threads : InThread(s2, t, i)' /\ InThread(s2, u, i)' => t = u
          /\ \A t \in Threads : InThread(s2, t, i)' => ~InQueue(s2, i)'
          /\ \A t \in Threads : ~(current'[s2][t] = i /\ i \in batch'[s2][t])
      BY <1>1, <1>2, <2>2 DEF Once
    <2> QED BY <2>3, <2>4, <2>5 DEF Once
  <1>5. CASE s2 = s /\ i \in E
    <2>1. /\ logs[i].core = ServedCore[s] /\ logs[i].block = cursor[s]
          /\ cursor[s] < cursor'[s]
      BY <1>5
    <2>2. ~InQueue(s, i) /\ \A t \in Threads : ~InThread(s, t, i)
      BY <1>1, <1>3, <1>5, <2>1 DEF Once
    <2>3. /\ Len(queue'[s]) = Len(queue[s]) + 1 /\ Len(queue[s]) \in Nat
          /\ \A k \in 1..Len(queue[s]) : queue'[s][k] = queue[s][k]
      <3>1. queue'[s] = Append(queue[s], E) /\ queue[s] \in Seq(SUBSET Nat)
        BY <1>3
      <3> QED BY <3>1
    <2>4. \A k \in 1..Len(queue'[s]) : i \in queue'[s][k] => k = Len(queue[s]) + 1
      BY <2>2, <2>3 DEF InQueue
    <2>5. \A t \in Threads : ~InThread(s, t, i)' /\ ~(current'[s][t] = i)
      BY <1>2, <1>5, <2>2 DEF InThread
    <2> QED BY <1>5, <2>1, <2>4, <2>5 DEF Once
  <1> QED BY <1>4, <1>5

(* Consumers count their requests, so that events have ids of their own.    *)
LEMMA FreshStep ==
  ASSUME OnlyConsumersQuery, TypeOK, FreshEvents, [Next]_vars
  PROVE  FreshEvents'
  <1>1. ASSUME NEW c \in Consumers, NEW url \in Urls, RequestSource(c, url)
        PROVE  FreshEvents'
    <2> DEFINE new == [callback |-> c, nonce |-> requestCount[c]]
    <2>1. PICK e : logs' = Append(logs, e) /\ e.id = new
      <3>1. Query(CoreOf[c], c, requestCount[c], url, EXPIRY_TIME)
        BY <1>1 DEF RequestSource
      <3> QED BY <3>1 DEF Query
    <2>2. /\ requestCount \in [Consumers -> 1..MaxRequests + 1]
          /\ requestCount' = [requestCount EXCEPT ![c] = requestCount[c] + 1]
          /\ MaxRequests \in Nat
      BY <1>1, ConstantsAssumption DEF RequestSource, TypeOK
    <2>3. \A d \in Consumers : /\ requestCount[d] \in Nat /\ requestCount'[d] \in Nat
                               /\ requestCount[d] <= requestCount'[d]
                               /\ d = c => requestCount'[d] = requestCount[d] + 1
      BY <2>2
    <2>4. logs \in Seq(OracleRequest) /\ Len(logs) \in Nat
      BY DEF TypeOK
    <2>5. /\ Len(logs') = Len(logs) + 1 /\ logs'[Len(logs) + 1] = e
          /\ \A i \in 1..Len(logs) : logs'[i] = logs[i]
      BY <2>1, <2>4
    <2>6. ASSUME NEW i \in 1..Len(logs)
          PROVE  /\ logs[i].id.callback \in Consumers /\ logs[i].id.nonce \in Nat
                 /\ logs[i].id.nonce < requestCount[logs[i].id.callback]
                 /\ logs[i].id # new
      <3>1. /\ logs[i].id.callback \in Consumers /\ logs[i].id.nonce \in Nat
            /\ logs[i].id.nonce < requestCount[logs[i].id.callback]
        <4>1. logs[i] \in OracleRequest
          BY <2>4
        <4>2. logs[i].id \in RequestId
          BY <4>1 DEF OracleRequest
        <4> QED BY <4>2, ConstantsAssumption DEF RequestId, FreshEvents
      <3>2. new.callback = c /\ new.nonce = requestCount[c]
        OBVIOUS
      <3> QED BY <2>3, <3>1, <3>2
    <2>7. new.callback = c /\ new.nonce = requestCount[c]
      OBVIOUS
    <2> HIDE DEF new
    <2>8. ASSUME NEW i \in 1..Len(logs')
          PROVE  logs'[i].id.nonce < requestCount'[logs'[i].id.callback]
      <3>1. CASE i \in 1..Len(logs)
        <4>1. logs'[i] = logs[i]
          BY <2>5, <3>1
        <4>2. /\ logs[i].id.callback \in Consumers /\ logs[i].id.nonce \in Nat
              /\ logs[i].id.nonce < requestCount[logs[i].id.callback]
          BY <2>6, <3>1
        <4> HIDE DEF new
        <4> QED BY <2>3, <4>1, <4>2
      <3>2. CASE i = Len(logs) + 1
        BY <2>1, <2>3, <2>5, <2>7, <3>2
      <3> QED BY <2>4, <2>5, <3>1, <3>2
    <2>9. ASSUME NEW i \in 1..Len(logs'), NEW j \in 1..Len(logs'), logs'[i].id = logs'[j].id
          PROVE  i = j
      <3>1. i \in 1..Len(logs) \/ i = Len(logs) + 1
        BY <2>4, <2>5
      <3>2. j \in 1..Len(logs) \/ j = Len(logs) + 1
        BY <2>4, <2>5
      <3>3. CASE i \in 1..Len(logs) /\ j \in 1..Len(logs)
        BY <2>5, <2>9, <3>3 DEF FreshEvents
      <3> QED BY <2>1, <2>5, <2>6, <2>9, <3>1, <3>2, <3>3
    <2> QED BY <2>8, <2>9 DEF FreshEvents
  <1>2. ASSUME logs' = logs, requestCount' = requestCount
        PROVE  FreshEvents'
    BY <1>2 DEF FreshEvents
  <1> QED
    BY <1>1, <1>2 DEF Next, OnlyConsumersQuery, FulfillRequest, TransferOwnership, Tick, vars

(* What the lemmas about hands need to know of blocks. *)
LEMMA BlockTypes ==
  ASSUME WorkerInv
  PROVE  /\ \A i \in 1..Len(logs) : logs[i].block \in Nat
         /\ \A s \in Services : cursor[s] \in Nat
  <1>1. logs \in Seq(OracleRequest) /\ cursor \in [Services -> Nat]
    BY DEF WorkerInv, SystemTypeOK, TypeOK
  <1>2. \A i \in 1..Len(logs) : logs[i] \in OracleRequest
    BY <1>1
  <1> QED BY <1>1, <1>2 DEF OracleRequest

(* A push brings events of a block the service was not yet pushed. *)
LEMMA PushHands ==
  ASSUME WorkerInv, HandedOnce, NEW s \in Services, PushLogs(s)
  PROVE  HandedOnce'
  <1> DEFINE E == {i \in 1..Len(logs) : /\ logs[i].core = ServedCore[s]
                                        /\ logs[i].block = cursor[s]}
  <1>1. /\ logs' = logs /\ cursor' = [cursor EXCEPT ![s] = cursor[s] + 1]
        /\ \A i \in 1..Len(logs) : logs'[i] = logs[i]
    BY DEF PushLogs, vars
  <1>2. /\ \A i \in 1..Len(logs) : logs[i].block \in Nat
        /\ \A s2 \in Services : cursor[s2] \in Nat
        /\ cursor \in [Services -> Nat]
    BY BlockTypes DEF WorkerInv, SystemTypeOK
  <1>3. /\ \A s2 \in Services :
             cursor[s2] \in Nat /\ cursor'[s2] \in Nat /\ cursor[s2] <= cursor'[s2]
        /\ cursor'[s] = cursor[s] + 1
    BY <1>1, <1>2
  <1>4. \/ queue' = queue /\ threadVars' = threadVars
        \/ queue' = [queue EXCEPT ![s] = Append(queue[s], E)] /\ threadVars' = threadVars
        \/ queue' = queue /\ \E t \in Threads : Begin(s, t, E)
    BY DEF PushLogs, Submit, Idle
  <1>5. \A i \in E : /\ i \in 1..Len(logs)
                     /\ logs[i].core = ServedCore[s] /\ logs[i].block = cursor[s]
    OBVIOUS
  <1>6. E \in SUBSET (1..Len(logs))
    OBVIOUS
  <1> HIDE DEF E
  <1>7. CASE queue' = queue /\ threadVars' = threadVars
    BY <1>1, <1>2, <1>3, <1>7, HandsStay DEF threadVars
  <1>8. CASE queue' = [queue EXCEPT ![s] = Append(queue[s], E)] /\ threadVars' = threadVars
    <2>1. current' = current /\ batch' = batch
      BY <1>8 DEF threadVars
    <2>2. \A i \in E : /\ logs[i].core = ServedCore[s] /\ logs[i].block = cursor[s]
                       /\ cursor[s] < cursor'[s]
      BY <1>3, <1>5
    <2> QED BY <1>1, <1>2, <1>3, <1>6, <1>8, <2>1, <2>2, QueueHands, ZenonT(40)
  <1>9. CASE queue' = queue /\ \E t \in Threads : Begin(s, t, E)
    <2>1. PICK t \in Threads : Begin(s, t, E)
      BY <1>9
    <2>2. Hands(s, t, E)
      BY <1>6, <2>1, BeginHands, TypeParts
    <2>3. ASSUME NEW i \in E
          PROVE  /\ logs[i].core = ServedCore[s] /\ logs[i].block < cursor'[s]
                 /\ \A u \in Threads : u # t => ~InThread(s, u, i)
                 /\ \A k \in 1..Len(queue'[s]) : i \notin queue'[s][k]
      <3>1. Once(s, i) /\ ~(logs[i].block < cursor[s])
        BY <1>2, <1>5 DEF HandedOnce
      <3>2. ~InQueue(s, i) /\ \A u \in Threads : ~InThread(s, u, i)
        BY <3>1 DEF Once
      <3> QED BY <1>2, <1>3, <1>5, <1>9, <3>2 DEF InQueue
    <2>4. queue[s] \in Seq(SUBSET Nat) /\ 0 \in Nat
      BY DEF WorkerInv, SystemTypeOK
    <2>5. Leave(s, 0)
      BY <1>9, <2>4 DEF Leave
    <2>6. \A s2 \in Services : s2 # s => queue'[s2] = queue[s2]
      BY <1>9
    <2>7. \A i \in E \cap 1..Len(logs) :
           /\ logs[i].core = ServedCore[s] /\ logs[i].block < cursor'[s]
           /\ \A u \in Threads : u # t => ~InThread(s, u, i)
           /\ \A k \in 1..Len(queue'[s]) : i \notin queue'[s][k]
      BY <2>3
    <2> QED BY <1>1, <1>2, <1>3, <2>2, <2>4, <2>5, <2>6, <2>7, HandsOnce
  <1> QED BY <1>4, <1>7, <1>8, <1>9

(* What is taken from the queue was nowhere else. *)
LEMMA TakeHands ==
  ASSUME WorkerInv, HandedOnce, NEW s \in Services, NEW t \in Threads, TakeFromQueue(s, t)
  PROVE  HandedOnce'
  <1> DEFINE E == Head(queue[s])
  <1>1. /\ logs' = logs /\ cursor' = cursor /\ queue[s] # <<>> /\ Begin(s, t, E)
        /\ queue' = [queue EXCEPT ![s] = Tail(queue[s])]
    BY DEF TakeFromQueue, vars
  <1>2. /\ \A i \in 1..Len(logs) : logs[i].block \in Nat
        /\ \A s2 \in Services :
             cursor[s2] \in Nat /\ cursor'[s2] \in Nat /\ cursor[s2] <= cursor'[s2]
        /\ queue \in [Services -> Seq(SUBSET Nat)]
        /\ \A k \in 1..Len(queue[s]) : queue[s][k] \subseteq 1..Len(logs)
    BY <1>1, BlockTypes DEF WorkerInv, SystemTypeOK
  <1>3. /\ queue[s] \in Seq(SUBSET Nat) /\ Len(queue[s]) \in Nat \ {0}
        /\ E = queue[s][1] /\ queue'[s] = Tail(queue[s])
        /\ Len(Tail(queue[s])) = Len(queue[s]) - 1
        /\ \A k \in 1..Len(Tail(queue[s])) : Tail(queue[s])[k] = queue[s][k + 1]
    BY <1>1, <1>2
  <1>4. 1 \in 1..Len(queue[s]) /\ E \in SUBSET (1..Len(logs))
    BY <1>2, <1>3
  <1>5. \A k \in 1..Len(queue'[s]) :
          /\ k + 1 \in 1..Len(queue[s]) /\ queue'[s][k] = queue[s][k + 1]
          /\ k + 1 # 1
    BY <1>3
  <1>6. \A s2 \in Services : s2 # s => queue'[s2] = queue[s2]
    BY <1>1, <1>2
  <1> HIDE DEF E
  <1>7. Hands(s, t, E)
    BY <1>1, <1>4, BeginHands, TypeParts
  <1>8. ASSUME NEW i \in E \cap 1..Len(logs)
        PROVE  /\ logs[i].core = ServedCore[s] /\ logs[i].block < cursor'[s]
               /\ \A u \in Threads : u # t => ~InThread(s, u, i)
               /\ \A k \in 1..Len(queue'[s]) : i \notin queue'[s][k]
    <2>1. Once(s, i) /\ i \in queue[s][1]
      BY <1>3 DEF HandedOnce
    <2>2. InQueue(s, i)
      BY <1>4, <2>1 DEF InQueue
    <2>3. /\ logs[i].core = ServedCore[s] /\ logs[i].block < cursor'[s]
          /\ \A u \in Threads : ~InThread(s, u, i)
      BY <1>1, <2>1, <2>2 DEF Once
    <2>4. \A k \in 1..Len(queue'[s]) : i \notin queue'[s][k]
      BY <1>4, <1>5, <2>1 DEF Once
    <2> QED BY <2>3, <2>4
  <1>9. 1 \in Nat
    OBVIOUS
  <1>10. Leave(s, 1)
    BY <1>5 DEF Leave
  <1>11. \A i \in E \cap 1..Len(logs) :
           /\ logs[i].core = ServedCore[s] /\ logs[i].block < cursor'[s]
           /\ \A u \in Threads : u # t => ~InThread(s, u, i)
           /\ \A k \in 1..Len(queue'[s]) : i \notin queue'[s][k]
    BY <1>8
  <1> QED BY <1>1, <1>2, <1>6, <1>7, <1>9, <1>10, <1>11, HandsOnce

(* processSingleLog goes on with its event, or to what is behind it. *)
LEMMA ProcessHands ==
  ASSUME WorkerInv, HandedOnce, NEW s \in Services, NEW t \in Threads, ProcessLogs(s, t)
  PROVE  HandedOnce'
  <1>1. logs' = logs /\ cursor' = cursor /\ queue' = queue
    BY FulfillEffect DEF ProcessLogs, Find, Save, Fetch, Check, Fulfill, Update, vars
  <1>2. /\ \A i \in 1..Len(logs) : logs[i].block \in Nat
        /\ \A s2 \in Services :
             cursor[s2] \in Nat /\ cursor'[s2] \in Nat /\ cursor[s2] <= cursor'[s2]
    BY <1>1, BlockTypes
  <1>3. CASE current' = current /\ batch' = batch
    BY <1>1, <1>2, <1>3, HandsStay
  <1>4. CASE NextEvent(s, t)
    <2> DEFINE E == batch[s][t]
    <2>1. Hands(s, t, E)
      BY <1>4, NextEventHands, TypeParts
    <2>2. \A i \in E : InThread(s, t, i)
      BY DEF InThread
    <2> HIDE DEF E
    <2>3. ASSUME NEW i \in E \cap 1..Len(logs)
          PROVE  /\ logs[i].core = ServedCore[s] /\ logs[i].block < cursor'[s]
                 /\ \A u \in Threads : u # t => ~InThread(s, u, i)
                 /\ \A k \in 1..Len(queue'[s]) : i \notin queue'[s][k]
      <3>1. Once(s, i) /\ InThread(s, t, i)
        BY <2>2 DEF HandedOnce
      <3> QED BY <1>1, <3>1 DEF Once, InQueue
    <2>4. queue[s] \in Seq(SUBSET Nat) /\ 0 \in Nat
      BY DEF WorkerInv, SystemTypeOK
    <2>5. Leave(s, 0)
      BY <1>1, <2>4 DEF Leave
    <2>6. \A s2 \in Services : s2 # s => queue'[s2] = queue[s2]
      BY <1>1
    <2>7. \A i \in E \cap 1..Len(logs) :
           /\ logs[i].core = ServedCore[s] /\ logs[i].block < cursor'[s]
           /\ \A u \in Threads : u # t => ~InThread(s, u, i)
           /\ \A k \in 1..Len(queue'[s]) : i \notin queue'[s][k]
      BY <2>3
    <2> QED BY <1>1, <1>2, <2>1, <2>4, <2>5, <2>6, <2>7, HandsOnce
  <1>5. CASE Find(s, t) \/ Update(s, t)
    BY <1>3, <1>4, <1>5 DEF Find, Update
  <1>6. CASE Save(s, t) \/ Fetch(s, t)
    BY <1>3, <1>6 DEF Save, Fetch
  <1>7. CASE Check(s, t) \/ Fulfill(s, t)
    BY <1>3, <1>7 DEF Check, Fulfill
  <1> QED BY <1>5, <1>6, <1>7 DEF ProcessLogs

(* No step of the system puts an event in hand twice. *)
LEMMA HandedOnceStep ==
  ASSUME WorkerInv, HandedOnce, [SystemNext]_systemVars
  PROVE  HandedOnce'
  <1>1. CASE ChainStep
    <2>1. /\ current' = current /\ batch' = batch /\ queue' = queue /\ cursor' = cursor
          /\ \A i \in 1..Len(logs) : logs'[i] = logs[i]
      BY <1>1, ChainEffect DEF serviceVars, threadVars
    <2>2. \A s \in Services : cursor[s] \in Nat /\ cursor'[s] \in Nat /\ cursor[s] <= cursor'[s]
      BY <2>1, BlockTypes
    <2> QED BY <2>1, <2>2, BlockTypes, HandsStay
  <1>2. ASSUME NEW s \in Services, Start(s) PROVE HandedOnce'
    <2>1. /\ current' = current /\ batch' = batch /\ queue' = queue
          /\ \A i \in 1..Len(logs) : logs'[i] = logs[i]
      BY <1>2 DEF Start, vars, threadVars
    <2>2. /\ cursor \in [Services -> Nat] /\ cursor' \in [Services -> Nat]
          /\ cursor[s] = 0 /\ \A s2 \in Services : s2 # s => cursor'[s2] = cursor[s2]
      BY <1>2, StartEffect DEF Start, WorkerInv, SystemTypeOK
    <2>3. \A s2 \in Services :
            cursor[s2] \in Nat /\ cursor'[s2] \in Nat /\ cursor[s2] <= cursor'[s2]
      BY <2>2
    <2> QED BY <2>1, <2>3, BlockTypes, HandsStay
  <1>3. ASSUME NEW s \in Services, NEW t \in Threads, KeepAliveEnds(s, t) PROVE HandedOnce'
    <2>1. /\ current' = current /\ batch' = batch /\ queue' = queue /\ cursor' = cursor
          /\ \A i \in 1..Len(logs) : logs'[i] = logs[i]
      BY <1>3 DEF KeepAliveEnds, vars
    <2>2. \A s2 \in Services :
            cursor[s2] \in Nat /\ cursor'[s2] \in Nat /\ cursor[s2] <= cursor'[s2]
      BY <2>1, BlockTypes
    <2> QED BY <2>1, <2>2, BlockTypes, HandsStay
  <1>4. CASE UNCHANGED systemVars
    <2>1. /\ current' = current /\ batch' = batch /\ queue' = queue /\ cursor' = cursor
          /\ \A i \in 1..Len(logs) : logs'[i] = logs[i]
      BY <1>4 DEF systemVars, serviceVars, threadVars, vars
    <2>2. \A s2 \in Services :
            cursor[s2] \in Nat /\ cursor'[s2] \in Nat /\ cursor[s2] <= cursor'[s2]
      BY <2>1, BlockTypes
    <2> QED BY <2>1, <2>2, BlockTypes, HandsStay
  <1> QED BY <1>1, <1>2, <1>3, <1>4, CrashHands, PushHands, TakeHands, ProcessHands
          DEF SystemNext, ServiceStep

(* Two threads that work never work on the same request. *)
LEMMA DifferentEvents ==
  ASSUME ServicesApart, WorkerInv, FreshEvents, HandedOnce,
         NEW s \in Services, NEW t \in Threads, NEW s2 \in Services, NEW t2 \in Threads,
         pc[s][t] \in Working, pc[s2][t2] \in Working,
         Event(s, t).id = Event(s2, t2).id
  PROVE  s = s2 /\ t = t2
  <1>1. current[s][t] \in 1..Len(logs) /\ current[s2][t2] \in 1..Len(logs)
    BY EventType DEF WorkerInv
  <1>2. current[s][t] = current[s2][t2]
    BY <1>1 DEF FreshEvents, Event
  <1>3. PICK i \in 1..Len(logs) : current[s][t] = i /\ current[s2][t2] = i
    BY <1>1, <1>2
  <1>4. InThread(s, t, i) /\ InThread(s2, t2, i) /\ Once(s, i) /\ Once(s2, i)
    BY <1>3 DEF InThread, HandedOnce
  <1>5. ServedCore[s] = ServedCore[s2]
    BY <1>4 DEF Once
  <1>6. s = s2
    BY <1>5 DEF ServicesApart
  <1> QED BY <1>4, <1>6 DEF Once

(* Where a thread and the row of its request stay, the row stays open.      *)
LEMMA SameRow ==
  ASSUME WorkerInv, OpenRows, NEW s \in Services, NEW t \in Threads,
         pc'[s][t] = pc[s][t], current'[s][t] = current[s][t],
         \A i \in 1..Len(logs) : logs'[i] = logs[i],
         pc[s][t] \in Working => reqHistory'[Event(s, t).id] = reqHistory[Event(s, t).id]
  PROVE  RowIsOpen(s, t)'
  <1>1. CASE pc[s][t] \in Working
    <2>1. current[s][t] \in 1..Len(logs)
      BY <1>1, EventType DEF WorkerInv
    <2>2. Event(s, t)' = Event(s, t)
      BY <2>1 DEF Event
    <2>3. RowIsOpen(s, t)
      BY DEF OpenRows
    <2> QED BY <1>1, <2>2, <2>3 DEF RowIsOpen
  <1>2. CASE pc[s][t] \notin Working
    BY <1>2 DEF RowIsOpen, Working
  <1> QED BY <1>1, <1>2

(* When one thread moves, and writes no row but that of its own request,    *)
(* the rows of the others stay open.                                        *)
LEMMA OthersRows ==
  ASSUME ServicesApart, WorkerInv, FreshEvents, HandedOnce, OpenRows,
         NEW s \in Services, NEW t \in Threads, pc[s][t] \in Working,
         OthersStay(s, t), logs' = logs, RowIsOpen(s, t)',
         \A id \in RequestId : id # Event(s, t).id => reqHistory'[id] = reqHistory[id]
  PROVE  OpenRows'
  <1> SUFFICES ASSUME NEW s2 \in Services, NEW t2 \in Threads, s2 # s \/ t2 # t
               PROVE  RowIsOpen(s2, t2)'
    BY DEF OpenRows
  <1>1. pc'[s2][t2] = pc[s2][t2] /\ current'[s2][t2] = current[s2][t2]
    BY DEF OthersStay
  <1>2. ASSUME pc[s2][t2] \in Working
        PROVE  reqHistory'[Event(s2, t2).id] = reqHistory[Event(s2, t2).id]
    <2>1. Event(s2, t2).id # Event(s, t).id
      BY <1>2, DifferentEvents
    <2>2. Event(s2, t2).id \in RequestId
      BY <1>2, EventType DEF WorkerInv
    <2> QED BY <2>1, <2>2
  <1>3. \A i \in 1..Len(logs) : logs'[i] = logs[i]
    OBVIOUS
  <1> QED BY <1>1, <1>2, <1>3, SameRow

(* A step of processSingleLog keeps the rows open, and writes none that was *)
(* finished.                                                                *)
LEMMA ProcessRows ==
  ASSUME ServicesApart, WorkerInv, FreshEvents, HandedOnce, OpenRows,
         NEW s \in Services, NEW t \in Threads, ProcessLogs(s, t)
  PROVE  /\ OpenRows'
         /\ \A id \in RequestId :
              reqHistory[id] # None /\ reqHistory[id].result # None
                => reqHistory'[id] = reqHistory[id]
  <1> DEFINE mine == Event(s, t).id
  <1>1. pc[s][t] \in Working /\ logs' = logs
    BY FulfillEffect
       DEF ProcessLogs, Find, Save, Fetch, Check, Fulfill, Update, Working, vars
  <1>2. mine \in RequestId /\ RowIsOpen(s, t)
    BY <1>1, EventType DEF WorkerInv, OpenRows
  <1>3. ASSUME current'[s][t] = current[s][t] PROVE Event(s, t)' = Event(s, t)
    BY <1>1, <1>3 DEF Event
  <1>4. CASE Find(s, t)
    <2>1. /\ reqHistory' = reqHistory /\ OthersStay(s, t)
          /\ pc'[s][t] \in {"find", "idle", "save"}
      BY <1>4, FindEffect DEF Find
    <2>2. RowIsOpen(s, t)'
      <3>1. CASE pc'[s][t] = "save"
        <4>1. reqHistory[mine] = None /\ current' = current
          <5>1. ~NextEvent(s, t)
            BY <1>1, <3>1, NextEventEffect
          <5> QED BY <1>4, <5>1 DEF Find
        <4> QED BY <1>3, <2>1, <3>1, <4>1 DEF RowIsOpen
      <3>2. CASE pc'[s][t] \in {"find", "idle"}
        BY <3>2 DEF RowIsOpen
      <3> QED BY <2>1, <3>1, <3>2
    <2>3. OpenRows'
      BY <1>1, <2>1, <2>2, OthersRows
    <2> QED BY <2>1, <2>3
  <1>5. CASE Save(s, t)
    <2>1. reqHistory[mine] = None
      BY <1>2, <1>5 DEF Save, RowIsOpen
    <2>2. OthersStay(s, t) /\ Event(s, t)' = Event(s, t)
      BY <1>3, <1>5, SaveEffect
    <2>3. /\ \A id \in RequestId : id # mine => reqHistory'[id] = reqHistory[id]
          /\ reqHistory'[mine] = None \/ reqHistory'[mine].result = None
          /\ pc'[s][t] \in {"update", "fetch"}
      <3>1. CASE reqHistory' = reqHistory /\ pc'[s][t] = "update"
        BY <2>1, <3>1
      <3>2. CASE SaveRow(Event(s, t)) /\ pc'[s][t] = "fetch"
        <4>1. reqHistory' = [reqHistory EXCEPT ![mine] = NewRow(Event(s, t))]
          BY <3>2 DEF SaveRow
        <4>2. NewRow(Event(s, t)).result = None
          BY DEF NewRow
        <4>3. reqHistory \in [RequestId -> DBReqHistory \cup {None}]
          BY TypeParts
        <4> HIDE DEF mine
        <4> QED BY <1>2, <3>2, <4>1, <4>2, <4>3
      <3> QED BY <1>5, <3>1, <3>2, SaveEffect
    <2>4. RowIsOpen(s, t)'
      BY <2>2, <2>3 DEF RowIsOpen
    <2>5. OpenRows'
      BY <1>1, <2>2, <2>3, <2>4, OthersRows
    <2> QED BY <2>1, <2>3, <2>5
  <1>6. CASE Fetch(s, t) \/ Check(s, t) \/ Fulfill(s, t)
    <2>1. /\ reqHistory' = reqHistory
          /\ pc[s][t] \in {"fetch", "check", "fulfill"}
      BY <1>6 DEF Fetch, Check, Fulfill
    <2>2. /\ OthersStay(s, t) /\ current'[s][t] = current[s][t]
          /\ pc'[s][t] \in {"check", "fulfill", "update"}
      BY <1>6, FetchEffect, CheckEffect, FulfillEffect
    <2>3. RowIsOpen(s, t)'
      BY <1>2, <1>3, <2>1, <2>2 DEF RowIsOpen
    <2>4. OpenRows'
      BY <1>1, <2>1, <2>2, <2>3, OthersRows
    <2> QED BY <2>1, <2>4
  <1>7. CASE Update(s, t)
    <2>1. OthersStay(s, t) /\ pc'[s][t] \in {"find", "idle"}
      BY <1>7, UpdateEffect
    <2>2. \A id \in RequestId : id # mine => reqHistory'[id] = reqHistory[id]
      BY <1>7, UpdatedRow
    <2>3. reqHistory[mine] = None \/ reqHistory[mine].result = None
      BY <1>2, <1>7 DEF Update, RowIsOpen
    <2>4. RowIsOpen(s, t)'
      BY <2>1 DEF RowIsOpen
    <2>5. OpenRows'
      BY <1>1, <2>1, <2>2, <2>4, OthersRows
    <2> QED BY <2>2, <2>3, <2>5
  <1> QED BY <1>4, <1>5, <1>6, <1>7 DEF ProcessLogs

(* Every step keeps the rows open and leaves the finished ones alone. *)
LEMMA OpenRowsStep ==
  ASSUME ServicesApart, WorkerInv, FreshEvents, HandedOnce, OpenRows, [SystemNext]_systemVars
  PROVE  /\ OpenRows'
         /\ \A id \in RequestId :
              reqHistory[id] # None /\ reqHistory[id].result # None
                => reqHistory'[id] = reqHistory[id]
  <1>1. ASSUME reqHistory' = reqHistory, \A i \in 1..Len(logs) : logs'[i] = logs[i],
               \A s \in Services, t \in Threads :
                 \/ pc'[s][t] = pc[s][t] /\ current'[s][t] = current[s][t]
                 \/ pc'[s][t] \in {"none", "find"}
        PROVE  OpenRows'
    <2> SUFFICES ASSUME NEW s \in Services, NEW t \in Threads PROVE RowIsOpen(s, t)'
      BY DEF OpenRows
    <2>1. CASE pc'[s][t] = pc[s][t] /\ current'[s][t] = current[s][t]
      BY <1>1, <2>1, SameRow
    <2>2. CASE pc'[s][t] \in {"none", "find"}
      BY <2>2 DEF RowIsOpen
    <2> QED BY <1>1, <2>1, <2>2
  <1>2. CASE ChainStep
    <2>1. /\ reqHistory' = reqHistory /\ pc' = pc /\ current' = current
          /\ \A i \in 1..Len(logs) : logs'[i] = logs[i]
      BY <1>2, ChainEffect DEF serviceVars, threadVars
    <2> QED BY <1>1, <2>1
  <1>3. CASE Quiet
    <2>1. reqHistory' = reqHistory /\ \A i \in 1..Len(logs) : logs'[i] = logs[i]
      BY <1>3 DEF Quiet, vars
    <2> QED BY <1>1, <1>3, <2>1 DEF Quiet
  <1>4. CASE UNCHANGED systemVars
    <2>1. Quiet
      BY <1>4 DEF systemVars, serviceVars, threadVars, vars, Quiet
    <2> QED BY <1>3, <2>1
  <1>5. CASE \E s \in Services, t \in Threads : ProcessLogs(s, t)
    BY <1>5, ProcessRows
  <1> QED BY <1>2, <1>3, <1>4, <1>5, SystemCases

(* Nothing is announced, in hand or recorded at first. *)
LEMMA RecordInvInit == SystemInit => RecordInv
  <1> SUFFICES ASSUME SystemInit PROVE RecordInv
    OBVIOUS
  <1>1. logs = <<>> /\ Len(logs) = 0
    BY DEF SystemInit, Init
  <1>2. FreshEvents /\ HandedOnce
    BY <1>1 DEF FreshEvents, HandedOnce
  <1>3. OpenRows
    BY DEF SystemInit, OpenRows, RowIsOpen
  <1> QED BY <1>2, <1>3 DEF RecordInv

(* Every step keeps the third inductive invariant, and finished rows. *)
LEMMA RecordInvStep ==
  ASSUME ServicesApart, OnlyConsumersQuery, WorkerInv, RecordInv, [SystemNext]_systemVars
  PROVE  /\ RecordInv'
         /\ \A id \in RequestId :
              reqHistory[id] # None /\ reqHistory[id].result # None
                => reqHistory'[id] = reqHistory[id]
  <1>1. TypeOK /\ [Next]_vars
    BY TypeParts, WorkerInvStep
  <1>2. FreshEvents'
    BY <1>1, FreshStep DEF RecordInv
  <1>3. HandedOnce'
    BY HandedOnceStep DEF RecordInv
  <1> QED BY <1>2, <1>3, OpenRowsStep DEF RecordInv

(* The row of a finished request is never written again: not by an event    *)
(* pushed again after a crash, nor by another thread of the pool. This      *)
(* needs what duplicates come from to be excluded: two services that listen *)
(* to one core, and a query() in a consumer's name (run duplicate_update    *)
(* shows what happens otherwise).                                           *)
THEOREM FinishedRecordsAreKept ==
  ServicesApart /\ OnlyConsumersQuery /\ SystemSpec => FinishedRecordsStay
  <1> DEFINE Apart == ServicesApart /\ OnlyConsumersQuery
             Kept == \A id \in RequestId :
                       reqHistory[id] # None /\ reqHistory[id].result # None
                         => reqHistory'[id] = reqHistory[id]
  <1>1. Apart => Apart'
    BY DEF ServicesApart, OnlyConsumersQuery
  <1>2. Apart /\ WorkerInv /\ RecordInv /\ [SystemNext]_systemVars => RecordInv' /\ Kept
    BY RecordInvStep
  <1>3. SystemInit => RecordInv
    BY RecordInvInit
  <1>4. SystemSpec => []WorkerInv
    BY WorkerInvariance
  <1>5. Kept => [Kept]_systemVars
    OBVIOUS
  <1> QED BY <1>1, <1>2, <1>3, <1>4, PTL DEF SystemSpec, FinishedRecordsStay
=============================================================================
