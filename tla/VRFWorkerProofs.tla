---------------------------- MODULE VRFWorkerProofs ----------------------------
(***************************************************************************)
(* Proofs about VRFCore, for all sets of cores, clients, keys and seeds;   *)
(* and about VRFWorker, which extends it, for either generation, any       *)
(* number of threads and crashes, and every bound.                         *)
(***************************************************************************)
EXTENDS VRFWorker, TLAPS

-----------------------------------------------------------------------------
(* The contracts, by themselves.                                           *)

(* What the events know: each request a core keeps was announced, and each  *)
(* announced one used up a nonce, so that it is announced only once.        *)
EventsTell ==
  /\ \A core \in Cores, id \in RequestId :
       callbacks[core][id] # None =>
         [core |-> core, id |-> id, block |-> callbacks[core][id].block] \in events
  /\ \A e \in events : e.id.nonce < nonces[e.core][e.id.key][e.id.sender]
  /\ \A e1, e2 \in events : e1.core = e2.core /\ e1.id = e2.id => e1 = e2

Inv ==
  /\ TypeOK
  /\ EventsTell
  /\ ClientConsistent
  /\ RandomnessIsItsOwn
  /\ OwnRequestsAreServable

-----------------------------------------------------------------------------
(* What a request does to the mappings of the core.                         *)
Requested(core, key, seed, sender) ==
  LET id == NextAtCore(core, key, seed, sender)
      entry == [callbackContract |-> sender, block |-> height]
      event == [core |-> core, id |-> id, block |-> height]
  IN  /\ id \in RequestId
      /\ id.key = key /\ id.sender = sender /\ id.seed = seed
      /\ id.nonce = nonces[core][key][sender]
      /\ entry \in CallbackEntry
      /\ event \in RandomnessRequestEvent
      /\ events' = events \cup {event}
      /\ callbacks' \in [Cores -> [RequestId -> CallbackEntry \cup {None}]]
      /\ \A k \in Cores, i \in RequestId :
           callbacks'[k][i] = IF k = core /\ i = id THEN entry ELSE callbacks[k][i]
      /\ nonces' \in [Cores -> [KeyHashes -> [Clients -> 0..MaxNonce]]]
      /\ \A k \in Cores, h \in KeyHashes, c \in Clients :
           nonces'[k][h][c] = IF k = core /\ h = key /\ c = sender
                              THEN nonces[k][h][c] + 1 ELSE nonces[k][h][c]
      /\ height' = height

(* randomnessRequest, without nested branches. *)
LEMMA RequestEffect ==
  ASSUME TypeOK, NEW core \in Cores, NEW key \in KeyHashes, NEW seed \in Seeds,
         NEW sender \in Clients, RandomnessRequest(core, key, seed, sender)
  PROVE  Requested(core, key, seed, sender)
  <1> DEFINE n == nonces[core][key][sender]
             id == NextAtCore(core, key, seed, sender)
             entry == [callbackContract |-> sender, block |-> height]
             event == [core |-> core, id |-> id, block |-> height]
  <1>1. n \in 0..MaxNonce /\ n < MaxNonce /\ MaxNonce \in Nat
    BY VRFAssumption DEF TypeOK, RandomnessRequest
  <1>2. n \in 0..MaxNonce - 1 /\ n + 1 \in 0..MaxNonce
    BY <1>1
  <1>3. id = [key |-> key, seed |-> seed, sender |-> sender, nonce |-> n]
    BY DEF NextAtCore, MakeRequestId
  <1>4. id \in RequestId /\ id.key = key /\ id.sender = sender /\ id.seed = seed /\ id.nonce = n
    BY <1>2, <1>3 DEF RequestId
  <1>5. height \in 1..MaxBlock
    BY DEF TypeOK
  <1>6. entry \in CallbackEntry /\ event \in RandomnessRequestEvent
    BY <1>4, <1>5 DEF CallbackEntry, RandomnessRequestEvent
  <1>7. /\ callbacks' = [callbacks EXCEPT ![core][id] = entry]
        /\ events' = events \cup {event}
        /\ nonces' = [nonces EXCEPT ![core][key][sender] = @ + 1]
        /\ height' = height
    BY DEF RandomnessRequest
  <1>8. callbacks \in [Cores -> [RequestId -> CallbackEntry \cup {None}]]
    BY DEF TypeOK
  <1>9. nonces \in [Cores -> [KeyHashes -> [Clients -> 0..MaxNonce]]]
    BY DEF TypeOK
  <1> HIDE DEF id, entry, event
  <1>10. /\ callbacks' \in [Cores -> [RequestId -> CallbackEntry \cup {None}]]
         /\ \A k \in Cores, i \in RequestId :
              callbacks'[k][i] = IF k = core /\ i = id THEN entry ELSE callbacks[k][i]
    BY <1>4, <1>6, <1>7, <1>8
  <1>11. nonces' = [nonces EXCEPT ![core] = [nonces[core] EXCEPT
                      ![key] = [nonces[core][key] EXCEPT ![sender] = n + 1]]]
    BY <1>7, <1>9
  <1>12. /\ nonces' \in [Cores -> [KeyHashes -> [Clients -> 0..MaxNonce]]]
         /\ \A k \in Cores, h \in KeyHashes, c \in Clients :
              nonces'[k][h][c] = IF k = core /\ h = key /\ c = sender
                                 THEN nonces[k][h][c] + 1 ELSE nonces[k][h][c]
    <2> DEFINE inner == [nonces[core][key] EXCEPT ![sender] = n + 1]
               outer == [nonces[core] EXCEPT ![key] = inner]
    <2>1. /\ inner \in [Clients -> 0..MaxNonce]
          /\ \A c \in Clients : inner[c] = IF c = sender THEN n + 1 ELSE nonces[core][key][c]
      BY <1>2, <1>9
    <2> HIDE DEF inner, n
    <2>2. /\ outer \in [KeyHashes -> [Clients -> 0..MaxNonce]]
          /\ \A h \in KeyHashes : outer[h] = IF h = key THEN inner ELSE nonces[core][h]
      BY <2>1, <1>9
    <2> HIDE DEF outer
    <2>3. /\ nonces' \in [Cores -> [KeyHashes -> [Clients -> 0..MaxNonce]]]
          /\ \A k \in Cores : nonces'[k] = IF k = core THEN outer ELSE nonces[k]
      BY <2>2, <1>9, <1>11 DEF outer, inner
    <2>4. ASSUME NEW k \in Cores, NEW h \in KeyHashes, NEW c \in Clients
          PROVE  nonces'[k][h][c] = IF k = core /\ h = key /\ c = sender
                                    THEN nonces[k][h][c] + 1 ELSE nonces[k][h][c]
      BY <2>1, <2>2, <2>3 DEF n
    <2> QED BY <2>3, <2>4
  <1> QED BY <1>4, <1>6, <1>7, <1>10, <1>12 DEF id, entry, event, Requested

(* What a query does to the mappings of the client base contract.           *)
Queried(c, core, key, seed) ==
  LET id == NextAtClient(c, key, seed)
  IN  /\ id \in RequestId
      /\ id.key = key /\ id.sender = c /\ id.seed = seed
      /\ id.nonce = clientNonces[c][key]
      /\ RandomnessRequest(core, key, seed, c)
      /\ pendingRequests' \in [RequestId -> Cores \cup {None}]
      /\ \A i \in RequestId :
           pendingRequests'[i] = IF i = id THEN core ELSE pendingRequests[i]
      /\ clientNonces' \in [Clients -> [KeyHashes -> 0..MaxNonce]]
      /\ \A b \in Clients, h \in KeyHashes :
           clientNonces'[b][h] = IF b = c /\ h = key
                                 THEN clientNonces[b][h] + 1 ELSE clientNonces[b][h]
      /\ resultMap' = resultMap

(* A query of a client is a request and the same count at both sides. *)
LEMMA QueryEffect ==
  ASSUME TypeOK, NEW c \in Clients, NEW core \in Cores, NEW key \in KeyHashes,
         NEW seed \in Seeds, VrfQuery(c, core, key, seed)
  PROVE  Queried(c, core, key, seed)
  <1> DEFINE n == clientNonces[c][key]
             id == NextAtClient(c, key, seed)
  <1>1. n \in 0..MaxNonce /\ n < MaxNonce /\ MaxNonce \in Nat
    BY VRFAssumption DEF TypeOK, VrfQuery
  <1>2. n \in 0..MaxNonce - 1 /\ n + 1 \in 0..MaxNonce
    BY <1>1
  <1>3. id = [key |-> key, seed |-> seed, sender |-> c, nonce |-> n]
    BY DEF NextAtClient, MakeRequestId
  <1>4. id \in RequestId /\ id.key = key /\ id.sender = c /\ id.seed = seed /\ id.nonce = n
    BY <1>2, <1>3 DEF RequestId
  <1>5. /\ pendingRequests' = [pendingRequests EXCEPT ![id] = core]
        /\ clientNonces' = [clientNonces EXCEPT ![c][key] = @ + 1]
        /\ RandomnessRequest(core, key, seed, c)
        /\ resultMap' = resultMap
    BY DEF VrfQuery
  <1>6. /\ pendingRequests \in [RequestId -> Cores \cup {None}]
        /\ clientNonces \in [Clients -> [KeyHashes -> 0..MaxNonce]]
    BY DEF TypeOK
  <1> HIDE DEF id
  <1>7. /\ pendingRequests' \in [RequestId -> Cores \cup {None}]
        /\ \A i \in RequestId :
             pendingRequests'[i] = IF i = id THEN core ELSE pendingRequests[i]
    BY <1>4, <1>5, <1>6
  <1>8. /\ clientNonces' \in [Clients -> [KeyHashes -> 0..MaxNonce]]
        /\ \A b \in Clients, h \in KeyHashes :
             clientNonces'[b][h] = IF b = c /\ h = key
                                   THEN clientNonces[b][h] + 1 ELSE clientNonces[b][h]
    BY <1>2, <1>5, <1>6
  <1> QED BY <1>4, <1>5, <1>7, <1>8 DEF id, Queried

(* What a fulfilment does.                                                  *)
Fulfilled(core, id, block, hash) ==
  /\ callbacks[core][id] # None /\ callbacks[core][id].block = block
  /\ pendingRequests[id] = core /\ validIds[id] = TRUE
  /\ Randomness(id, hash) \in Outputs
  /\ core \in HashIsPassed \/ hash \in {block, 0}
  /\ callbacks' \in [Cores -> [RequestId -> CallbackEntry \cup {None}]]
  /\ \A k \in Cores, i \in RequestId :
       callbacks'[k][i] = IF k = core /\ i = id THEN None ELSE callbacks[k][i]
  /\ pendingRequests' \in [RequestId -> Cores \cup {None}]
  /\ \A i \in RequestId :
       pendingRequests'[i] = IF i = id THEN None ELSE pendingRequests[i]
  /\ validIds' \in [RequestId -> BOOLEAN]
  /\ \A i \in RequestId : validIds'[i] = IF i = id THEN FALSE ELSE validIds[i]
  /\ resultMap' \in [RequestId -> Outputs \cup {None}]
  /\ \A i \in RequestId :
       resultMap'[i] = IF i = id THEN Randomness(id, hash) ELSE resultMap[i]
  /\ height' = height /\ nonces' = nonces /\ events' = events
  /\ clientNonces' = clientNonces

(* A fulfilment that is not reverted gives its consumer the value. *)
LEMMA FulfillEffect ==
  ASSUME TypeOK, NEW core \in Cores, NEW id \in RequestId, NEW block \in 1..MaxBlock,
         NEW hash \in Hashes, FulfillRandomnessRequest(core, id, block, hash)
  PROVE  Fulfilled(core, id, block, hash)
  <1>1. /\ callbacks[core][id] # None /\ callbacks[core][id].block = block
        /\ pendingRequests[id] = core /\ validIds[id]
    BY DEF FulfillRandomnessRequest, ProofHolds, AcceptsCallback
  <1>2. /\ callbacks' = [callbacks EXCEPT ![core][id] = None]
        /\ pendingRequests' = [pendingRequests EXCEPT ![id] = None]
        /\ resultMap' = [resultMap EXCEPT ![id] = Randomness(id, hash)]
        /\ validIds' = [validIds EXCEPT ![id] = FALSE]
        /\ UNCHANGED <<height, nonces, events, clientNonces>>
    BY DEF FulfillRandomnessRequest, ForgetRequest, Callback
  <1>3. Randomness(id, hash) \in Outputs
    BY DEF Randomness, Outputs
  <1>4. /\ callbacks \in [Cores -> [RequestId -> CallbackEntry \cup {None}]]
        /\ pendingRequests \in [RequestId -> Cores \cup {None}]
        /\ validIds \in [RequestId -> BOOLEAN]
        /\ resultMap \in [RequestId -> Outputs \cup {None}]
    BY DEF TypeOK
  <1>5. validIds[id] = TRUE
    BY <1>1, <1>4
  <1>6. /\ callbacks' \in [Cores -> [RequestId -> CallbackEntry \cup {None}]]
        /\ \A k \in Cores, i \in RequestId :
             callbacks'[k][i] = IF k = core /\ i = id THEN None ELSE callbacks[k][i]
    BY <1>2, <1>4
  <1>7. /\ pendingRequests' \in [RequestId -> Cores \cup {None}]
        /\ \A i \in RequestId :
             pendingRequests'[i] = IF i = id THEN None ELSE pendingRequests[i]
    BY <1>2, <1>4
  <1>8. /\ validIds' \in [RequestId -> BOOLEAN]
        /\ \A i \in RequestId : validIds'[i] = IF i = id THEN FALSE ELSE validIds[i]
    BY <1>2, <1>4
  <1>9. /\ resultMap' \in [RequestId -> Outputs \cup {None}]
        /\ \A i \in RequestId :
             resultMap'[i] = IF i = id THEN Randomness(id, hash) ELSE resultMap[i]
    BY <1>2, <1>3, <1>4
  <1>10. core \in HashIsPassed \/ hash \in {block, 0}
    BY DEF FulfillRandomnessRequest, ProofHolds, BlockHash
  <1> QED BY <1>1, <1>2, <1>3, <1>5, <1>6, <1>7, <1>8, <1>9, <1>10 DEF Fulfilled

-----------------------------------------------------------------------------
(* The steps, by who takes them: a query of a client, whether its consumer   *)
(* knows of it or not; a request in a client's name; a fulfilment; time.     *)
LEMMA NextCases ==
  ASSUME Next,
         NEW ACTION P,
         ASSUME NEW c \in Clients, NEW core \in Cores, NEW key \in KeyHashes,
                NEW seed \in Seeds, VrfQuery(c, core, key, seed),
                core = CoreOf[c] \/ c \in Foreign,
                \/ UNCHANGED validIds
                \/ /\ core = CoreOf[c] /\ key = KeyOf[c]
                   /\ validIds' = [validIds EXCEPT ![NextAtClient(c, key, seed)] = TRUE]
         PROVE  P,
         ASSUME NEW core \in Cores, NEW key \in KeyHashes, NEW seed \in Seeds,
                NEW sender \in Foreign, RandomnessRequest(core, key, seed, sender),
                UNCHANGED clientVars
         PROVE  P,
         ASSUME NEW core \in Cores, NEW id \in RequestId, NEW block \in 1..MaxBlock,
                NEW hash \in Hashes, FulfillRandomnessRequest(core, id, block, hash)
         PROVE  P,
         ASSUME Tick PROVE P
  PROVE  P
  <1>1. ASSUME NEW c \in Clients, NEW seed \in Seeds, RequestRandomNumber(c, seed)
        PROVE  P
    <2>1. CoreOf[c] \in Cores /\ KeyOf[c] \in KeyHashes
      BY VRFAssumption
    <2> QED BY <1>1, <2>1 DEF RequestRandomNumber
  <1>2. ASSUME NEW c \in Clients, NEW core \in Cores, NEW key \in KeyHashes,
               NEW seed \in Seeds, QueryExternally(c, core, key, seed)
        PROVE  P
    BY <1>2 DEF QueryExternally
  <1>3. ASSUME NEW core \in Cores, NEW key \in KeyHashes, NEW seed \in Seeds,
               NEW sender \in Clients, RequestExternally(core, key, seed, sender)
        PROVE  P
    BY <1>3 DEF RequestExternally
  <1> QED BY <1>1, <1>2, <1>3 DEF Next

(* The effect of a query on the consumer's validIds.                        *)
LEMMA ValidEffect ==
  ASSUME TypeOK, NEW id \in RequestId, NEW b,
         \/ validIds' = validIds
         \/ b /\ validIds' = [validIds EXCEPT ![id] = TRUE]
  PROVE  /\ validIds' \in [RequestId -> BOOLEAN]
         /\ \A i \in RequestId : validIds'[i] => validIds[i] \/ (i = id /\ b)
  <1>1. validIds \in [RequestId -> BOOLEAN]
    BY DEF TypeOK
  <1> QED BY <1>1

(* The part of TypeOK that is about the core.                               *)
CoreTypeOK ==
  /\ height \in 1..MaxBlock
  /\ callbacks \in [Cores -> [RequestId -> CallbackEntry \cup {None}]]
  /\ nonces \in [Cores -> [KeyHashes -> [Clients -> 0..MaxNonce]]]
  /\ events \subseteq RandomnessRequestEvent

(* A request keeps the types of the cores. *)
LEMMA CoreTypeRequest ==
  ASSUME TypeOK, NEW core \in Cores, NEW key \in KeyHashes, NEW seed \in Seeds,
         NEW sender \in Clients, RandomnessRequest(core, key, seed, sender)
  PROVE  CoreTypeOK'
  <1> DEFINE id == NextAtCore(core, key, seed, sender)
             event == [core |-> core, id |-> id, block |-> height]
  <1>0. Requested(core, key, seed, sender)
    BY RequestEffect
  <1>1. /\ callbacks' \in [Cores -> [RequestId -> CallbackEntry \cup {None}]]
        /\ nonces' \in [Cores -> [KeyHashes -> [Clients -> 0..MaxNonce]]]
        /\ event \in RandomnessRequestEvent /\ events' = events \cup {event}
        /\ height' = height
    BY <1>0 DEF Requested
  <1> HIDE DEF id, event
  <1>2. height \in 1..MaxBlock /\ events \subseteq RandomnessRequestEvent
    BY DEF TypeOK
  <1>3. height' \in 1..MaxBlock
    BY <1>1, <1>2
  <1>4. events' \subseteq RandomnessRequestEvent
    BY <1>1, <1>2
  <1> QED BY <1>1, <1>3, <1>4 DEF CoreTypeOK

(* Every transaction keeps the types. *)
LEMMA TypeStep ==
  ASSUME TypeOK, [Next]_vars
  PROVE  TypeOK'
  <1>1. CASE UNCHANGED vars
    BY <1>1 DEF TypeOK, vars, coreVars, clientVars
  <1>2. ASSUME NEW c \in Clients, NEW core \in Cores, NEW key \in KeyHashes,
               NEW seed \in Seeds, VrfQuery(c, core, key, seed),
               core = CoreOf[c] \/ c \in Foreign,
               \/ UNCHANGED validIds
               \/ /\ core = CoreOf[c] /\ key = KeyOf[c]
                  /\ validIds' = [validIds EXCEPT ![NextAtClient(c, key, seed)] = TRUE]
        PROVE  TypeOK'
    <2>1. RandomnessRequest(core, key, seed, c) /\ NextAtClient(c, key, seed) \in RequestId
      BY <1>2, QueryEffect DEF Queried
    <2>2. validIds' \in [RequestId -> BOOLEAN]
      BY <1>2, <2>1 DEF TypeOK
    <2>3. /\ clientNonces' \in [Clients -> [KeyHashes -> 0..MaxNonce]]
          /\ pendingRequests' \in [RequestId -> Cores \cup {None}]
          /\ resultMap' = resultMap
      BY <1>2, QueryEffect DEF Queried
    <2>4. CoreTypeOK'
      BY <2>1, CoreTypeRequest
    <2> QED BY <2>2, <2>3, <2>4 DEF TypeOK, CoreTypeOK
  <1>3. ASSUME NEW core \in Cores, NEW key \in KeyHashes, NEW seed \in Seeds,
               NEW sender \in Foreign, RandomnessRequest(core, key, seed, sender),
               UNCHANGED clientVars
        PROVE  TypeOK'
    <2>1. CoreTypeOK'
      BY <1>3, CoreTypeRequest, VRFAssumption
    <2> QED BY <1>3, <2>1 DEF TypeOK, CoreTypeOK, clientVars
  <1>4. ASSUME NEW core \in Cores, NEW id \in RequestId, NEW block \in 1..MaxBlock,
               NEW hash \in Hashes, FulfillRandomnessRequest(core, id, block, hash)
        PROVE  TypeOK'
    BY <1>4, FulfillEffect, ZenonT(40) DEF TypeOK, Fulfilled
  <1>5. ASSUME Tick
        PROVE  TypeOK'
    BY <1>5, VRFAssumption DEF TypeOK, Tick, coreVars, clientVars
  <1>6. CASE Next
    BY <1>2, <1>3, <1>4, <1>5, <1>6, NextCases
  <1> QED BY <1>1, <1>6

(* A request of a core keeps the events in order: its id is a new one.      *)
LEMMA EventsRequest ==
  ASSUME TypeOK, EventsTell, NEW core \in Cores, NEW key \in KeyHashes,
         NEW seed \in Seeds, NEW sender \in Clients,
         RandomnessRequest(core, key, seed, sender)
  PROVE  EventsTell'
  <1> DEFINE id == NextAtCore(core, key, seed, sender)
             event == [core |-> core, id |-> id, block |-> height]
             entry == [callbackContract |-> sender, block |-> height]
  <1>1. /\ id \in RequestId /\ id.key = key /\ id.sender = sender
        /\ id.nonce = nonces[core][key][sender]
        /\ event \in RandomnessRequestEvent
        /\ events' = events \cup {event}
        /\ entry \in CallbackEntry
        /\ \A k \in Cores, i \in RequestId :
             callbacks'[k][i] = IF k = core /\ i = id THEN entry ELSE callbacks[k][i]
        /\ \A k \in Cores, h \in KeyHashes, c \in Clients :
             nonces'[k][h][c] = IF k = core /\ h = key /\ c = sender
                                THEN nonces[k][h][c] + 1 ELSE nonces[k][h][c]
    BY RequestEffect DEF Requested
  <1>2. /\ \A k \in Cores, h \in KeyHashes, c \in Clients : nonces[k][h][c] \in Nat
        /\ events \subseteq RandomnessRequestEvent
    BY VRFAssumption DEF TypeOK
  <1>3. \A e \in events : /\ e.core \in Cores /\ e.id \in RequestId
                          /\ e.id.key \in KeyHashes /\ e.id.sender \in Clients
                          /\ e.id.nonce \in Nat
    BY <1>2 DEF RandomnessRequestEvent, RequestId
  <1>4. event.core = core /\ event.id = id /\ event.block = height /\ entry.block = height
    OBVIOUS
  <1>5. \A e \in events : e.core = core => e.id # id
    BY <1>1, <1>2, <1>3 DEF EventsTell
  <1> HIDE DEF id, event, entry
  <1>6. ASSUME NEW k \in Cores, NEW i \in RequestId, callbacks'[k][i] # None
        PROVE  [core |-> k, id |-> i, block |-> callbacks'[k][i].block] \in events'
    <2>1. CASE k = core /\ i = id
      <3>1. callbacks'[k][i].block = height
        BY <1>1, <1>4, <2>1
      <3> QED BY <1>1, <2>1, <3>1 DEF event
    <2>2. CASE ~(k = core /\ i = id)
      BY <1>1, <1>6, <2>2 DEF EventsTell
    <2> QED BY <2>1, <2>2
  <1>7. ASSUME NEW e \in events'
        PROVE  e.id.nonce < nonces'[e.core][e.id.key][e.id.sender]
    <2>1. CASE e = event
      BY <1>1, <1>2, <1>4, <2>1
    <2>2. CASE e \in events
      <3>1. e.id.nonce < nonces[e.core][e.id.key][e.id.sender]
        BY <2>2 DEF EventsTell
      <3>2. nonces'[e.core][e.id.key][e.id.sender]
              \in {nonces[e.core][e.id.key][e.id.sender],
                   nonces[e.core][e.id.key][e.id.sender] + 1}
        BY <1>1, <1>3, <2>2, ZenonT(60)
      <3>3. nonces[e.core][e.id.key][e.id.sender] \in Nat /\ e.id.nonce \in Nat
        BY <1>2, <1>3, <2>2
      <3>4. \A a, b \in Nat : a < b => a < b + 1
        OBVIOUS
      <3> QED BY <3>1, <3>2, <3>3, <3>4, ZenonT(40)
    <2> QED BY <1>1, <1>7, <2>1, <2>2
  <1>8. ASSUME NEW e1 \in events', NEW e2 \in events', e1.core = e2.core, e1.id = e2.id
        PROVE  e1 = e2
    <2>1. e1 \in events \/ e1 = event
      BY <1>1
    <2>2. e2 \in events \/ e2 = event
      BY <1>1
    <2> QED BY <1>4, <1>5, <1>8, <2>1, <2>2 DEF EventsTell
  <1> QED BY <1>6, <1>7, <1>8 DEF EventsTell

(* Every transaction keeps what events tell: nonces never come again. *)
LEMMA EventsStep ==
  ASSUME TypeOK, EventsTell, [Next]_vars
  PROVE  EventsTell'
  <1>1. CASE UNCHANGED vars
    BY <1>1 DEF EventsTell, vars, coreVars
  <1>2. ASSUME NEW c \in Clients, NEW core \in Cores, NEW key \in KeyHashes,
               NEW seed \in Seeds, VrfQuery(c, core, key, seed)
        PROVE  EventsTell'
    BY <1>2, EventsRequest DEF VrfQuery
  <1>3. ASSUME NEW core \in Cores, NEW key \in KeyHashes, NEW seed \in Seeds,
               NEW sender \in Foreign, RandomnessRequest(core, key, seed, sender)
        PROVE  EventsTell'
    BY <1>3, EventsRequest, VRFAssumption
  <1>4. ASSUME NEW core \in Cores, NEW id \in RequestId, NEW block \in 1..MaxBlock,
               NEW hash \in Hashes, FulfillRandomnessRequest(core, id, block, hash)
        PROVE  EventsTell'
    <2>0. Fulfilled(core, id, block, hash)
      BY <1>4, FulfillEffect
    <2>1. /\ \A k \in Cores, i \in RequestId :
               callbacks'[k][i] = IF k = core /\ i = id THEN None ELSE callbacks[k][i]
          /\ events' = events /\ nonces' = nonces
      BY <2>0 DEF Fulfilled
    <2>2. ASSUME NEW k \in Cores, NEW i \in RequestId, callbacks'[k][i] # None
          PROVE  [core |-> k, id |-> i, block |-> callbacks'[k][i].block] \in events'
      <3>1. callbacks'[k][i] = callbacks[k][i] /\ callbacks[k][i] # None
        BY <2>1, <2>2
      <3>2. [core |-> k, id |-> i, block |-> callbacks[k][i].block] \in events
        BY <3>1 DEF EventsTell
      <3> QED BY <2>1, <3>1, <3>2
    <2>3. \A e \in events' : e.id.nonce < nonces'[e.core][e.id.key][e.id.sender]
      BY <2>1 DEF EventsTell
    <2>4. \A e1, e2 \in events' : e1.core = e2.core /\ e1.id = e2.id => e1 = e2
      BY <2>1 DEF EventsTell
    <2> QED BY <2>2, <2>3, <2>4 DEF EventsTell
  <1>5. ASSUME Tick
        PROVE  EventsTell'
    BY <1>5 DEF EventsTell, Tick, coreVars
  <1>6. CASE Next
    BY <1>2, <1>3, <1>4, <1>5, <1>6, NextCases
  <1> QED BY <1>1, <1>6

-----------------------------------------------------------------------------
(* A query keeps the client's mappings in order: its id is new to it.       *)
LEMMA ClientQuery ==
  ASSUME TypeOK, ClientConsistent, NEW c \in Clients, NEW core \in Cores,
         NEW key \in KeyHashes, NEW seed \in Seeds, VrfQuery(c, core, key, seed),
         \/ UNCHANGED validIds
         \/ /\ core = CoreOf[c] /\ key = KeyOf[c]
            /\ validIds' = [validIds EXCEPT ![NextAtClient(c, key, seed)] = TRUE]
  PROVE  ClientConsistent'
  <1> DEFINE id == NextAtClient(c, key, seed)
  <1>1. Queried(c, core, key, seed)
    BY QueryEffect
  <1>2. /\ id \in RequestId /\ id.key = key /\ id.sender = c
        /\ id.nonce = clientNonces[c][key]
        /\ \A i \in RequestId :
             pendingRequests'[i] = IF i = id THEN core ELSE pendingRequests[i]
        /\ \A b \in Clients, h \in KeyHashes :
             clientNonces'[b][h] = IF b = c /\ h = key
                                   THEN clientNonces[b][h] + 1 ELSE clientNonces[b][h]
        /\ resultMap' = resultMap
    BY <1>1 DEF Queried
  <1>3. \A i \in RequestId : i.sender \in Clients /\ i.key \in KeyHashes /\ i.nonce \in Nat
    BY VRFAssumption DEF RequestId
  <1>4. \A b \in Clients, h \in KeyHashes : clientNonces[b][h] \in Nat
    BY VRFAssumption DEF TypeOK
  <1>5. \A i \in RequestId :
          validIds'[i] => validIds[i] \/ (i = id /\ core = CoreOf[c] /\ key = KeyOf[c])
    BY <1>2, ValidEffect
  <1>6. core # None
    BY VRFNoneAssumption
  <1> HIDE DEF id
  <1>7. pendingRequests[id] = None /\ resultMap[id] = None
    BY <1>2, <1>4 DEF ClientConsistent, Known
  <1>8. ~validIds[id]
    <2>1. CoreOf[c] # None
      BY VRFAssumption, VRFNoneAssumption
    <2> QED BY <1>2, <1>7, <2>1 DEF ClientConsistent
  <1>9. \A i \in RequestId : Known(i)' => Known(i) \/ i = id
    BY <1>2 DEF Known
  <1>10. ASSUME NEW i \in RequestId, validIds'[i]
         PROVE  pendingRequests'[i] = CoreOf[i.sender] /\ i.key = KeyOf[i.sender]
    <2>1. CASE i = id
      BY <1>2, <1>5, <1>8, <1>10, <2>1
    <2>2. CASE i # id
      BY <1>2, <1>5, <1>10, <2>2 DEF ClientConsistent
    <2> QED BY <2>1, <2>2
  <1>11. ASSUME NEW i \in RequestId, resultMap'[i] # None
         PROVE  pendingRequests'[i] = None /\ i.key = KeyOf[i.sender]
    <2>1. i # id /\ resultMap[i] # None
      BY <1>2, <1>7, <1>11
    <2> QED BY <1>2, <2>1 DEF ClientConsistent
  <1>12. ASSUME NEW i \in RequestId, Known(i)'
         PROVE  i.nonce < clientNonces'[i.sender][i.key]
    <2>1. CASE i = id
      BY <1>2, <1>4, <2>1
    <2>2. CASE Known(i)
      <3>1. i.nonce < clientNonces[i.sender][i.key]
        BY <2>2 DEF ClientConsistent
      <3>2. clientNonces'[i.sender][i.key]
              \in {clientNonces[i.sender][i.key], clientNonces[i.sender][i.key] + 1}
        BY <1>2, <1>3
      <3>3. i.nonce \in Nat /\ clientNonces[i.sender][i.key] \in Nat
        BY <1>3, <1>4
      <3> QED BY <3>1, <3>2, <3>3
    <2> QED BY <1>9, <1>12, <2>1, <2>2
  <1>13. ASSUME NEW i1 \in RequestId, NEW i2 \in RequestId, Known(i1)', Known(i2)',
                i1.key = i2.key, i1.sender = i2.sender, i1.nonce = i2.nonce
         PROVE  i1 = i2
    <2>1. \A i \in RequestId :
            Known(i) /\ i.sender = c /\ i.key = key => i.nonce < id.nonce
      BY <1>2 DEF ClientConsistent
    <2>2. \A i \in RequestId :
            Known(i) /\ i.sender = c /\ i.key = key => i.nonce # id.nonce
      BY <1>2, <1>3, <2>1
    <2>3. CASE Known(i1) /\ Known(i2)
      BY <1>13, <2>3 DEF ClientConsistent
    <2> QED BY <1>2, <1>9, <1>13, <2>2, <2>3
  <1> QED BY <1>10, <1>11, <1>12, <1>13 DEF ClientConsistent

(* Every transaction keeps the tables of the client in agreement. *)
LEMMA ClientStep ==
  ASSUME TypeOK, ClientConsistent, [Next]_vars
  PROVE  ClientConsistent'
  <1>1. ASSUME UNCHANGED clientVars
        PROVE  ClientConsistent'
    BY <1>1 DEF ClientConsistent, Known, clientVars
  <1>2. CASE UNCHANGED vars
    BY <1>1, <1>2 DEF vars
  <1>3. ASSUME NEW core \in Cores, NEW id \in RequestId, NEW block \in 1..MaxBlock,
               NEW hash \in Hashes, FulfillRandomnessRequest(core, id, block, hash)
        PROVE  ClientConsistent'
    <2>1. Fulfilled(core, id, block, hash)
      BY <1>3, FulfillEffect
    <2>2. /\ pendingRequests[id] = core /\ validIds[id]
          /\ \A i \in RequestId :
               /\ pendingRequests'[i] = IF i = id THEN None ELSE pendingRequests[i]
               /\ validIds'[i] = IF i = id THEN FALSE ELSE validIds[i]
               /\ resultMap'[i] = IF i = id THEN Randomness(id, hash) ELSE resultMap[i]
          /\ clientNonces' = clientNonces
      BY <2>1 DEF Fulfilled
    <2>3. Known(id) /\ id.key = KeyOf[id.sender]
      BY <2>2, VRFNoneAssumption DEF ClientConsistent, Known
    <2>4. \A i \in RequestId : Known(i)' => Known(i)
      BY <2>2, <2>3 DEF Known
    <2>5. ASSUME NEW i \in RequestId
          PROVE  /\ validIds'[i] => /\ pendingRequests'[i] = CoreOf[i.sender]
                                    /\ i.key = KeyOf[i.sender]
                 /\ resultMap'[i] # None => /\ pendingRequests'[i] = None
                                            /\ i.key = KeyOf[i.sender]
      BY <2>2, <2>3 DEF ClientConsistent
    <2>6. \A i \in RequestId : Known(i)' => i.nonce < clientNonces'[i.sender][i.key]
      BY <2>2, <2>4 DEF ClientConsistent
    <2>7. \A i1, i2 \in RequestId :
            /\ Known(i1)' /\ Known(i2)'
            /\ i1.key = i2.key /\ i1.sender = i2.sender /\ i1.nonce = i2.nonce
            => i1 = i2
      BY <2>4 DEF ClientConsistent
    <2> QED BY <2>5, <2>6, <2>7 DEF ClientConsistent
  <1>4. ASSUME Tick
        PROVE  ClientConsistent'
    BY <1>1, <1>4 DEF Tick
  <1>5. CASE Next
    BY <1>1, <1>3, <1>4, <1>5, ClientQuery, NextCases
  <1> QED BY <1>2, <1>5

-----------------------------------------------------------------------------
(* A request adds one event, for an id that its core has not announced yet. *)
LEMMA FreshRequest ==
  ASSUME TypeOK, EventsTell, NEW core \in Cores, NEW key \in KeyHashes,
         NEW seed \in Seeds, NEW sender \in Clients,
         RandomnessRequest(core, key, seed, sender)
  PROVE  \E event \in RandomnessRequestEvent :
           /\ events' = events \cup {event}
           /\ \A e \in events : ~(e.core = event.core /\ e.id = event.id)
  <1> DEFINE id == NextAtCore(core, key, seed, sender)
             event == [core |-> core, id |-> id, block |-> height]
  <1>1. Requested(core, key, seed, sender)
    BY RequestEffect
  <1>2. /\ id.key = key /\ id.sender = sender /\ id.nonce = nonces[core][key][sender]
        /\ event \in RandomnessRequestEvent /\ events' = events \cup {event}
    BY <1>1 DEF Requested
  <1>3. nonces[core][key][sender] \in Nat
    BY VRFAssumption DEF TypeOK
  <1>4. event.core = core /\ event.id = id
    OBVIOUS
  <1> HIDE DEF id, event
  <1>5. ASSUME NEW e \in events, e.core = core, e.id = id
        PROVE  FALSE
    <2>1. id.nonce < nonces[core][key][sender]
      BY <1>2, <1>5 DEF EventsTell
    <2> QED BY <1>2, <1>3, <2>1
  <1> QED BY <1>2, <1>4, <1>5

(* A new event that is not about an announced request changes no value that  *)
(* was received.                                                            *)
LEMMA DeterminedRequest ==
  ASSUME RandomnessIsItsOwn, NEW event,
         \A e \in events : ~(e.core = event.core /\ e.id = event.id),
         events' = events \cup {event}, UNCHANGED resultMap
  PROVE  RandomnessIsItsOwn'
  <1> SUFFICES ASSUME NEW id \in RequestId, resultMap[id] # None
               PROVE  \E e \in events' :
                        /\ e.core = CoreOf[id.sender] /\ e.id = id
                        /\ IsValueOf(resultMap[id], e)
                        /\ \A other \in events' :
                             other.core = e.core /\ other.id = id => other = e
    BY DEF RandomnessIsItsOwn
  <1>1. PICK e \in events : /\ e.core = CoreOf[id.sender] /\ e.id = id
                            /\ IsValueOf(resultMap[id], e)
                            /\ \A other \in events :
                                 other.core = e.core /\ other.id = id => other = e
    BY DEF RandomnessIsItsOwn
  <1>2. e \in events'
    OBVIOUS
  <1>3. \A other \in events' : other.core = e.core /\ other.id = id => other = e
    BY <1>1
  <1> QED BY <1>1, <1>2, <1>3

(* Every transaction keeps values the ones that requests fixed. *)
LEMMA DeterminedStep ==
  ASSUME TypeOK, EventsTell, ClientConsistent, RandomnessIsItsOwn, [Next]_vars
  PROVE  RandomnessIsItsOwn'
  <1>1. ASSUME UNCHANGED <<events, resultMap>>
        PROVE  RandomnessIsItsOwn'
    BY <1>1 DEF RandomnessIsItsOwn
  <1>2. CASE UNCHANGED vars
    BY <1>1, <1>2 DEF vars, coreVars, clientVars
  <1>3. ASSUME NEW core \in Cores, NEW key \in KeyHashes, NEW seed \in Seeds,
               NEW sender \in Clients, RandomnessRequest(core, key, seed, sender),
               resultMap' = resultMap
        PROVE  RandomnessIsItsOwn'
    <2>1. PICK event \in RandomnessRequestEvent :
                 /\ events' = events \cup {event}
                 /\ \A e \in events : ~(e.core = event.core /\ e.id = event.id)
      BY <1>3, FreshRequest
    <2> QED BY <1>3, <2>1, DeterminedRequest
  <1>4. ASSUME NEW core \in Cores, NEW id \in RequestId, NEW block \in 1..MaxBlock,
               NEW hash \in Hashes, FulfillRandomnessRequest(core, id, block, hash)
        PROVE  RandomnessIsItsOwn'
    <2>1. Fulfilled(core, id, block, hash)
      BY <1>4, FulfillEffect
    <2>2. /\ callbacks[core][id] # None /\ callbacks[core][id].block = block
          /\ pendingRequests[id] = core /\ validIds[id]
          /\ \A i \in RequestId :
               resultMap'[i] = IF i = id THEN Randomness(id, hash) ELSE resultMap[i]
          /\ events' = events
      BY <2>1 DEF Fulfilled
    <2> DEFINE event == [core |-> core, id |-> id, block |-> block]
    <2>3. event.core = core /\ event.id = id /\ event.block = block
      OBVIOUS
    <2>4. event \in events
      BY <2>2 DEF EventsTell
    <2>5. core = CoreOf[id.sender]
      BY <2>2 DEF ClientConsistent
    <2> DEFINE value == Randomness(id, hash)
    <2>8. IsValueOf(value, event)
      <3>1. value.id = id /\ value.hash = hash
        BY DEF Randomness
      <3> HIDE DEF value
      <3>2. core \in HashIsPassed \/ hash \in {block, 0}
        BY <2>1 DEF Fulfilled
      <3> QED BY <2>3, <3>1, <3>2 DEF IsValueOf
    <2> HIDE DEF event
    <2>6. \A other \in events : other.core = core /\ other.id = id => other = event
      BY <2>3, <2>4 DEF EventsTell
    <2>7. ASSUME NEW i \in RequestId, resultMap'[i] # None
          PROVE  \E e \in events' :
                   /\ e.core = CoreOf[i.sender] /\ e.id = i
                   /\ IsValueOf(resultMap'[i], e)
                   /\ \A other \in events' : other.core = e.core /\ other.id = i => other = e
      <3>1. CASE i = id
        BY <2>2, <2>3, <2>4, <2>5, <2>6, <2>8, <3>1
      <3>2. CASE i # id
        <4>1. resultMap'[i] = resultMap[i] /\ resultMap[i] # None
          BY <2>2, <2>7, <3>2
        <4> QED BY <2>2, <4>1 DEF RandomnessIsItsOwn
      <3> QED BY <3>1, <3>2
    <2> QED BY <2>7 DEF RandomnessIsItsOwn
  <1>5. ASSUME Tick
        PROVE  RandomnessIsItsOwn'
    BY <1>1, <1>5 DEF Tick, coreVars, clientVars
  <1>6. ASSUME NEW c \in Clients, NEW core \in Cores, NEW key \in KeyHashes,
               NEW seed \in Seeds, VrfQuery(c, core, key, seed)
        PROVE  RandomnessIsItsOwn'
    BY <1>3, <1>6 DEF VrfQuery
  <1>7. ASSUME NEW core \in Cores, NEW key \in KeyHashes, NEW seed \in Seeds,
               NEW sender \in Foreign, RandomnessRequest(core, key, seed, sender),
               UNCHANGED clientVars
        PROVE  RandomnessIsItsOwn'
    BY <1>3, <1>7, VRFAssumption DEF clientVars
  <1>8. CASE Next
    BY <1>4, <1>5, <1>6, <1>7, <1>8, NextCases
  <1> QED BY <1>2, <1>8

-----------------------------------------------------------------------------
(* No request makes a core forget one.                                      *)
LEMMA RequestsAreKept ==
  ASSUME TypeOK, NEW core \in Cores, NEW key \in KeyHashes, NEW seed \in Seeds,
         NEW sender \in Clients, RandomnessRequest(core, key, seed, sender)
  PROVE  /\ callbacks'[core][NextAtCore(core, key, seed, sender)] # None
         /\ \A k \in Cores, i \in RequestId :
              callbacks[k][i] # None => callbacks'[k][i] # None
  <1> DEFINE id == NextAtCore(core, key, seed, sender)
             entry == [callbackContract |-> sender, block |-> height]
  <1>1. Requested(core, key, seed, sender)
    BY RequestEffect
  <1>2. /\ id \in RequestId /\ entry \in CallbackEntry
        /\ \A k \in Cores, i \in RequestId :
             callbacks'[k][i] = IF k = core /\ i = id THEN entry ELSE callbacks[k][i]
    BY <1>1 DEF Requested
  <1>3. entry # None
    BY <1>2, VRFNoneAssumption
  <1> HIDE DEF id, entry
  <1>4. callbacks'[core][id] # None
    BY <1>2, <1>3
  <1>5. \A k \in Cores, i \in RequestId : callbacks[k][i] # None => callbacks'[k][i] # None
    BY <1>2, <1>3
  <1> QED BY <1>4, <1>5 DEF id

(* A client that asks its own core counts as the core counts, and the core   *)
(* knows the request by the id the client gave it.                          *)
LEMMA ServableQuery ==
  ASSUME TypeOK, OwnRequestsAreServable, NEW c \in Clients, NEW core \in Cores,
         NEW key \in KeyHashes, NEW seed \in Seeds, VrfQuery(c, core, key, seed),
         core = CoreOf[c] \/ c \in Foreign,
         \/ UNCHANGED validIds
         \/ /\ core = CoreOf[c] /\ key = KeyOf[c]
            /\ validIds' = [validIds EXCEPT ![NextAtClient(c, key, seed)] = TRUE]
  PROVE  OwnRequestsAreServable'
  <1> DEFINE id == NextAtClient(c, key, seed)
  <1>1. Queried(c, core, key, seed)
    BY QueryEffect
  <1>2. /\ id \in RequestId /\ id.sender = c /\ id.key = key
        /\ RandomnessRequest(core, key, seed, c)
        /\ \A b \in Clients, h \in KeyHashes :
             clientNonces'[b][h] = IF b = c /\ h = key
                                   THEN clientNonces[b][h] + 1 ELSE clientNonces[b][h]
    BY <1>1 DEF Queried
  <1>3. Requested(core, key, seed, c)
    BY <1>2, RequestEffect
  <1>4. \A k \in Cores, h \in KeyHashes, b \in Clients :
          nonces'[k][h][b] = IF k = core /\ h = key /\ b = c
                             THEN nonces[k][h][b] + 1 ELSE nonces[k][h][b]
    BY <1>3 DEF Requested
  <1>5. /\ callbacks'[core][NextAtCore(core, key, seed, c)] # None
        /\ \A k \in Cores, i \in RequestId :
             callbacks[k][i] # None => callbacks'[k][i] # None
    BY <1>2, RequestsAreKept
  <1>6. \A i \in RequestId : validIds'[i] => validIds[i] \/ i = id
    BY <1>2, ValidEffect
  <1>7. ASSUME c \notin Foreign
        PROVE  core = CoreOf[c] /\ id = NextAtCore(core, key, seed, c)
    <2>1. core = CoreOf[c]
      BY <1>7
    <2>2. nonces[core][key][c] = clientNonces[c][key]
      BY <1>7, <2>1 DEF OwnRequestsAreServable
    <2> QED BY <2>1, <2>2 DEF NextAtClient, NextAtCore
  <1> HIDE DEF id
  <1>8. ASSUME NEW b \in Clients \ Foreign, NEW h \in KeyHashes
        PROVE  nonces'[CoreOf[b]][h][b] = clientNonces'[b][h]
    <2>1. CoreOf[b] \in Cores /\ b \in Clients
      BY VRFAssumption
    <2>2. nonces[CoreOf[b]][h][b] = clientNonces[b][h]
      BY DEF OwnRequestsAreServable
    <2>3. CASE b = c
      <3>1. core = CoreOf[b]
        BY <1>7, <2>3
      <3>2. nonces'[CoreOf[b]][h][b] = IF h = key THEN nonces[CoreOf[b]][h][b] + 1
                                       ELSE nonces[CoreOf[b]][h][b]
        BY <1>4, <2>1, <2>3, <3>1
      <3>3. clientNonces'[b][h] = IF h = key THEN clientNonces[b][h] + 1
                                  ELSE clientNonces[b][h]
        BY <1>2, <2>1, <2>3
      <3> QED BY <2>2, <3>2, <3>3
    <2>4. CASE b # c
      BY <1>2, <1>4, <2>1, <2>2, <2>4
    <2> QED BY <2>3, <2>4
  <1>9. ASSUME NEW b \in Clients \ Foreign, NEW i \in RequestId, i.sender = b, validIds'[i]
        PROVE  callbacks'[CoreOf[b]][i] # None
    <2>1. CoreOf[b] \in Cores
      BY VRFAssumption
    <2>2. CASE validIds[i]
      <3>1. callbacks[CoreOf[b]][i] # None
        BY <1>9, <2>2 DEF OwnRequestsAreServable
      <3> QED BY <1>5, <2>1, <3>1
    <2>3. CASE i = id
      BY <1>2, <1>5, <1>7, <1>9, <2>3
    <2> QED BY <1>6, <1>9, <2>2, <2>3
  <1> QED BY <1>8, <1>9 DEF OwnRequestsAreServable

(* Every transaction keeps clients nobody speaks for in sync. *)
LEMMA ServableStep ==
  ASSUME TypeOK, OwnRequestsAreServable, [Next]_vars
  PROVE  OwnRequestsAreServable'
  <1>1. ASSUME UNCHANGED <<coreVars, clientVars>>
        PROVE  OwnRequestsAreServable'
    BY <1>1 DEF OwnRequestsAreServable, coreVars, clientVars
  <1>2. CASE UNCHANGED vars
    BY <1>1, <1>2 DEF vars
  <1>3. ASSUME NEW core \in Cores, NEW key \in KeyHashes, NEW seed \in Seeds,
               NEW sender \in Foreign, RandomnessRequest(core, key, seed, sender),
               UNCHANGED clientVars
        PROVE  OwnRequestsAreServable'
    <2>1. sender \in Clients
      BY VRFAssumption
    <2>2. Requested(core, key, seed, sender)
      BY <1>3, <2>1, RequestEffect
    <2>3. \A k \in Cores, h \in KeyHashes, b \in Clients :
            b # sender => nonces'[k][h][b] = nonces[k][h][b]
      BY <2>2 DEF Requested
    <2>4. \A k \in Cores, i \in RequestId : callbacks[k][i] # None => callbacks'[k][i] # None
      BY <1>3, <2>1, RequestsAreKept
    <2>5. clientNonces' = clientNonces /\ validIds' = validIds
      BY <1>3 DEF clientVars
    <2>6. ASSUME NEW b \in Clients \ Foreign
          PROVE  /\ \A h \in KeyHashes : nonces'[CoreOf[b]][h][b] = clientNonces'[b][h]
                 /\ \A i \in RequestId :
                      i.sender = b /\ validIds'[i] => callbacks'[CoreOf[b]][i] # None
      <3>1. CoreOf[b] \in Cores /\ b # sender
        BY VRFAssumption
      <3> QED BY <2>3, <2>4, <2>5, <3>1 DEF OwnRequestsAreServable
    <2> QED BY <2>6 DEF OwnRequestsAreServable
  <1>4. ASSUME NEW core \in Cores, NEW id \in RequestId, NEW block \in 1..MaxBlock,
               NEW hash \in Hashes, FulfillRandomnessRequest(core, id, block, hash)
        PROVE  OwnRequestsAreServable'
    <2>1. Fulfilled(core, id, block, hash)
      BY <1>4, FulfillEffect
    <2>2. /\ \A k \in Cores, i \in RequestId :
               callbacks'[k][i] = IF k = core /\ i = id THEN None ELSE callbacks[k][i]
          /\ \A i \in RequestId : validIds'[i] = IF i = id THEN FALSE ELSE validIds[i]
          /\ nonces' = nonces /\ clientNonces' = clientNonces
      BY <2>1 DEF Fulfilled
    <2>3. ASSUME NEW b \in Clients \ Foreign
          PROVE  /\ \A h \in KeyHashes : nonces'[CoreOf[b]][h][b] = clientNonces'[b][h]
                 /\ \A i \in RequestId :
                      i.sender = b /\ validIds'[i] => callbacks'[CoreOf[b]][i] # None
      <3>1. CoreOf[b] \in Cores
        BY VRFAssumption
      <3>2. \A h \in KeyHashes : nonces'[CoreOf[b]][h][b] = clientNonces'[b][h]
        BY <2>2 DEF OwnRequestsAreServable
      <3>3. ASSUME NEW i \in RequestId, i.sender = b, validIds'[i]
            PROVE  callbacks'[CoreOf[b]][i] # None
        <4>1. i # id /\ validIds[i]
          BY <2>2, <3>3
        <4>2. callbacks[CoreOf[b]][i] # None
          BY <3>3, <4>1 DEF OwnRequestsAreServable
        <4> QED BY <2>2, <3>1, <4>1, <4>2
      <3> QED BY <3>2, <3>3
    <2> QED BY <2>3 DEF OwnRequestsAreServable
  <1>5. ASSUME Tick
        PROVE  OwnRequestsAreServable'
    BY <1>1, <1>5 DEF Tick
  <1>6. CASE Next
    BY <1>3, <1>4, <1>5, <1>6, ServableQuery, NextCases
  <1> QED BY <1>2, <1>6

-----------------------------------------------------------------------------
(* All this holds of empty mappings.                                        *)
LEMMA InitInv == Init => Inv
  <1> SUFFICES ASSUME Init PROVE Inv
    OBVIOUS
  <1>1. MaxNonce \in Nat /\ MaxBlock \in Nat \ {0}
    BY VRFAssumption
  <1>2. TypeOK
    BY <1>1 DEF Init, TypeOK
  <1>3. EventsTell
    BY DEF Init, EventsTell
  <1>4. ClientConsistent
    BY DEF Init, ClientConsistent, Known
  <1>5. RandomnessIsItsOwn
    BY DEF Init, RandomnessIsItsOwn
  <1>6. OwnRequestsAreServable
    <2>1. \A c \in Clients : CoreOf[c] \in Cores
      BY VRFAssumption
    <2> QED BY <2>1 DEF Init, OwnRequestsAreServable
  <1> QED BY <1>2, <1>3, <1>4, <1>5, <1>6 DEF Inv

(* The invariant is inductive.                                              *)
LEMMA InvStep == Inv /\ [Next]_vars => Inv'
  BY TypeStep, EventsStep, ClientStep, DeterminedStep, ServableStep DEF Inv

(* The inductive invariant of the contracts holds in every reachable state. *)
LEMMA VRFInvariance == Spec => []Inv
  BY InitInv, InvStep, PTL DEF Spec

(* Every variable holds a value of its type in every reachable state of the  *)
(* contracts.                                                               *)
THEOREM VRFTypeCorrect == Spec => []TypeOK
  BY VRFInvariance, PTL DEF Inv

(* The assertion of randomnessRequest (VRFK1Core.sol:83) never fails,        *)
(* whoever asks and whatever was answered before.                           *)
THEOREM AssertionNeverFails == Spec => []AssertionHolds
  <1>1. Inv => AssertionHolds
    <2> SUFFICES ASSUME Inv, NEW core \in Cores, NEW key \in KeyHashes,
                        NEW seed \in Seeds, NEW sender \in Clients,
                        nonces[core][key][sender] < MaxNonce
                 PROVE  callbacks[core][NextAtCore(core, key, seed, sender)] = None
      BY DEF AssertionHolds
    <2> DEFINE id == NextAtCore(core, key, seed, sender)
               n == nonces[core][key][sender]
    <2>1. n \in Nat /\ MaxNonce \in Nat /\ n < MaxNonce
      BY VRFAssumption DEF Inv, TypeOK
    <2>2. n \in 0..MaxNonce - 1
      BY <2>1
    <2>3. id \in RequestId /\ id.key = key /\ id.sender = sender /\ id.nonce = n
      BY <2>2 DEF NextAtCore, MakeRequestId, RequestId
    <2> HIDE DEF id
    <2>4. ASSUME callbacks[core][id] # None
          PROVE  FALSE
      <3> DEFINE event == [core |-> core, id |-> id, block |-> callbacks[core][id].block]
      <3>1. event \in events /\ event.core = core /\ event.id = id
        BY <2>3, <2>4 DEF Inv, EventsTell
      <3> HIDE DEF event
      <3>2. id.nonce < nonces[core][key][sender]
        BY <2>3, <3>1 DEF Inv, EventsTell
      <3> QED BY <2>1, <2>3, <3>2
    <2> QED BY <2>4 DEF id
  <1> QED BY <1>1, VRFInvariance, PTL

(* The mappings of the client and of its consumer agree in every reachable   *)
(* state.                                                                   *)
THEOREM ClientIsConsistent == Spec => []ClientConsistent
  BY VRFInvariance, PTL DEF Inv

(* The value that is received for a request is of this request, announced    *)
(* once; a core that asks blockhash() leaves the key's holder two of them,   *)
(* one that is given the hash leaves him the choice.                         *)
THEOREM RandomnessStaysOwn == Spec => []RandomnessIsItsOwn
  BY VRFInvariance, PTL DEF Inv

(* A client in whose name nobody else asks a core stays in sync with its     *)
(* core, which knows all its open requests.                                 *)
THEOREM OwnRequestsStayServable == Spec => []OwnRequestsAreServable
  BY VRFInvariance, PTL DEF Inv

-----------------------------------------------------------------------------
(* The nonces of the consumer's key and the values received, as they appear  *)
(* to OneShotRequests.                                                      *)
Opened == [c \in Clients |-> clientNonces[c][KeyOf[c]]]

Answers == [r \in OneShotRequestId |-> AnswerTo(r.callback, r.nonce - 1)]

(* What OneShotRequests sees of a state without requests.                   *)
LEMMA OneShotInit == Init => OneShot!Init
  <1> SUFFICES ASSUME Init PROVE OneShot!Init
    OBVIOUS
  <1>1. Opened = [c \in Clients |-> 0]
    BY VRFAssumption DEF Init, Opened
  <1>2. ASSUME NEW r \in OneShotRequestId
        PROVE  AnswerTo(r.callback, r.nonce - 1) = None
    <2>1. Answered(r.callback, r.nonce - 1) = {}
      BY DEF Init, Answered
    <2> QED BY <2>1 DEF AnswerTo
  <1>3. Answers = [r \in OneShotRequestId |-> None]
    BY <1>2 DEF Answers
  <1> QED BY <1>1, <1>3
          DEF OneShot!Init, OneShot!RequestId, OneShotRequestId, Opened, Answers

(* What does not touch the values received does not touch the answers.      *)
LEMMA AnswersKept ==
  ASSUME resultMap' = resultMap
  PROVE  Answers' = Answers
  <1>1. ASSUME NEW c, NEW n
        PROVE  Answered(c, n)' = Answered(c, n) /\ AnswerTo(c, n)' = AnswerTo(c, n)
    BY DEF Answered, AnswerTo
  <1> QED BY <1>1 DEF Answers

(* A query for the key of the consumer opens a request, others none.        *)
LEMMA OneShotQuery ==
  ASSUME Inv, NEW c \in Clients, NEW core \in Cores, NEW key \in KeyHashes,
         NEW seed \in Seeds, VrfQuery(c, core, key, seed)
  PROVE  OneShot!Open(c) \/ UNCHANGED OneShot!vars
  <1>1. Queried(c, core, key, seed)
    BY QueryEffect DEF Inv
  <1>2. /\ \A b \in Clients, h \in KeyHashes :
             clientNonces'[b][h] = IF b = c /\ h = key
                                   THEN clientNonces[b][h] + 1 ELSE clientNonces[b][h]
        /\ resultMap' = resultMap
    BY <1>1 DEF Queried
  <1>3. Answers' = Answers
    BY <1>2, AnswersKept
  <1>4. \A b \in Clients : KeyOf[b] \in KeyHashes
    BY VRFAssumption
  <1>5. CASE key = KeyOf[c]
    <2>1. Opened[c] < MaxNonce
      BY <1>5 DEF VrfQuery, Opened
    <2>2. \A b \in Clients : clientNonces'[b][KeyOf[b]]
                               = IF b = c THEN Opened[b] + 1 ELSE Opened[b]
      BY <1>2, <1>4, <1>5 DEF Opened
    <2>3. Opened' = [b \in Clients |-> IF b = c THEN Opened[b] + 1 ELSE Opened[b]]
      BY <2>2 DEF Opened
    <2>4. Opened' = [Opened EXCEPT ![c] = Opened[c] + 1]
      BY <2>3 DEF Opened
    <2> QED BY <1>3, <2>1, <2>4 DEF OneShot!Open, Opened, Answers, OneShotRequestId
  <1>6. CASE key # KeyOf[c]
    <2>1. \A b \in Clients : clientNonces'[b][KeyOf[b]] = clientNonces[b][KeyOf[b]]
      BY <1>2, <1>4, <1>6
    <2>2. Opened' = Opened
      BY <2>1 DEF Opened
    <2> QED BY <1>3, <2>2 DEF OneShot!vars, Opened, Answers
  <1> QED BY <1>5, <1>6

(* A fulfilment answers the request that has the nonce of the id.           *)
LEMMA OneShotFulfill ==
  ASSUME Inv, NEW core \in Cores, NEW id \in RequestId, NEW block \in 1..MaxBlock,
         NEW hash \in Hashes, FulfillRandomnessRequest(core, id, block, hash)
  PROVE  OneShot!Next
  <1> DEFINE r == [callback |-> id.sender, nonce |-> id.nonce + 1]
             value == Randomness(id, hash)
  <1>1. Fulfilled(core, id, block, hash)
    BY FulfillEffect DEF Inv
  <1>2. /\ pendingRequests[id] = core /\ validIds[id]
        /\ value \in Outputs
        /\ \A i \in RequestId : resultMap'[i] = IF i = id THEN value ELSE resultMap[i]
        /\ clientNonces' = clientNonces
    BY <1>1 DEF Fulfilled
  <1>3. pendingRequests[id] # None /\ value # None
    BY <1>2, VRFNoneAssumption
  <1> HIDE DEF value
  <1>4. /\ id.sender \in Clients /\ id.key \in KeyHashes /\ id.nonce \in 0..MaxNonce - 1
        /\ MaxNonce \in Nat
    BY VRFAssumption DEF RequestId
  <1>5. r \in OneShotRequestId /\ r.callback = id.sender /\ r.nonce - 1 = id.nonce
    BY <1>4 DEF OneShotRequestId
  <1>6. /\ Known(id) /\ resultMap[id] = None /\ id.key = KeyOf[id.sender]
        /\ id.nonce < clientNonces[id.sender][id.key]
    BY <1>2, <1>3 DEF Inv, ClientConsistent, Known
  <1>7. Answered(id.sender, id.nonce) = {}
    <2> SUFFICES ASSUME NEW i \in Answered(id.sender, id.nonce)
                 PROVE  FALSE
      OBVIOUS
    <2>1. /\ i \in RequestId /\ Known(i) /\ resultMap[i] # None
          /\ i.sender = id.sender /\ i.key = id.key /\ i.nonce = id.nonce
      BY <1>6 DEF Answered, Known
    <2>2. i = id
      BY <1>6, <2>1 DEF Inv, ClientConsistent
    <2> QED BY <1>6, <2>1, <2>2
  <1>8. Answers[r] = None
    BY <1>5, <1>7 DEF Answers, AnswerTo
  <1>9. r.nonce <= Opened[r.callback]
    <2>1. Opened[r.callback] = clientNonces[id.sender][id.key]
      BY <1>4, <1>5, <1>6 DEF Opened
    <2>2. clientNonces[id.sender][id.key] \in Nat
      BY <1>4 DEF Inv, TypeOK
    <2> QED BY <1>4, <1>6, <2>1, <2>2
  <1>10. AnswerTo(id.sender, id.nonce)' = value
    <2>1. Answered(id.sender, id.nonce)' = {id}
      BY <1>2, <1>3, <1>6, <1>7 DEF Answered
    <2>2. (CHOOSE i \in {id} : TRUE) = id
      OBVIOUS
    <2> QED BY <1>2, <2>1, <2>2 DEF AnswerTo
  <1>11. ASSUME NEW q \in OneShotRequestId, q # r
         PROVE  AnswerTo(q.callback, q.nonce - 1)' = AnswerTo(q.callback, q.nonce - 1)
    <2> DEFINE c == q.callback
               n == q.nonce - 1
               S == Answered(c, n)
    <2>1. ~(c = id.sender /\ n = id.nonce)
      <3>1. q = [callback |-> q.callback, nonce |-> q.nonce] /\ q.nonce \in Nat
        BY <1>4 DEF OneShotRequestId
      <3> QED BY <1>4, <1>11, <3>1
    <2> HIDE DEF c, n
    <2>2. S' = S
      BY <1>2, <2>1 DEF Answered
    <2>3. \A i \in S : i # id /\ i \in RequestId
      BY <2>1 DEF Answered
    <2>4. \A i \in S : resultMap'[i] = resultMap[i]
      BY <1>2, <2>3
    <2> HIDE DEF S
    <2>5. S # {} => (CHOOSE i \in S : TRUE) \in S
      OBVIOUS
    <2>6. AnswerTo(c, n) = IF S = {} THEN None ELSE resultMap[CHOOSE i \in S : TRUE]
      BY DEF AnswerTo, S
    <2>7. AnswerTo(c, n)' = IF S = {} THEN None ELSE resultMap'[CHOOSE i \in S : TRUE]
      BY <2>2 DEF AnswerTo, S
    <2> QED BY <2>4, <2>5, <2>6, <2>7 DEF c, n
  <1>12. Answers' = [Answers EXCEPT ![r] = value]
    <2>1. \A q \in OneShotRequestId :
            AnswerTo(q.callback, q.nonce - 1)' = IF q = r THEN value ELSE Answers[q]
      BY <1>5, <1>10, <1>11 DEF Answers
    <2> QED BY <1>5, <2>1 DEF Answers
  <1>13. Opened' = Opened
    BY <1>2 DEF Opened
  <1>14. OneShot!Answer(r, value)
    BY <1>8, <1>9, <1>12, <1>13 DEF OneShot!Answer, Opened, Answers
  <1> QED BY <1>2, <1>5, <1>14 DEF OneShot!Next, OneShot!RequestId, OneShotRequestId

(* Every transaction opens a request, answers one, or does neither.         *)
LEMMA OneShotStep == ASSUME Inv, [Next]_vars PROVE [OneShot!Next]_OneShot!vars
  <1>1. ASSUME UNCHANGED clientVars
        PROVE  [OneShot!Next]_OneShot!vars
    <2>1. Answers' = Answers
      BY <1>1, AnswersKept DEF clientVars
    <2>2. Opened' = Opened
      BY <1>1 DEF Opened, clientVars
    <2> QED BY <2>1, <2>2 DEF OneShot!vars, Opened, Answers
  <1>2. CASE UNCHANGED vars
    BY <1>1, <1>2 DEF vars
  <1>3. ASSUME NEW c \in Clients, NEW core \in Cores, NEW key \in KeyHashes,
               NEW seed \in Seeds, VrfQuery(c, core, key, seed)
        PROVE  [OneShot!Next]_OneShot!vars
    BY <1>3, OneShotQuery DEF OneShot!Next
  <1>4. ASSUME NEW core \in Cores, NEW id \in RequestId, NEW block \in 1..MaxBlock,
               NEW hash \in Hashes, FulfillRandomnessRequest(core, id, block, hash)
        PROVE  [OneShot!Next]_OneShot!vars
    BY <1>4, OneShotFulfill
  <1>5. ASSUME Tick
        PROVE  [OneShot!Next]_OneShot!vars
    BY <1>1, <1>5 DEF Tick
  <1>6. CASE Next
    BY <1>1, <1>3, <1>4, <1>5, <1>6, NextCases
  <1> QED BY <1>2, <1>6

(* The VRF contracts implement OneShotRequests as the URL contracts do: each *)
(* request is given one value, after it was made, whatever strangers ask.    *)
THEOREM VRFRefinement == Spec => ImplementsOneShot
  BY OneShotInit, OneShotStep, VRFInvariance, PTL DEF Spec, ImplementsOneShot, OneShot!Spec

-----------------------------------------------------------------------------
(* The service.                                                            *)

(* The outcome a thread starts with is an outcome. *)
LEMMA SuccessType == Success \in Outcome
  BY DEF Success, Outcome, ReqStatus

(* So is that of a step that fails. *)
LEMMA FailureType ==
  ASSUME NEW status \in ReqStatus PROVE [status |-> status, proof |-> NoResult] \in Outcome
  BY DEF Outcome

(* An event is no absent one, and names a core, an id and a block. *)
LEMMA EventType ==
  ASSUME WorkerTypeOK, NEW t \in Threads, pc[t] \in Working
  PROVE  /\ current[t] \in events /\ current[t] \in RandomnessRequestEvent
         /\ current[t] # None
         /\ current[t].core \in Cores /\ current[t].id \in RequestId
         /\ current[t].block \in 1..MaxBlock
  <1>1. current[t] \in events \cup {None} /\ current[t] # None
    BY DEF WorkerTypeOK
  <1>2. current[t] \in RandomnessRequestEvent
    BY <1>1 DEF WorkerTypeOK, TypeOK
  <1> QED BY <1>1, <1>2 DEF RandomnessRequestEvent

-----------------------------------------------------------------------------
(* What the chain does. *)

(* An emitted event stays, a value that was received stays, blocks go on,   *)
(* and a new event is of the block being built.                             *)
ChainGrows ==
  /\ events \subseteq events'
  /\ \A e \in events' \ events : e.block = height
  /\ height' \in Nat /\ height' >= height
  /\ \A id \in RequestId : resultMap[id] # None => resultMap'[id] = resultMap[id]

(* No transaction takes back an event or a value. *)
LEMMA ChainGrowsStep == ASSUME Inv, [Next]_vars PROVE ChainGrows
  <1>1. height \in Nat
    BY DEF Inv, TypeOK
  <1>2. CASE UNCHANGED vars
    BY <1>1, <1>2 DEF vars, coreVars, clientVars, ChainGrows
  <1>3. ASSUME NEW core \in Cores, NEW key \in KeyHashes, NEW seed \in Seeds,
               NEW sender \in Clients, RandomnessRequest(core, key, seed, sender),
               resultMap' = resultMap
        PROVE  ChainGrows
    <2> DEFINE event == [core |-> core, id |-> NextAtCore(core, key, seed, sender),
                         block |-> height]
    <2>1. Requested(core, key, seed, sender)
      BY <1>3, RequestEffect DEF Inv
    <2>2. events' = events \cup {event} /\ height' = height
      BY <2>1 DEF Requested
    <2>3. \A e \in events' \ events : e.block = height
      BY <2>2
    <2> HIDE DEF event
    <2> QED BY <1>1, <1>3, <2>2, <2>3 DEF ChainGrows
  <1>4. ASSUME NEW core \in Cores, NEW id \in RequestId, NEW block \in 1..MaxBlock,
               NEW hash \in Hashes, FulfillRandomnessRequest(core, id, block, hash)
        PROVE  ChainGrows
    <2>1. Fulfilled(core, id, block, hash)
      BY <1>4, FulfillEffect DEF Inv
    <2>2. resultMap[id] = None
      BY <2>1, VRFNoneAssumption DEF Inv, ClientConsistent, Fulfilled
    <2> QED BY <1>1, <2>1, <2>2 DEF ChainGrows, Fulfilled
  <1>5. CASE Tick
    BY <1>1, <1>5 DEF Tick, ChainGrows, coreVars, clientVars
  <1>6. ASSUME NEW c \in Clients, NEW core \in Cores, NEW key \in KeyHashes,
               NEW seed \in Seeds, VrfQuery(c, core, key, seed)
        PROVE  ChainGrows
    BY <1>3, <1>6 DEF VrfQuery
  <1>7. ASSUME NEW core \in Cores, NEW key \in KeyHashes, NEW seed \in Seeds,
               NEW sender \in Foreign, RandomnessRequest(core, key, seed, sender),
               UNCHANGED clientVars
        PROVE  ChainGrows
    BY <1>3, <1>7, VRFAssumption DEF clientVars
  <1>8. CASE Next
    BY <1>8, <1>4, <1>5, <1>6, <1>7, NextCases
  <1> QED BY <1>2, <1>8

(* What happens without the service is what VRFCore allows; a value for the *)
(* service's key is not among it.                                           *)
LEMMA ChainStepEffect ==
  ASSUME Inv, ChainStep
  PROVE  /\ Next /\ UNCHANGED workerVars
         /\ \A id \in RequestId : id.key = ServiceKey => resultMap'[id] = resultMap[id]
  <1>1. Next /\ UNCHANGED workerVars
    BY DEF ChainStep, Next
  <1>2. ASSUME NEW core \in Cores, NEW id \in RequestId, NEW block \in 1..MaxBlock,
               NEW hash \in Hashes, id.key # ServiceKey,
               FulfillRandomnessRequest(core, id, block, hash)
        PROVE  \A i \in RequestId : i.key = ServiceKey => resultMap'[i] = resultMap[i]
    <2>1. Fulfilled(core, id, block, hash)
      BY <1>2, FulfillEffect DEF Inv
    <2> QED BY <1>2, <2>1 DEF Fulfilled
  <1>3. \A i \in RequestId : i.key = ServiceKey => resultMap'[i] = resultMap[i]
    <2>1. \/ resultMap' = resultMap
          \/ \E core \in Cores, id \in RequestId, block \in 1..MaxBlock, hash \in Hashes :
               id.key # ServiceKey /\ FulfillRandomnessRequest(core, id, block, hash)
      BY DEF ChainStep, RequestRandomNumber, QueryExternally, RequestExternally, VrfQuery,
             clientVars, Tick
    <2> QED BY <1>2, <2>1
  <1> QED BY <1>1, <1>3

-----------------------------------------------------------------------------
(* What the parts of an action do to the variables of the threads.          *)

PCs == Working \cup {"idle"}

ThreadTypes ==
  /\ pc \in [Threads -> PCs]
  /\ current \in [Threads -> events \cup {None}]
  /\ batch \in [Threads -> SUBSET events]
  /\ outcome \in [Threads -> Outcome]

LocalTypes ==
  /\ actualSeed \in [Threads -> Outputs \cup {None}]
  /\ randomness \in [Threads -> Outputs \cup {None}]

(* Only t moves: to p, with event e, those of b after it, and outcome o. *)
Moves(t, p, e, b, o) ==
  /\ pc' \in [Threads -> PCs]
  /\ current' \in [Threads -> events \cup {None}]
  /\ batch' \in [Threads -> SUBSET events]
  /\ outcome' \in [Threads -> Outcome]
  /\ pc'[t] = p /\ current'[t] = e /\ batch'[t] = b /\ outcome'[t] = o
  /\ \A u \in Threads : u # t =>
       /\ pc'[u] = pc[u] /\ current'[u] = current[u]
       /\ batch'[u] = batch[u] /\ outcome'[u] = outcome[u]

(* The thread begins with one of these events. *)
Begins(t, pushed) == \E e \in pushed : Moves(t, "find", e, pushed \ {e}, Success)

(* The loop goes on or ends. *)
Advances(t) ==
  \/ batch[t] = {} /\ Moves(t, "idle", None, {}, Success)
  \/ Begins(t, batch[t])

(* A thread starts with one event of what was pushed. *)
LEMMA BeginEffect ==
  ASSUME ThreadTypes, NEW t \in Threads, NEW pushed \in SUBSET events, Begin(t, pushed)
  PROVE  Begins(t, pushed)
  <1>1. PICK e \in pushed :
          /\ pc' = [pc EXCEPT ![t] = "find"]
          /\ current' = [current EXCEPT ![t] = e]
          /\ batch' = [batch EXCEPT ![t] = pushed \ {e}]
          /\ outcome' = [outcome EXCEPT ![t] = Success]
    BY DEF Begin, Goto
  <1>2. "find" \in PCs /\ e \in events /\ pushed \ {e} \in SUBSET events
    BY DEF PCs, Working
  <1>3. Moves(t, "find", e, pushed \ {e}, Success)
    BY <1>1, <1>2, SuccessType DEF Moves, ThreadTypes
  <1> QED BY <1>3 DEF Begins

(* A thread goes on with another event of its batch, or is idle. *)
LEMMA NextEventEffect ==
  ASSUME ThreadTypes, NEW t \in Threads, NextEvent(t)
  PROVE  Advances(t)
  <1>1. CASE batch[t] = {}
    <2>1. /\ pc' = [pc EXCEPT ![t] = "idle"]
          /\ current' = [current EXCEPT ![t] = None]
          /\ batch' = [batch EXCEPT ![t] = {}]
          /\ outcome' = [outcome EXCEPT ![t] = Success]
      BY <1>1 DEF NextEvent, Rest, Goto
    <2>2. "idle" \in PCs /\ None \in events \cup {None} /\ {} \in SUBSET events
      BY DEF PCs
    <2>3. Moves(t, "idle", None, {}, Success)
      BY <2>1, <2>2, SuccessType DEF Moves, ThreadTypes
    <2> QED BY <1>1, <2>3 DEF Advances
  <1>2. CASE batch[t] # {}
    <2>1. batch[t] \in SUBSET events /\ Begin(t, batch[t])
      BY <1>2 DEF NextEvent, ThreadTypes
    <2> QED BY <2>1, BeginEffect DEF Advances
  <1> QED BY <1>1, <1>2

(* A step within an event, with an outcome. *)
LEMMA GotoEffect ==
  ASSUME ThreadTypes, NEW t \in Threads, NEW p \in PCs, NEW o \in Outcome,
         Goto(t, p), outcome' = [outcome EXCEPT ![t] = o], UNCHANGED <<current, batch>>
  PROVE  Moves(t, p, current[t], batch[t], o)
  BY DEF Goto, Moves, ThreadTypes

(* A step within an event that leaves the outcome alone. *)
LEMMA GotoUnchanged ==
  ASSUME ThreadTypes, NEW t \in Threads, NEW p \in PCs,
         Goto(t, p), UNCHANGED <<current, batch, outcome>>
  PROVE  Moves(t, p, current[t], batch[t], outcome[t])
  BY DEF Goto, Moves, ThreadTypes

(* An event that ends without a proof goes to the update of its row. *)
LEMMA FinishEffect ==
  ASSUME ThreadTypes, NEW t \in Threads, NEW status \in ReqStatus,
         Finish(t, status, NoResult), UNCHANGED <<current, batch>>
  PROVE  Moves(t, "update", current[t], batch[t], [status |-> status, proof |-> NoResult])
  <1>1. "update" \in PCs
    BY DEF PCs, Working
  <1> QED BY <1>1, GotoEffect, FailureType DEF Finish

-----------------------------------------------------------------------------
(* What each step of a thread does. *)

(* The types of what threads have. *)
LEMMA WorkerTypes == ASSUME WorkerTypeOK PROVE ThreadTypes /\ LocalTypes
  BY DEF WorkerTypeOK, ThreadTypes, LocalTypes, PCs

Takes(t) ==
  /\ pc[t] = "idle" /\ queue # <<>>
  /\ Head(queue) \in SUBSET events
  /\ Begins(t, Head(queue))
  /\ queue' = Tail(queue)
  /\ UNCHANGED <<vars, platform, reqHistory, listenVars, threadLocals, crashes>>

(* The first of the queue, and what is behind it. *)
LEMMA HeadOfQueue ==
  ASSUME WorkerTypeOK, queue # <<>>
  PROVE  /\ Head(queue) = queue[1] /\ Head(queue) \in SUBSET events
         /\ Tail(queue) \in Seq(SUBSET events)
         /\ Len(queue) \in Nat \ {0} /\ Len(Tail(queue)) = Len(queue) - 1
         /\ \A k \in 1..Len(Tail(queue)) : Tail(queue)[k] = queue[k + 1]
  <1>1. queue \in Seq(SUBSET events)
    BY DEF WorkerTypeOK
  <1> QED BY <1>1

(* Taking from the queue, without nested branches. *)
LEMMA TakeEffect ==
  ASSUME WorkerTypeOK, NEW t \in Threads, TakeFromQueue(t) PROVE Takes(t)
  <1>1. /\ pc[t] = "idle" /\ queue # <<>> /\ Begin(t, Head(queue)) /\ queue' = Tail(queue)
        /\ UNCHANGED <<vars, platform, reqHistory, listenVars, threadLocals, crashes>>
    BY DEF TakeFromQueue
  <1>2. Head(queue) \in SUBSET events
    BY <1>1, HeadOfQueue
  <1>3. Begins(t, Head(queue))
    BY <1>1, <1>2, WorkerTypes, BeginEffect
  <1> QED BY <1>1, <1>2, <1>3 DEF Takes

Finds(t) ==
  /\ pc[t] = "find"
  /\ \/ reqHistory[current[t].id] # None /\ Advances(t)
     \/ /\ reqHistory[current[t].id] = None
        /\ Moves(t, "save", current[t], batch[t], outcome[t])
  /\ UNCHANGED <<vars, platform, reqHistory, listenVars, queue, threadLocals, crashes>>

(* The look-up of the row. *)
LEMMA FindEffect ==
  ASSUME WorkerTypeOK, NEW t \in Threads, Find(t) PROVE Finds(t)
  <1>1. /\ pc[t] = "find"
        /\ UNCHANGED <<vars, platform, reqHistory, listenVars, queue, threadLocals, crashes>>
    BY DEF Find
  <1>2. CASE reqHistory[current[t].id] # None
    BY <1>1, <1>2, WorkerTypes, NextEventEffect DEF Find, Finds
  <1>3. CASE reqHistory[current[t].id] = None
    <2>1. Goto(t, "save") /\ UNCHANGED <<current, batch, outcome>>
      BY <1>3 DEF Find
    <2>2. "save" \in PCs
      BY DEF PCs, Working
    <2>3. Moves(t, "save", current[t], batch[t], outcome[t])
      BY <2>1, <2>2, WorkerTypes, GotoUnchanged
    <2> QED BY <1>1, <1>3, <2>3 DEF Finds
  <1> QED BY <1>2, <1>3

(* The database: the row of id is now this one, the others stay. *)
Stores(id, row) ==
  /\ reqHistory' \in [RequestId -> DBReqHistory \cup {None}]
  /\ \A i \in RequestId : reqHistory'[i] = IF i = id THEN row ELSE reqHistory[i]

Saves(t) ==
  LET id == current[t].id
  IN  /\ pc[t] = "save"
      /\ \/ /\ reqHistory[id] # None /\ reqHistory' = reqHistory
            /\ Moves(t, "update", current[t], batch[t],
                     [status |-> "UNEXPECTED", proof |-> NoResult])
         \/ /\ reqHistory[id] = None
            /\ NewRow(current[t]) \in DBReqHistory
            /\ Stores(id, NewRow(current[t]))
            /\ Moves(t, "prove", current[t], batch[t], outcome[t])
      /\ UNCHANGED <<vars, platform, listenVars, queue, threadLocals, crashes>>

(* A new row is a row. *)
LEMMA NewRowType ==
  ASSUME WorkerTypeOK, NEW e \in RandomnessRequestEvent
  PROVE  NewRow(e) \in DBReqHistory
  <1>1. height \in Nat
    BY DEF WorkerTypeOK, TypeOK
  <1>2. e.block \in Nat
    BY DEF RandomnessRequestEvent
  <1>3. SourceType \in {"URL", "VRF"}
    BY DEF SourceType
  <1> QED BY <1>1, <1>2, <1>3 DEF NewRow, DBReqHistory, ReqStatus

(* The save of the row, which the unique index may refuse. *)
LEMMA SaveEffect ==
  ASSUME WorkerTypeOK, NEW t \in Threads, Save(t) PROVE Saves(t)
  <1> DEFINE id == current[t].id
  <1>1. /\ pc[t] = "save"
        /\ UNCHANGED <<vars, platform, listenVars, queue, current, batch, threadLocals, crashes>>
    BY DEF Save
  <1>2. pc[t] \in Working
    BY <1>1 DEF Working
  <1>3. id \in RequestId /\ current[t] \in RandomnessRequestEvent
    BY <1>2, EventType
  <1>4. CASE reqHistory[id] # None
    <2>1. Finish(t, "UNEXPECTED", NoResult) /\ UNCHANGED <<reqHistory, current, batch>>
      BY <1>1, <1>4 DEF Save
    <2>2. "UNEXPECTED" \in ReqStatus
      BY DEF ReqStatus
    <2>3. Moves(t, "update", current[t], batch[t],
                [status |-> "UNEXPECTED", proof |-> NoResult])
      BY <2>1, <2>2, WorkerTypes, FinishEffect
    <2> QED BY <1>1, <1>4, <2>1, <2>3 DEF Saves
  <1>5. CASE reqHistory[id] = None
    <2>1. /\ reqHistory' = [reqHistory EXCEPT ![id] = NewRow(current[t])]
          /\ Goto(t, "prove") /\ UNCHANGED <<current, batch, outcome>>
      BY <1>1, <1>5 DEF Save
    <2>2. "prove" \in PCs
      BY DEF PCs, Working
    <2>3. Moves(t, "prove", current[t], batch[t], outcome[t])
      BY <2>1, <2>2, WorkerTypes, GotoUnchanged
    <2>4. NewRow(current[t]) \in DBReqHistory
      BY <1>3, NewRowType
    <2>5. reqHistory \in [RequestId -> DBReqHistory \cup {None}]
      BY DEF WorkerTypeOK
    <2>6. Stores(id, NewRow(current[t]))
      BY <1>3, <2>1, <2>4, <2>5 DEF Stores
    <2> QED BY <1>1, <1>5, <2>3, <2>4, <2>6 DEF Saves
  <1> QED BY <1>4, <1>5

(* The value a thread proves. *)
Value(t) == Randomness(current[t].id, BlockHashOf(current[t]))

(* The hash the service has is one of a block. *)
LEMMA BlockHashType ==
  ASSUME NEW e, e.block \in 1..MaxBlock
  PROVE  BlockHashOf(e) \in Hashes /\ BlockHashOf(e) = e.block
  BY VRFAssumption DEF BlockHashOf, Hashes

SeedMoves(t) ==
  /\ actualSeed' \in [Threads -> Outputs \cup {None}]
  /\ \A u \in Threads : actualSeed'[u] = IF u = t THEN Value(t) ELSE actualSeed[u]

RandomnessMoves(t) ==
  /\ randomness' \in [Threads -> Outputs \cup {None}]
  /\ \A u \in Threads : randomness'[u] = IF u = t THEN Value(t) ELSE randomness[u]

(* What a thread would deliver is an output. *)
LEMMA ValueType ==
  ASSUME WorkerTypeOK, NEW t \in Threads, pc[t] \in Working
  PROVE  Value(t) \in Outputs
  <1>1. /\ current[t].id \in RequestId /\ current[t].block \in 1..MaxBlock
    BY EventType
  <1>2. BlockHashOf(current[t]) \in Hashes
    BY <1>1, BlockHashType
  <1> QED BY <1>1, <1>2 DEF Value, Randomness, Outputs

Fails(t, status) ==
  Moves(t, "update", current[t], batch[t], [status |-> status, proof |-> NoResult])

Proves(t) ==
  /\ pc[t] = "prove"
  /\ \/ Fails(t, "UNEXPECTED") /\ (UNCHANGED actualSeed \/ SeedMoves(t))
     \/ /\ Moves(t, "fulfill", current[t], batch[t], [outcome[t] EXCEPT !.proof = Value(t)])
        /\ SeedMoves(t)
  /\ UNCHANGED <<vars, platform, reqHistory, listenVars, queue, randomness, crashes>>

(* The computation of the proof, which sets the thread-locals. *)
LEMMA ProveEffect ==
  ASSUME WorkerTypeOK, NEW t \in Threads, Prove(t) PROVE Proves(t)
  <1>1. /\ pc[t] = "prove" /\ UNCHANGED <<current, batch>>
        /\ UNCHANGED <<vars, platform, reqHistory, listenVars, queue, randomness, crashes>>
    BY DEF Prove
  <1>2. Value(t) \in Outputs
    BY <1>1, ValueType DEF Working
  <1>3. ThreadTypes /\ LocalTypes
    BY WorkerTypes
  <1>4. ASSUME Finish(t, "UNEXPECTED", NoResult) PROVE Fails(t, "UNEXPECTED")
    <2>1. "UNEXPECTED" \in ReqStatus
      BY DEF ReqStatus
    <2> QED BY <1>1, <1>3, <1>4, <2>1, FinishEffect DEF Fails
  <1>5. ASSUME actualSeed' = [actualSeed EXCEPT ![t] = Value(t)] PROVE SeedMoves(t)
    BY <1>2, <1>3, <1>5 DEF SeedMoves, LocalTypes
  <1>6. ASSUME Goto(t, "fulfill"), outcome' = [outcome EXCEPT ![t].proof = Value(t)]
        PROVE  Moves(t, "fulfill", current[t], batch[t], [outcome[t] EXCEPT !.proof = Value(t)])
    <2>1. outcome[t] \in Outcome
      BY <1>3 DEF ThreadTypes
    <2>2. [outcome[t] EXCEPT !.proof = Value(t)] \in Outcome
      BY <1>2, <2>1 DEF Outcome
    <2>3. "fulfill" \in PCs
      BY DEF PCs, Working
    <2> QED BY <1>1, <1>3, <1>6, <2>2, <2>3, GotoEffect
  <1>7. \/ Finish(t, "UNEXPECTED", NoResult) /\ UNCHANGED actualSeed
        \/ /\ actualSeed' = [actualSeed EXCEPT ![t] = Value(t)]
           /\ \/ Finish(t, "UNEXPECTED", NoResult)
              \/ Goto(t, "fulfill") /\ outcome' = [outcome EXCEPT ![t].proof = Value(t)]
    BY DEF Prove, Value
  <1> QED BY <1>1, <1>4, <1>5, <1>6, <1>7 DEF Proves

(* The transaction is executed. *)
Executes(t) ==
  LET e == current[t]
  IN  /\ FulfillRandomnessRequest(e.core, e.id, e.block, BlockHashOf(e))
      /\ e.id.key = ServiceKey
      /\ events' = events /\ height' = height
      /\ \A i \in RequestId : resultMap'[i] = IF i = e.id THEN Value(t) ELSE resultMap[i]

Fulfills(t) ==
  /\ pc[t] = "fulfill"
  /\ \/ Executes(t) /\ Moves(t, "update", current[t], batch[t], outcome[t])
                    /\ RandomnessMoves(t)
     \/ /\ Executes(t) /\ UNCHANGED randomness
        /\ \E status \in NoReceiptStatus : Fails(t, status)
     \/ Fails(t, "UPLOAD_ERROR") /\ UNCHANGED <<vars, randomness>>
     \/ Fails(t, "UNEXPECTED") /\ UNCHANGED <<vars, randomness>>
  /\ UNCHANGED <<platform, reqHistory, listenVars, queue, actualSeed, crashes>>

(* The transaction to the core, with the ways it can end. *)
LEMMA FulfillStepEffect ==
  ASSUME WorkerTypeOK, NEW t \in Threads, Fulfill(t) PROVE Fulfills(t)
  <1> DEFINE e == current[t]
  <1>1. /\ pc[t] = "fulfill" /\ UNCHANGED <<current, batch>>
        /\ UNCHANGED <<platform, reqHistory, listenVars, queue, actualSeed, crashes>>
    BY DEF Fulfill
  <1>2. Value(t) \in Outputs /\ e.core \in Cores /\ e.id \in RequestId /\ e.block \in 1..MaxBlock
    BY <1>1, ValueType, EventType DEF Working
  <1>3. ThreadTypes /\ LocalTypes
    BY WorkerTypes
  <1>4. ASSUME NEW status \in ReqStatus, Finish(t, status, NoResult) PROVE Fails(t, status)
    BY <1>1, <1>3, <1>4, FinishEffect DEF Fails
  <1>5. ASSUME Fulfillable(e), FulfillRandomnessRequest(e.core, e.id, e.block, BlockHashOf(e))
        PROVE  Executes(t)
    <2>1. Fulfilled(e.core, e.id, e.block, BlockHashOf(e))
      BY <1>2, <1>5, BlockHashType, FulfillEffect DEF WorkerTypeOK
    <2>2. \A i \in RequestId :
            resultMap'[i] = IF i = e.id THEN Randomness(e.id, BlockHashOf(e)) ELSE resultMap[i]
      BY <2>1 DEF Fulfilled
    <2>3. events' = events /\ height' = height
      BY <2>1 DEF Fulfilled
    <2>4. e.id.key = ServiceKey
      BY <1>5 DEF Fulfillable
    <2> QED BY <1>5, <2>2, <2>3, <2>4 DEF Executes, Value
  <1>6. ASSUME Goto(t, "update"), UNCHANGED outcome
        PROVE  Moves(t, "update", current[t], batch[t], outcome[t])
    <2>1. "update" \in PCs
      BY DEF PCs, Working
    <2> QED BY <1>1, <1>3, <1>6, <2>1, GotoUnchanged
  <1>7. ASSUME randomness' = [randomness EXCEPT ![t] = Value(t)] PROVE RandomnessMoves(t)
    BY <1>2, <1>3, <1>7 DEF RandomnessMoves, LocalTypes
  <1>8. /\ "UNEXPECTED" \in ReqStatus /\ "UPLOAD_ERROR" \in ReqStatus
        /\ NoReceiptStatus \subseteq {"UNEXPECTED", "UPLOAD_ERROR"}
    BY DEF ReqStatus, NoReceiptStatus
  <1>9. \/ /\ Fulfillable(e)
           /\ FulfillRandomnessRequest(e.core, e.id, e.block, BlockHashOf(e))
           /\ \/ /\ Goto(t, "update") /\ UNCHANGED outcome
                 /\ randomness' = [randomness EXCEPT ![t] = Value(t)]
              \/ /\ \E status \in NoReceiptStatus : Finish(t, status, NoResult)
                 /\ UNCHANGED randomness
        \/ Finish(t, "UPLOAD_ERROR", NoResult) /\ UNCHANGED <<vars, randomness>>
        \/ /\ \E status \in NoReceiptStatus : Finish(t, status, NoResult)
           /\ UNCHANGED <<vars, randomness>>
    BY DEF Fulfill, Value
  <1> HIDE DEF e
  <1> QED BY <1>1, <1>4, <1>5, <1>6, <1>7, <1>8, <1>9 DEF Fulfills

Updates(t) ==
  LET id == current[t].id
  IN  /\ pc[t] = "update"
      /\ \/ reqHistory[id] = None /\ reqHistory' = reqHistory
         \/ /\ reqHistory[id] # None
            /\ Updated(t, reqHistory[id]) \in DBReqHistory
            /\ Stores(id, Updated(t, reqHistory[id]))
      /\ Advances(t)
      /\ UNCHANGED <<vars, platform, listenVars, queue, threadLocals, crashes>>

(* An updated row is a row with the outcome of the thread. *)
LEMMA UpdatedType ==
  ASSUME ThreadTypes, LocalTypes, NEW t \in Threads, NEW row \in DBReqHistory
  PROVE  /\ Updated(t, row) \in DBReqHistory
         /\ Updated(t, row).block = row.block
         /\ Updated(t, row).sourceType = row.sourceType
         /\ Updated(t, row).status = outcome[t].status
         /\ Updated(t, row).proof = outcome[t].proof
         /\ row.sourceType = "VRF" =>
              /\ Updated(t, row).actualSeed = actualSeed[t]
              /\ Updated(t, row).randomness = randomness[t]
  <1>1. outcome[t].status \in ReqStatus /\ outcome[t].proof \in Outputs \cup {NoResult}
    BY DEF ThreadTypes, Outcome
  <1>2. actualSeed[t] \in Outputs \cup {None} /\ randomness[t] \in Outputs \cup {None}
    BY DEF LocalTypes
  <1> QED BY <1>1, <1>2 DEF Updated, DBReqHistory

(* The update of the row and what the thread does next. *)
LEMMA UpdateEffect ==
  ASSUME WorkerTypeOK, NEW t \in Threads, Update(t) PROVE Updates(t)
  <1> DEFINE id == current[t].id
  <1>1. /\ pc[t] = "update" /\ NextEvent(t)
        /\ UNCHANGED <<vars, platform, listenVars, queue, threadLocals, crashes>>
        /\ reqHistory' = IF reqHistory[id] = None THEN reqHistory
                         ELSE [reqHistory EXCEPT ![id] = Updated(t, @)]
    BY DEF Update
  <1>2. ThreadTypes /\ LocalTypes
    BY WorkerTypes
  <1>3. Advances(t)
    BY <1>1, <1>2, NextEventEffect
  <1>4. reqHistory \in [RequestId -> DBReqHistory \cup {None}]
    BY DEF WorkerTypeOK
  <1>5. id \in RequestId
    BY <1>1, EventType DEF Working
  <1>6. CASE reqHistory[id] = None
    BY <1>1, <1>3, <1>6 DEF Updates
  <1>7. CASE reqHistory[id] # None
    <2>1. reqHistory[id] \in DBReqHistory
      BY <1>4, <1>5, <1>7
    <2>2. Updated(t, reqHistory[id]) \in DBReqHistory
      BY <1>2, <2>1, UpdatedType
    <2>3. Stores(id, Updated(t, reqHistory[id]))
      BY <1>1, <1>4, <1>5, <1>7, <2>2 DEF Stores
    <2> QED BY <1>1, <1>3, <1>7, <2>2, <2>3 DEF Updates
  <1> QED BY <1>6, <1>7

-----------------------------------------------------------------------------
(* The steps, by who takes them. *)
LEMMA StepCases ==
  ASSUME WorkerTypeOK, WorkerNext,
         NEW ACTION P,
         ASSUME ChainStep PROVE P,
         ASSUME NEW core \in Cores, Listen(core) PROVE P,
         ASSUME NEW core \in Cores, PushLogs(core) PROVE P,
         ASSUME Crash PROVE P,
         ASSUME NEW t \in Threads, Takes(t) PROVE P,
         ASSUME NEW t \in Threads, Finds(t) PROVE P,
         ASSUME NEW t \in Threads, Saves(t) PROVE P,
         ASSUME NEW t \in Threads, Proves(t) PROVE P,
         ASSUME NEW t \in Threads, Fulfills(t) PROVE P,
         ASSUME NEW t \in Threads, Updates(t) PROVE P
  PROVE  P
  <1>1. ASSUME NEW t \in Threads, TakeFromQueue(t) \/ ProcessLogs(t)
        PROVE  P
    BY <1>1, TakeEffect, FindEffect, SaveEffect, ProveEffect, FulfillStepEffect, UpdateEffect
       DEF ProcessLogs
  <1> QED BY <1>1 DEF WorkerNext

(* Every step is one that the contracts allow, or leaves them alone. *)
LEMMA StepOnChain ==
  ASSUME Inv, WorkerTypeOK, [WorkerNext]_systemVars
  PROVE  [Next]_vars
  <1>1. ASSUME NEW t \in Threads, Fulfills(t)
        PROVE  [Next]_vars
    <2>1. CASE Executes(t)
      <3>1. pc[t] \in Working
        BY <1>1 DEF Fulfills, Working
      <3>2. /\ current[t].core \in Cores /\ current[t].id \in RequestId
            /\ current[t].block \in 1..MaxBlock
        BY <3>1, EventType
      <3>3. BlockHashOf(current[t]) \in Hashes
        BY <3>2, BlockHashType
      <3> QED BY <2>1, <3>2, <3>3 DEF Executes, Next
    <2>2. CASE UNCHANGED vars
      BY <2>2
    <2> QED BY <1>1, <2>1, <2>2 DEF Fulfills
  <1>2. CASE WorkerNext
    BY <1>1, <1>2, StepCases, ChainStepEffect
       DEF Listen, PushLogs, Crash, Takes, Finds, Saves, Proves, Updates
  <1> QED BY <1>2 DEF systemVars

(* A step of the composition keeps the invariant of the contracts. *)
LEMMA InvWorkerStep ==
  ASSUME Inv, WorkerTypeOK, [WorkerNext]_systemVars
  PROVE  Inv' /\ ChainGrows
  BY StepOnChain, InvStep, ChainGrowsStep

-----------------------------------------------------------------------------
(* Types. *)

ServiceTypes ==
  /\ platform \in Platforms
  /\ reqHistory \in [RequestId -> DBReqHistory \cup {None}]
  /\ fromBlock \in [Cores -> 0..MaxBlock + 1]
  /\ cursor \in [Cores -> 0..MaxBlock + 1]
  /\ queue \in Seq(SUBSET events)
  /\ crashes \in 0..MaxCrashes

BusyWithEvent == \A t \in Threads : current[t] # None <=> pc[t] \in Working

(* The types of the composition, part by part. *)
LEMMA TypesOfParts ==
  ASSUME WorkerTypeOK PROVE ServiceTypes /\ BusyWithEvent
  BY DEF WorkerTypeOK, ServiceTypes, BusyWithEvent

(* The parts of the next state make up its types. *)
LEMMA PartsOfTypes ==
  ASSUME TypeOK', ThreadTypes', LocalTypes', ServiceTypes', BusyWithEvent'
  PROVE  WorkerTypeOK'
  BY DEF WorkerTypeOK, ThreadTypes, LocalTypes, ServiceTypes, BusyWithEvent, PCs

(* One thread moves, with an event exactly if it goes on working. *)
LEMMA MovesTypes ==
  ASSUME WorkerTypeOK, NEW t \in Threads, NEW p, NEW e, NEW b, NEW o,
         Moves(t, p, e, b, o), events' = events, e # None <=> p \in Working
  PROVE  ThreadTypes' /\ BusyWithEvent'
  <1>1. ThreadTypes'
    BY DEF Moves, ThreadTypes
  <1>2. BusyWithEvent
    BY TypesOfParts
  <1>3. ASSUME NEW u \in Threads PROVE current'[u] # None <=> pc'[u] \in Working
    BY <1>2 DEF Moves, BusyWithEvent
  <1> QED BY <1>1, <1>3 DEF BusyWithEvent

(* An event is told from having none. *)
LEMMA EventIsNotNone == ASSUME WorkerTypeOK PROVE \A e \in events : e # None
  BY WorkerNoneAssumption DEF WorkerTypeOK, TypeOK

(* Beginning with an event keeps the types. *)
LEMMA BeginsTypes ==
  ASSUME WorkerTypeOK, NEW t \in Threads, NEW pushed \in SUBSET events,
         Begins(t, pushed), events' = events
  PROVE  ThreadTypes' /\ BusyWithEvent'
  <1>1. PICK e \in pushed : Moves(t, "find", e, pushed \ {e}, Success)
    BY DEF Begins
  <1>2. e # None /\ "find" \in Working
    BY EventIsNotNone DEF Working
  <1> QED BY <1>1, <1>2, MovesTypes

(* Going on to the next event keeps the types. *)
LEMMA AdvancesTypes ==
  ASSUME WorkerTypeOK, NEW t \in Threads, Advances(t), events' = events
  PROVE  ThreadTypes' /\ BusyWithEvent'
  <1>1. batch[t] \in SUBSET events
    BY WorkerTypes DEF ThreadTypes
  <1>2. "idle" \notin Working
    BY DEF Working
  <1> QED BY <1>1, <1>2, MovesTypes, BeginsTypes DEF Advances

(* A thread stays with its event. *)
LEMMA StaysTypes ==
  ASSUME WorkerTypeOK, NEW t \in Threads, pc[t] \in Working, NEW p \in Working, NEW o,
         Moves(t, p, current[t], batch[t], o), events' = events
  PROVE  ThreadTypes' /\ BusyWithEvent'
  BY EventType, MovesTypes

(* Every step keeps the types. *)
LEMMA WorkerTypeStep ==
  ASSUME Inv, WorkerTypeOK, [WorkerNext]_systemVars
  PROVE  WorkerTypeOK'
  <1> USE DEF threadVars, threadLocals, listenVars
  <1>1. TypeOK /\ TypeOK' /\ ThreadTypes /\ LocalTypes /\ ServiceTypes /\ BusyWithEvent
    BY InvWorkerStep, WorkerTypes, TypesOfParts DEF Inv
  <1>2. /\ events \subseteq events'
        /\ SUBSET events \subseteq SUBSET events'
    BY InvWorkerStep DEF ChainGrows
  <1>3. MaxBlock \in Nat /\ MaxCrashes \in Nat /\ height \in 1..MaxBlock
    BY <1>1, VRFAssumption, WorkerAssumption DEF TypeOK
  <1>4. ASSUME UNCHANGED <<pc, current, batch, outcome>>
        PROVE  ThreadTypes' /\ BusyWithEvent'
    BY <1>1, <1>2, <1>4 DEF ThreadTypes, BusyWithEvent
  <1>5. ASSUME UNCHANGED <<actualSeed, randomness>> PROVE LocalTypes'
    BY <1>1, <1>5 DEF LocalTypes
  <1>6. queue \in Seq(SUBSET events')
    BY <1>1, <1>2 DEF ServiceTypes
  <1>7. ASSUME UNCHANGED <<platform, reqHistory, fromBlock, cursor, queue, crashes>>
        PROVE  ServiceTypes'
    BY <1>1, <1>6, <1>7 DEF ServiceTypes
  <1>8. ASSUME UNCHANGED workerVars PROVE WorkerTypeOK'
    BY <1>1, <1>4, <1>5, <1>7, <1>8, PartsOfTypes DEF workerVars
  <1>9. ASSUME NEW core \in Cores, Listen(core) PROVE WorkerTypeOK'
    <2>1. PICK from \in 1..MaxBlock + 1 :
            /\ fromBlock' = [fromBlock EXCEPT ![core] = from]
            /\ cursor' = [cursor EXCEPT ![core] = from]
      BY <1>9 DEF Listen
    <2>2. UNCHANGED <<platform, reqHistory, queue, crashes, pc, current, batch, outcome,
                      actualSeed, randomness>>
      BY <1>9 DEF Listen
    <2>3. from \in 0..MaxBlock + 1
      BY <1>3
    <2>4. ServiceTypes'
      BY <1>1, <1>6, <2>1, <2>2, <2>3 DEF ServiceTypes
    <2> QED BY <1>1, <1>4, <1>5, <2>2, <2>4, PartsOfTypes
  <1>10. ASSUME NEW core \in Cores, PushLogs(core) PROVE WorkerTypeOK'
    <2> DEFINE pushed == {e \in events : e.core = core /\ e.block = cursor[core]}
    <2>1. /\ 0 < cursor[core] /\ cursor[core] < height
          /\ cursor' = [cursor EXCEPT ![core] = @ + 1]
          /\ queue' = queue \/ queue' = Append(queue, pushed)
          /\ UNCHANGED <<vars, platform, reqHistory, fromBlock, crashes, pc, current, batch,
                         outcome, actualSeed, randomness>>
      BY <1>10 DEF PushLogs
    <2>2. cursor[core] + 1 \in 0..MaxBlock + 1
      BY <1>1, <1>3, <2>1 DEF ServiceTypes
    <2>3. cursor' \in [Cores -> 0..MaxBlock + 1]
      BY <1>1, <2>1, <2>2 DEF ServiceTypes
    <2>4. pushed \in SUBSET events'
      BY <1>2
    <2> HIDE DEF pushed
    <2>5. queue' \in Seq(SUBSET events')
      BY <1>6, <2>1, <2>4
    <2>6. ServiceTypes'
      BY <1>1, <2>1, <2>3, <2>5 DEF ServiceTypes
    <2> QED BY <1>1, <1>4, <1>5, <2>1, <2>6, PartsOfTypes
  <1>11. ASSUME Crash PROVE WorkerTypeOK'
    <2>1. /\ fromBlock' = [core \in Cores |-> 0] /\ cursor' = [core \in Cores |-> 0]
          /\ queue' = <<>> /\ crashes' = crashes + 1 /\ crashes < MaxCrashes
          /\ UNCHANGED <<platform, reqHistory>>
      BY <1>11 DEF Crash
    <2>2. /\ pc' = [t \in Threads |-> "idle"] /\ current' = [t \in Threads |-> None]
          /\ batch' = [t \in Threads |-> {}] /\ outcome' = [t \in Threads |-> Success]
          /\ actualSeed' = [t \in Threads |-> None] /\ randomness' = [t \in Threads |-> None]
      BY <1>11 DEF Crash
    <2>3. crashes' \in 0..MaxCrashes
      BY <1>1, <1>3, <2>1 DEF ServiceTypes
    <2>4. ServiceTypes'
      BY <1>1, <1>3, <2>1, <2>3 DEF ServiceTypes
    <2>5. ThreadTypes' /\ BusyWithEvent' /\ LocalTypes'
      BY <2>2, SuccessType DEF ThreadTypes, BusyWithEvent, LocalTypes, PCs, Working
    <2> QED BY <1>1, <2>4, <2>5, PartsOfTypes
  <1>12. ASSUME NEW t \in Threads, Takes(t) PROVE WorkerTypeOK'
    <2>1. /\ Begins(t, Head(queue)) /\ queue # <<>> /\ queue' = Tail(queue)
          /\ events' = events
          /\ UNCHANGED <<platform, reqHistory, fromBlock, cursor, crashes, actualSeed, randomness>>
      BY <1>12 DEF Takes, vars, coreVars
    <2>2. Head(queue) \in SUBSET events /\ queue' \in Seq(SUBSET events')
      BY <2>1, HeadOfQueue
    <2>3. ServiceTypes'
      BY <1>1, <2>1, <2>2 DEF ServiceTypes
    <2> QED BY <1>1, <1>5, <2>1, <2>2, <2>3, BeginsTypes, PartsOfTypes
  <1>13. ASSUME NEW t \in Threads, Finds(t) PROVE WorkerTypeOK'
    <2>1. /\ pc[t] = "find" /\ events' = events
          /\ UNCHANGED <<platform, reqHistory, fromBlock, cursor, queue, crashes, actualSeed,
                         randomness>>
          /\ Advances(t) \/ Moves(t, "save", current[t], batch[t], outcome[t])
      BY <1>13 DEF Finds, vars, coreVars
    <2>2. ThreadTypes' /\ BusyWithEvent'
      BY <2>1, AdvancesTypes, StaysTypes DEF Working
    <2> QED BY <1>1, <1>5, <1>7, <2>1, <2>2, PartsOfTypes
  <1>14. ASSUME NEW t \in Threads, Saves(t) PROVE WorkerTypeOK'
    <2>1. /\ pc[t] = "save" /\ events' = events
          /\ UNCHANGED <<platform, fromBlock, cursor, queue, crashes, actualSeed, randomness>>
          /\ reqHistory' \in [RequestId -> DBReqHistory \cup {None}]
          /\ \/ Moves(t, "update", current[t], batch[t],
                      [status |-> "UNEXPECTED", proof |-> NoResult])
             \/ Moves(t, "prove", current[t], batch[t], outcome[t])
      BY <1>1, <1>14 DEF Saves, Stores, vars, coreVars, ServiceTypes
    <2>2. ThreadTypes' /\ BusyWithEvent'
      BY <2>1, StaysTypes DEF Working
    <2>3. ServiceTypes'
      BY <1>1, <1>6, <2>1 DEF ServiceTypes
    <2> QED BY <1>1, <1>5, <2>1, <2>2, <2>3, PartsOfTypes
  <1>15. ASSUME NEW t \in Threads, Proves(t) PROVE WorkerTypeOK'
    <2>1. /\ pc[t] = "prove" /\ events' = events
          /\ UNCHANGED <<platform, reqHistory, fromBlock, cursor, queue, crashes, randomness>>
          /\ actualSeed' \in [Threads -> Outputs \cup {None}]
          /\ \/ Fails(t, "UNEXPECTED")
             \/ Moves(t, "fulfill", current[t], batch[t], [outcome[t] EXCEPT !.proof = Value(t)])
      BY <1>1, <1>15 DEF Proves, SeedMoves, vars, coreVars, LocalTypes
    <2>2. ThreadTypes' /\ BusyWithEvent'
      BY <2>1, StaysTypes DEF Working, Fails
    <2>3. LocalTypes'
      BY <1>1, <2>1 DEF LocalTypes
    <2> QED BY <1>1, <1>7, <2>1, <2>2, <2>3, PartsOfTypes
  <1>16. ASSUME NEW t \in Threads, Fulfills(t) PROVE WorkerTypeOK'
    <2>1. /\ pc[t] = "fulfill" /\ events' = events
          /\ UNCHANGED <<platform, reqHistory, fromBlock, cursor, queue, crashes, actualSeed>>
          /\ randomness' \in [Threads -> Outputs \cup {None}]
          /\ \/ Fails(t, "UNEXPECTED") \/ Fails(t, "UPLOAD_ERROR")
             \/ Moves(t, "update", current[t], batch[t], outcome[t])
      BY <1>1, <1>16
         DEF Fulfills, Executes, RandomnessMoves, vars, coreVars, LocalTypes, NoReceiptStatus
    <2>2. ThreadTypes' /\ BusyWithEvent'
      BY <2>1, StaysTypes DEF Working, Fails
    <2>3. LocalTypes'
      BY <1>1, <2>1 DEF LocalTypes
    <2> QED BY <1>1, <1>7, <2>1, <2>2, <2>3, PartsOfTypes
  <1>17. ASSUME NEW t \in Threads, Updates(t) PROVE WorkerTypeOK'
    <2>1. /\ Advances(t) /\ events' = events
          /\ UNCHANGED <<platform, fromBlock, cursor, queue, crashes, actualSeed, randomness>>
          /\ reqHistory' \in [RequestId -> DBReqHistory \cup {None}]
      BY <1>1, <1>17 DEF Updates, Stores, vars, coreVars, ServiceTypes
    <2>2. ThreadTypes' /\ BusyWithEvent'
      BY <2>1, AdvancesTypes
    <2>3. ServiceTypes'
      BY <1>1, <1>6, <2>1 DEF ServiceTypes
    <2> QED BY <1>1, <1>5, <2>1, <2>2, <2>3, PartsOfTypes
  <1>18. ASSUME ChainStep PROVE WorkerTypeOK'
    BY <1>1, <1>8, <1>18, ChainStepEffect DEF Inv
  <1>19. CASE WorkerNext
    BY <1>19, <1>9, <1>10, <1>11, <1>12, <1>13, <1>14, <1>15, <1>16, <1>17, <1>18, StepCases
  <1>20. CASE UNCHANGED systemVars
    BY <1>8, <1>20 DEF systemVars
  <1> QED BY <1>19, <1>20

-----------------------------------------------------------------------------
(* What threads and rows tell of a request. *)

(* What a thread has at hand fits what it is about to do: it has nothing    *)
(* left when it rests, one that goes to update with SUCCESS has the         *)
(* randomness the consumer was given, its seed included, and from save on   *)
(* the request has a row.                                                   *)
ThreadTells(t) ==
  /\ pc[t] = "idle" => batch[t] = {}
  /\ pc[t] \in {"find", "save", "prove"} => outcome[t] = Success
  /\ pc[t] = "fulfill" =>
       /\ outcome[t].status = "SUCCESS" /\ outcome[t].proof = Value(t)
       /\ actualSeed[t] = Value(t)
  /\ pc[t] = "update" =>
       \/ /\ outcome[t].status = "SUCCESS" /\ outcome[t].proof \in Outputs
          /\ outcome[t].proof = resultMap[current[t].id]
          /\ actualSeed[t] = outcome[t].proof /\ randomness[t] = outcome[t].proof
       \/ outcome[t].status # "SUCCESS" /\ outcome[t].proof = NoResult
  /\ pc[t] \in {"prove", "fulfill", "update"} => reqHistory[current[t].id] # None

(* A row is new, tells what the consumer was given, or tells of a failure.  *)
RowTells(id) ==
  LET row == reqHistory[id]
  IN  row # None =>
        \/ row.proof = None
        \/ /\ row.status = "SUCCESS" /\ row.proof \in Outputs /\ row.proof = resultMap[id]
           /\ row.sourceType = "VRF" =>
                row.actualSeed = row.proof /\ row.randomness = row.proof
        \/ row.status # "SUCCESS" /\ row.proof = NoResult

Tells == (\A t \in Threads : ThreadTells(t)) /\ (\A id \in RequestId : RowTells(id))

(* No row is deleted. *)
RowsStay == \A id \in RequestId : reqHistory[id] # None => reqHistory'[id] # None

(* No step removes a row. *)
LEMMA RowsStayStep ==
  ASSUME WorkerTypeOK, [WorkerNext]_systemVars
  PROVE  RowsStay
  <1>1. ASSUME reqHistory' = reqHistory PROVE RowsStay
    BY <1>1 DEF RowsStay
  <1>2. ASSUME NEW i, NEW row \in DBReqHistory, Stores(i, row) PROVE RowsStay
    BY <1>2, WorkerNoneAssumption DEF Stores, RowsStay
  <1>3. ASSUME NEW t \in Threads, Saves(t) PROVE RowsStay
    BY <1>1, <1>2, <1>3 DEF Saves
  <1>4. ASSUME NEW t \in Threads, Updates(t) PROVE RowsStay
    BY <1>1, <1>2, <1>4 DEF Updates
  <1>5. ASSUME ChainStep PROVE RowsStay
    BY <1>1, <1>5 DEF ChainStep, workerVars
  <1>6. CASE WorkerNext
    BY <1>1, <1>3, <1>4, <1>5, <1>6, StepCases
       DEF Listen, PushLogs, Crash, Takes, Finds, Proves, Fulfills
  <1>7. CASE UNCHANGED systemVars
    BY <1>1, <1>7 DEF systemVars, workerVars
  <1> QED BY <1>6, <1>7

(* A thread that does not move goes on telling the truth. *)
LEMMA StillTells ==
  ASSUME WorkerTypeOK, ChainGrows, RowsStay, NEW u \in Threads, ThreadTells(u),
         pc'[u] = pc[u], current'[u] = current[u], batch'[u] = batch[u],
         outcome'[u] = outcome[u], actualSeed'[u] = actualSeed[u],
         randomness'[u] = randomness[u]
  PROVE  ThreadTells(u)'
  <1>1. pc[u] \in {"prove", "fulfill", "update"} => current[u].id \in RequestId
    BY EventType DEF Working
  <1>2. Value(u)' = Value(u)
    BY DEF Value
  <1>3. None \notin Outputs
    BY VRFNoneAssumption
  <1> QED BY <1>1, <1>2, <1>3 DEF ThreadTells, ChainGrows, RowsStay

(* When one thread moves, what the others have in hand stays right. *)
LEMMA OthersTell ==
  ASSUME WorkerTypeOK, ChainGrows, RowsStay, Tells,
         NEW t \in Threads, NEW p, NEW e, NEW b, NEW o, Moves(t, p, e, b, o),
         \A u \in Threads : u # t =>
           actualSeed'[u] = actualSeed[u] /\ randomness'[u] = randomness[u],
         ThreadTells(t)'
  PROVE  \A u \in Threads : ThreadTells(u)'
  <1> SUFFICES ASSUME NEW u \in Threads, u # t PROVE ThreadTells(u)'
    OBVIOUS
  <1>1. /\ pc'[u] = pc[u] /\ current'[u] = current[u]
        /\ batch'[u] = batch[u] /\ outcome'[u] = outcome[u]
    BY DEF Moves
  <1> QED BY <1>1, StillTells DEF Tells

(* A row nobody writes stays right. *)
LEMMA RowStillTells ==
  ASSUME ChainGrows, NEW id \in RequestId, RowTells(id), reqHistory'[id] = reqHistory[id]
  PROVE  RowTells(id)'
  BY VRFNoneAssumption DEF RowTells, ChainGrows

(* A thread that begins with an event has nothing wrong in hand. *)
LEMMA BeginsTell ==
  ASSUME WorkerTypeOK, ChainGrows, RowsStay, Tells, NEW t \in Threads, NEW pushed,
         Begins(t, pushed), UNCHANGED <<actualSeed, randomness>>
  PROVE  \A u \in Threads : ThreadTells(u)'
  <1>1. PICK e \in pushed : Moves(t, "find", e, pushed \ {e}, Success)
    BY DEF Begins
  <1>2. ThreadTells(t)'
    BY <1>1 DEF Moves, ThreadTells
  <1> QED BY <1>1, <1>2, OthersTell

(* Neither has one that goes on to the next. *)
LEMMA AdvancesTell ==
  ASSUME WorkerTypeOK, ChainGrows, RowsStay, Tells, NEW t \in Threads,
         Advances(t), UNCHANGED <<actualSeed, randomness>>
  PROVE  \A u \in Threads : ThreadTells(u)'
  <1>1. CASE Moves(t, "idle", None, {}, Success)
    <2>1. ThreadTells(t)'
      BY <1>1 DEF Moves, ThreadTells
    <2> QED BY <1>1, <2>1, OthersTell
  <1> QED BY <1>1, BeginsTell DEF Advances

(* A thread whose step fails has nothing to tell. *)
LEMMA FailsTell ==
  ASSUME WorkerTypeOK, ChainGrows, RowsStay, Tells, NEW t \in Threads, pc[t] \in Working,
         NEW status \in ReqStatus \ {"SUCCESS"}, Fails(t, status),
         reqHistory[current[t].id] # None,
         \A u \in Threads : u # t =>
           actualSeed'[u] = actualSeed[u] /\ randomness'[u] = randomness[u]
  PROVE  \A u \in Threads : ThreadTells(u)'
  <1>1. Moves(t, "update", current[t], batch[t], [status |-> status, proof |-> NoResult])
    BY DEF Fails
  <1>2. current[t].id \in RequestId
    BY EventType
  <1>3. reqHistory'[current[t].id] # None
    BY <1>2 DEF RowsStay
  <1>4. ThreadTells(t)'
    BY <1>1, <1>3 DEF Moves, ThreadTells
  <1> QED BY <1>1, <1>4, OthersTell

(* Every step keeps rows and threads telling what happened. *)
LEMMA TellsStep ==
  ASSUME Inv, WorkerTypeOK, Tells, [WorkerNext]_systemVars
  PROVE  Tells'
  <1> USE DEF threadVars, threadLocals, listenVars
  <1>1. ChainGrows /\ RowsStay
    BY InvWorkerStep, RowsStayStep
  <1>2. ASSUME reqHistory' = reqHistory PROVE \A id \in RequestId : RowTells(id)'
    BY <1>1, <1>2, RowStillTells DEF Tells
  <1>3. ASSUME UNCHANGED <<pc, current, batch, outcome, actualSeed, randomness>>
        PROVE  \A t \in Threads : ThreadTells(t)'
    BY <1>1, <1>3, StillTells DEF Tells
  <1>4. ASSUME UNCHANGED workerVars PROVE Tells'
    BY <1>2, <1>3, <1>4 DEF workerVars, Tells
  <1>5. ASSUME NEW core \in Cores, Listen(core) \/ PushLogs(core) PROVE Tells'
    BY <1>2, <1>3, <1>5 DEF Listen, PushLogs, Tells
  <1>6. ASSUME Crash PROVE Tells'
    <2>1. \A t \in Threads : ThreadTells(t)'
      BY <1>6 DEF Crash, ThreadTells
    <2> QED BY <1>2, <1>6, <2>1 DEF Crash, Tells
  <1>7. ASSUME NEW t \in Threads, Takes(t) PROVE Tells'
    <2>1. \A u \in Threads : ThreadTells(u)'
      BY <1>1, <1>7, BeginsTell DEF Takes
    <2> QED BY <1>2, <1>7, <2>1 DEF Takes, Tells
  <1>8. ASSUME NEW t \in Threads, Finds(t) PROVE Tells'
    <2>1. CASE Advances(t)
      BY <1>1, <1>2, <1>8, <2>1, AdvancesTell DEF Finds, Tells
    <2>2. CASE Moves(t, "save", current[t], batch[t], outcome[t])
      <3>1. outcome[t] = Success
        BY <1>8 DEF Finds, Tells, ThreadTells
      <3>2. ThreadTells(t)'
        BY <2>2, <3>1 DEF Moves, ThreadTells
      <3>3. \A u \in Threads : ThreadTells(u)'
        BY <1>1, <1>8, <2>2, <3>2, OthersTell DEF Finds
      <3> QED BY <1>2, <1>8, <3>3 DEF Finds, Tells
    <2> QED BY <1>8, <2>1, <2>2 DEF Finds
  <1>9. ASSUME NEW t \in Threads, Saves(t) PROVE Tells'
    <2>1. pc[t] = "save" /\ pc[t] \in Working /\ UNCHANGED <<actualSeed, randomness>>
      BY <1>9 DEF Saves, Working
    <2>2. PICK id \in RequestId : id = current[t].id
      BY <2>1, EventType
    <2>3. CASE reqHistory[id] # None
      <3>1. Fails(t, "UNEXPECTED") /\ reqHistory' = reqHistory
        BY <1>9, <2>2, <2>3 DEF Saves, Fails
      <3>2. "UNEXPECTED" \in ReqStatus \ {"SUCCESS"}
        BY DEF ReqStatus
      <3>3. \A u \in Threads : ThreadTells(u)'
        BY <1>1, <2>1, <2>2, <2>3, <3>1, <3>2, FailsTell
      <3> QED BY <1>2, <3>1, <3>3 DEF Tells
    <2>4. CASE reqHistory[id] = None
      <3>1. /\ NewRow(current[t]) \in DBReqHistory
            /\ Stores(id, NewRow(current[t]))
            /\ Moves(t, "prove", current[t], batch[t], outcome[t])
        BY <1>9, <2>2, <2>4 DEF Saves
      <3>2. reqHistory'[id] = NewRow(current[t]) /\ reqHistory'[id] # None
        BY <2>2, <3>1, WorkerNoneAssumption DEF Stores
      <3>3. outcome[t] = Success
        BY <2>1 DEF Tells, ThreadTells
      <3>4. ThreadTells(t)'
        BY <2>2, <3>1, <3>2, <3>3 DEF Moves, ThreadTells
      <3>5. \A u \in Threads : ThreadTells(u)'
        BY <1>1, <2>1, <3>1, <3>4, OthersTell
      <3>6. RowTells(id)'
        BY <3>2 DEF RowTells, NewRow
      <3>7. ASSUME NEW i \in RequestId, i # id PROVE RowTells(i)'
        <4>1. reqHistory'[i] = reqHistory[i]
          BY <3>1, <3>7 DEF Stores
        <4> QED BY <1>1, <4>1, RowStillTells DEF Tells
      <3> QED BY <3>5, <3>6, <3>7 DEF Tells
    <2> QED BY <2>3, <2>4
  <1>10. ASSUME NEW t \in Threads, Proves(t) PROVE Tells'
    <2>1. /\ pc[t] = "prove" /\ pc[t] \in Working
          /\ reqHistory' = reqHistory /\ randomness' = randomness
          /\ \A u \in Threads : u # t => actualSeed'[u] = actualSeed[u]
      BY <1>10 DEF Proves, Working, SeedMoves
    <2>2. reqHistory[current[t].id] # None /\ outcome[t] = Success
      BY <2>1 DEF Tells, ThreadTells
    <2>3. CASE Fails(t, "UNEXPECTED")
      <3>1. "UNEXPECTED" \in ReqStatus \ {"SUCCESS"}
        BY DEF ReqStatus
      <3>2. \A u \in Threads : ThreadTells(u)'
        BY <1>1, <2>1, <2>2, <2>3, <3>1, FailsTell
      <3> QED BY <1>2, <2>1, <3>2 DEF Tells
    <2>4. CASE Moves(t, "fulfill", current[t], batch[t], [outcome[t] EXCEPT !.proof = Value(t)])
               /\ SeedMoves(t)
      <3>1. /\ pc'[t] = "fulfill" /\ current'[t] = current[t]
            /\ outcome'[t] = [outcome[t] EXCEPT !.proof = Value(t)]
            /\ actualSeed'[t] = Value(t)
        BY <2>4 DEF Moves, SeedMoves
      <3>2. outcome'[t].status = "SUCCESS" /\ outcome'[t].proof = Value(t)
        BY <2>2, <3>1 DEF Success
      <3>3. Value(t)' = Value(t)
        BY <3>1 DEF Value
      <3>4. ThreadTells(t)'
        BY <2>1, <2>2, <3>1, <3>2, <3>3 DEF ThreadTells
      <3>5. \A u \in Threads : ThreadTells(u)'
        BY <1>1, <2>1, <2>4, <3>4, OthersTell
      <3> QED BY <1>2, <2>1, <3>5 DEF Tells
    <2> QED BY <1>10, <2>3, <2>4 DEF Proves
  <1>11. ASSUME NEW t \in Threads, Fulfills(t) PROVE Tells'
    <2>1. /\ pc[t] = "fulfill" /\ pc[t] \in Working
          /\ reqHistory' = reqHistory /\ actualSeed' = actualSeed
          /\ \A u \in Threads : u # t => randomness'[u] = randomness[u]
      BY <1>11 DEF Fulfills, Working, RandomnessMoves
    <2>2. /\ reqHistory[current[t].id] # None
          /\ outcome[t].status = "SUCCESS" /\ outcome[t].proof = Value(t)
          /\ actualSeed[t] = Value(t)
      BY <2>1 DEF Tells, ThreadTells
    <2>3. ASSUME NEW status \in {"UNEXPECTED", "UPLOAD_ERROR"}, Fails(t, status) PROVE Tells'
      <3>1. status \in ReqStatus \ {"SUCCESS"}
        BY DEF ReqStatus
      <3>2. \A u \in Threads : ThreadTells(u)'
        BY <1>1, <2>1, <2>2, <2>3, <3>1, FailsTell
      <3> QED BY <1>2, <2>1, <3>2 DEF Tells
    <2>4. CASE Executes(t) /\ Moves(t, "update", current[t], batch[t], outcome[t])
                           /\ RandomnessMoves(t)
      <3>1. /\ pc'[t] = "update" /\ current'[t] = current[t] /\ outcome'[t] = outcome[t]
            /\ randomness'[t] = Value(t)
        BY <2>4 DEF Moves, RandomnessMoves
      <3>2. Value(t) \in Outputs /\ current[t].id \in RequestId
        BY <2>1, ValueType, EventType
      <3>3. resultMap'[current[t].id] = Value(t)
        BY <2>4, <3>2 DEF Executes
      <3>4. ThreadTells(t)'
        BY <2>1, <2>2, <3>1, <3>2, <3>3 DEF ThreadTells
      <3>5. \A u \in Threads : ThreadTells(u)'
        BY <1>1, <2>1, <2>4, <3>4, OthersTell
      <3> QED BY <1>2, <2>1, <3>5 DEF Tells
    <2> QED BY <1>11, <2>3, <2>4 DEF Fulfills, NoReceiptStatus
  <1>12. ASSUME NEW t \in Threads, Updates(t) PROVE Tells'
    <2>1. /\ pc[t] = "update" /\ pc[t] \in Working /\ Advances(t)
          /\ UNCHANGED <<actualSeed, randomness>>
      BY <1>12 DEF Updates, Working
    <2>2. PICK id \in RequestId : id = current[t].id /\ reqHistory[id] # None
      BY <2>1, EventType DEF Tells, ThreadTells
    <2>3. reqHistory[id] \in DBReqHistory
      BY <2>2, TypesOfParts DEF ServiceTypes
    <2>4. Stores(id, Updated(t, reqHistory[id]))
      BY <1>12, <2>2 DEF Updates
    <2>5. \A u \in Threads : ThreadTells(u)'
      BY <1>1, <2>1, AdvancesTell
    <2>6. /\ reqHistory'[id].status = outcome[t].status
          /\ reqHistory'[id].proof = outcome[t].proof
          /\ reqHistory'[id].sourceType = "VRF" =>
               /\ reqHistory'[id].actualSeed = actualSeed[t]
               /\ reqHistory'[id].randomness = randomness[t]
      BY <2>2, <2>3, <2>4, WorkerTypes, UpdatedType DEF Stores
    <2>7. RowTells(id)'
      <3>1. \/ /\ outcome[t].status = "SUCCESS" /\ outcome[t].proof \in Outputs
               /\ outcome[t].proof = resultMap[id]
               /\ actualSeed[t] = outcome[t].proof /\ randomness[t] = outcome[t].proof
            \/ outcome[t].status # "SUCCESS" /\ outcome[t].proof = NoResult
        BY <2>1, <2>2 DEF Tells, ThreadTells
      <3>2. resultMap[id] # None => resultMap'[id] = resultMap[id]
        BY <1>1, <2>2 DEF ChainGrows
      <3> QED BY <2>6, <3>1, <3>2, VRFNoneAssumption DEF RowTells
    <2>8. ASSUME NEW i \in RequestId, i # id PROVE RowTells(i)'
      <3>1. reqHistory'[i] = reqHistory[i]
        BY <2>4, <2>8 DEF Stores
      <3> QED BY <1>1, <3>1, RowStillTells DEF Tells
    <2> QED BY <2>5, <2>7, <2>8 DEF Tells
  <1>13. ASSUME ChainStep PROVE Tells'
    BY <1>4, <1>13, ChainStepEffect
  <1>14. CASE WorkerNext
    BY <1>14, <1>5, <1>6, <1>7, <1>8, <1>9, <1>10, <1>11, <1>12, <1>13, StepCases
  <1>15. CASE UNCHANGED systemVars
    BY <1>4, <1>15 DEF systemVars
  <1> QED BY <1>14, <1>15

-----------------------------------------------------------------------------
(* Who processes a request. *)

(* A thread comes to process a request only by saving its row. *)
LEMMA ProcessingStep ==
  ASSUME WorkerTypeOK, [WorkerNext]_systemVars,
         NEW u \in Threads, NEW id \in RequestId, Processing(u, id)'
  PROVE  \/ Processing(u, id)
         \/ Saves(u) /\ current[u].id = id /\ reqHistory[id] = None
  <1> USE DEF threadVars
  <1>1. pc'[u] \in {"prove", "fulfill"} /\ current'[u].id = id
    BY DEF Processing
  <1>2. ASSUME pc'[u] = pc[u], current'[u] = current[u] PROVE Processing(u, id)
    BY <1>1, <1>2 DEF Processing
  <1>3. ASSUME NEW t \in Threads, NEW p, NEW e, NEW b, NEW o, Moves(t, p, e, b, o), u # t
        PROVE  Processing(u, id)
    BY <1>2, <1>3 DEF Moves
  <1>4. ASSUME NEW t \in Threads, NEW pushed, Begins(t, pushed) PROVE Processing(u, id)
    <2>1. PICK e \in pushed : Moves(t, "find", e, pushed \ {e}, Success)
      BY <1>4 DEF Begins
    <2>2. u # t
      BY <1>1, <2>1 DEF Moves
    <2> QED BY <1>3, <2>1, <2>2
  <1>5. ASSUME NEW t \in Threads, Advances(t) PROVE Processing(u, id)
    <2>1. ASSUME Moves(t, "idle", None, {}, Success) PROVE Processing(u, id)
      <3>1. u # t
        BY <1>1, <2>1 DEF Moves
      <3> QED BY <1>3, <2>1, <3>1
    <2> QED BY <1>4, <1>5, <2>1 DEF Advances
  <1>6. ASSUME NEW t \in Threads, NEW p \in {"save", "update"}, NEW o,
               Moves(t, p, current[t], batch[t], o)
        PROVE  Processing(u, id)
    <2>1. u # t
      BY <1>1, <1>6 DEF Moves
    <2> QED BY <1>3, <1>6, <2>1
  <1>7. ASSUME NEW t \in Threads, Takes(t) \/ Finds(t) \/ Updates(t) PROVE Processing(u, id)
    BY <1>4, <1>5, <1>6, <1>7 DEF Takes, Finds, Updates
  <1>8. ASSUME NEW t \in Threads, Saves(t)
        PROVE  \/ Processing(u, id)
               \/ Saves(u) /\ current[u].id = id /\ reqHistory[id] = None
    <2>1. CASE Moves(t, "update", current[t], batch[t],
                     [status |-> "UNEXPECTED", proof |-> NoResult])
      BY <1>6, <2>1
    <2>2. CASE reqHistory[current[t].id] = None
               /\ Moves(t, "prove", current[t], batch[t], outcome[t])
      <3>1. CASE u # t
        BY <1>3, <2>2, <3>1
      <3>2. CASE u = t
        <4>1. current'[t] = current[t]
          BY <2>2 DEF Moves
        <4> QED BY <1>1, <1>8, <2>2, <3>2, <4>1
      <3> QED BY <3>1, <3>2
    <2> QED BY <1>8, <2>1, <2>2 DEF Saves
  <1>9. ASSUME NEW t \in Threads, Proves(t) PROVE Processing(u, id)
    <2>1. CASE Fails(t, "UNEXPECTED")
      BY <1>6, <2>1 DEF Fails
    <2>2. CASE Moves(t, "fulfill", current[t], batch[t], [outcome[t] EXCEPT !.proof = Value(t)])
      <3>1. CASE u # t
        BY <1>3, <2>2, <3>1
      <3>2. CASE u = t
        <4>1. current'[t] = current[t] /\ pc[t] = "prove"
          BY <1>9, <2>2 DEF Moves, Proves
        <4> QED BY <1>1, <3>2, <4>1 DEF Processing
      <3> QED BY <3>1, <3>2
    <2> QED BY <1>9, <2>1, <2>2 DEF Proves
  <1>10. ASSUME NEW t \in Threads, Fulfills(t) PROVE Processing(u, id)
    BY <1>6, <1>10 DEF Fulfills, Fails
  <1>11. ASSUME Crash PROVE FALSE
    BY <1>1, <1>11 DEF Crash
  <1>12. CASE WorkerNext
    BY <1>2, <1>7, <1>8, <1>9, <1>10, <1>11, <1>12, StepCases
       DEF ChainStep, workerVars, Listen, PushLogs
  <1>13. CASE UNCHANGED systemVars
    BY <1>2, <1>13 DEF systemVars, workerVars
  <1> QED BY <1>12, <1>13

(* A thread that saved a row goes on to prove, and the row is there. *)
LEMMA SavesANewRow ==
  ASSUME WorkerTypeOK, NEW t \in Threads, Saves(t), reqHistory[current[t].id] = None
  PROVE  /\ reqHistory'[current[t].id] # None
         /\ \A u \in Threads : u # t => pc'[u] = pc[u]
  <1>1. current[t].id \in RequestId
    BY EventType DEF Saves, Working
  <1>2. /\ NewRow(current[t]) \in DBReqHistory
        /\ Stores(current[t].id, NewRow(current[t]))
        /\ Moves(t, "prove", current[t], batch[t], outcome[t])
    BY DEF Saves
  <1>3. reqHistory'[current[t].id] = NewRow(current[t])
    BY <1>1, <1>2 DEF Stores
  <1> QED BY <1>2, <1>3, WorkerNoneAssumption DEF Moves

(* Two threads never work on one request: the second finds the row, or cannot save it. *)
LEMMA ExclusiveStep ==
  ASSUME WorkerTypeOK, ExclusiveProcessing, [WorkerNext]_systemVars
  PROVE  ExclusiveProcessing'
  <1> SUFFICES ASSUME NEW id \in RequestId, NEW t1 \in Threads, NEW t2 \in Threads,
                      Processing(t1, id)'
               PROVE  /\ reqHistory'[id] # None
                      /\ Processing(t2, id)' => t1 = t2
    BY DEF ExclusiveProcessing
  <1> DEFINE New(u) == Saves(u) /\ current[u].id = id /\ reqHistory[id] = None
  <1>1. ASSUME NEW u \in Threads, Processing(u, id)'
        PROVE  Processing(u, id) \/ New(u)
    BY <1>1, ProcessingStep
  <1>2. ASSUME NEW u \in Threads, New(u)
        PROVE  /\ reqHistory'[id] # None
               /\ \A v \in Threads : v # u => pc'[v] = pc[v]
    BY <1>2, SavesANewRow
  <1>3. reqHistory'[id] # None
    BY <1>1, <1>2, RowsStayStep DEF RowsStay, ExclusiveProcessing
  <1>4. ASSUME Processing(t2, id)', t1 # t2 PROVE FALSE
    <2>1. CASE New(t1) /\ New(t2)
      <3>1. pc[t2] = "save" /\ pc'[t2] = pc[t2]
        BY <1>2, <1>4, <2>1 DEF Saves
      <3> QED BY <1>4, <3>1 DEF Processing
    <2>2. CASE Processing(t1, id) /\ Processing(t2, id)
      BY <1>4, <2>2 DEF ExclusiveProcessing
    <2>3. CASE (Processing(t1, id) /\ New(t2)) \/ (New(t1) /\ Processing(t2, id))
      BY <2>3 DEF ExclusiveProcessing
    <2> QED BY <1>1, <1>4, <2>1, <2>2, <2>3
  <1> QED BY <1>3, <1>4

-----------------------------------------------------------------------------
(* What the table says of a request that was delivered. *)

Blames(t, id) ==
  pc[t] = "update" /\ current[t].id = id /\ outcome[t].status = "UPLOAD_ERROR"

(* The row says that the chain refused the proof, or soon will. *)
Blamed(id) ==
  \/ reqHistory[id] # None /\ reqHistory[id].status = "UPLOAD_ERROR"
  \/ \E t \in Threads : Blames(t, id)

(* A request for the service's key is delivered only while it is processed, *)
(* which a request that is blamed will never be again, unless a lost receipt *)
(* is blamed on the chain.                                                  *)
Delivery ==
  \A id \in RequestId :
    id.key = ServiceKey =>
      /\ resultMap[id] # None => reqHistory[id] # None
      /\ \A t \in Threads : Processing(t, id) => resultMap[id] = None
      /\ platform # "fiscobcos2" /\ Blamed(id) =>
           /\ reqHistory[id] # None /\ resultMap[id] = None
           /\ \A t \in Threads : ~Processing(t, id)

(* Only a thread delivers a value for the service's key. *)
LEMMA FulfilsItself ==
  ASSUME Inv, WorkerTypeOK, [WorkerNext]_systemVars,
         NEW id \in RequestId, id.key = ServiceKey,
         resultMap'[id] # resultMap[id]
  PROVE  \E t \in Threads : Processing(t, id) /\ Fulfills(t)
  <1> DEFINE P == \E t \in Threads : Processing(t, id) /\ Fulfills(t)
  <1>1. ASSUME NEW t \in Threads, Fulfills(t) PROVE P
    <2>1. Executes(t)
      BY <1>1 DEF Fulfills, vars, clientVars
    <2>2. current[t].id = id
      BY <2>1 DEF Executes
    <2>3. pc[t] = "fulfill"
      BY <1>1 DEF Fulfills
    <2> QED BY <1>1, <2>2, <2>3 DEF Processing
  <1>2. ASSUME UNCHANGED vars PROVE P
    BY <1>2 DEF vars, clientVars
  <1>3. ASSUME ChainStep PROVE P
    BY <1>3, ChainStepEffect
  <1>4. CASE WorkerNext
    BY <1>1, <1>2, <1>3, <1>4, StepCases
       DEF Listen, PushLogs, Crash, Takes, Finds, Saves, Proves, Updates
  <1> QED BY <1>2, <1>4 DEF systemVars

(* It goes on to update. *)
LEMMA ResultStep ==
  ASSUME Inv, WorkerTypeOK, [WorkerNext]_systemVars,
         NEW id \in RequestId, id.key = ServiceKey,
         resultMap'[id] # resultMap[id]
  PROVE  \E t \in Threads : Processing(t, id) /\ pc'[t] = "update"
  <1>1. PICK t \in Threads : Processing(t, id) /\ Fulfills(t)
    BY FulfilsItself
  <1>2. pc'[t] = "update"
    BY <1>1 DEF Fulfills, Moves, Fails
  <1> QED BY <1>1, <1>2

(* The generation stays. *)
LEMMA PlatformStep ==
  ASSUME WorkerTypeOK, [WorkerNext]_systemVars
  PROVE  platform' = platform
  <1>1. CASE WorkerNext
    BY <1>1, StepCases
       DEF ChainStep, workerVars, Listen, PushLogs, Crash, Takes, Finds, Saves, Proves,
           Fulfills, Updates
  <1> QED BY <1>1 DEF systemVars, workerVars

(* Only a thread whose transaction reverted begins to blame the chain. *)
LEMMA BlamedStep ==
  ASSUME WorkerTypeOK, Tells, [WorkerNext]_systemVars, platform # "fiscobcos2",
         NEW id \in RequestId, Blamed(id)'
  PROVE  \/ Blamed(id)
         \/ UNCHANGED vars /\ \E t \in Threads : Processing(t, id) /\ pc'[t] = "update"
  <1> USE DEF threadVars
  <1> DEFINE P == \/ Blamed(id)
                  \/ UNCHANGED vars /\ \E t \in Threads : Processing(t, id) /\ pc'[t] = "update"
  <1>1. ASSUME reqHistory'[id] = reqHistory[id],
               reqHistory'[id] # None /\ reqHistory'[id].status = "UPLOAD_ERROR"
        PROVE  P
    BY <1>1 DEF Blamed
  <1>2. ASSUME NEW u \in Threads, Blames(u, id)',
               pc'[u] = pc[u], current'[u] = current[u], outcome'[u] = outcome[u]
        PROVE  P
    BY <1>2 DEF Blames, Blamed
  <1>3. ASSUME NEW t \in Threads, NEW p, NEW e, NEW b, NEW o, Moves(t, p, e, b, o),
               NEW u \in Threads, Blames(u, id)', p = "update" => o.status # "UPLOAD_ERROR"
        PROVE  P
    <2>1. u # t
      BY <1>3 DEF Moves, Blames
    <2> QED BY <1>2, <1>3, <2>1 DEF Moves
  <1>4. ASSUME NEW t \in Threads, NEW pushed, Begins(t, pushed),
               NEW u \in Threads, Blames(u, id)'
        PROVE  P
    <2>1. PICK e \in pushed : Moves(t, "find", e, pushed \ {e}, Success)
      BY <1>4 DEF Begins
    <2> QED BY <1>3, <1>4, <2>1
  <1>5. ASSUME NEW t \in Threads, Advances(t), NEW u \in Threads, Blames(u, id)' PROVE P
    BY <1>3, <1>4, <1>5 DEF Advances
  <1>6. ASSUME NEW t \in Threads, Takes(t) \/ Finds(t) PROVE P
    BY <1>1, <1>3, <1>4, <1>5, <1>6 DEF Takes, Finds, Blamed
  <1>7. ASSUME NEW t \in Threads, Saves(t) PROVE P
    <2>1. ASSUME NEW u \in Threads, Blames(u, id)' PROVE P
      <3>1. CASE Moves(t, "update", current[t], batch[t],
                       [status |-> "UNEXPECTED", proof |-> NoResult])
        BY <1>3, <2>1, <3>1
      <3>2. CASE Moves(t, "prove", current[t], batch[t], outcome[t])
        BY <1>3, <2>1, <3>2
      <3> QED BY <1>7, <3>1, <3>2 DEF Saves
    <2>2. ASSUME reqHistory'[id] # None /\ reqHistory'[id].status = "UPLOAD_ERROR" PROVE P
      <3>1. reqHistory'[id] = reqHistory[id] \/ reqHistory'[id] = NewRow(current[t])
        BY <1>7 DEF Saves, Stores
      <3>2. NewRow(current[t]).status # "UPLOAD_ERROR"
        BY DEF NewRow
      <3> QED BY <1>1, <2>2, <3>1, <3>2
    <2> QED BY <2>1, <2>2 DEF Blamed
  <1>8. ASSUME NEW t \in Threads, Proves(t) PROVE P
    <2>1. pc[t] = "prove" /\ reqHistory' = reqHistory
      BY <1>8 DEF Proves
    <2>2. ASSUME NEW u \in Threads, Blames(u, id)' PROVE P
      <3>1. CASE Fails(t, "UNEXPECTED")
        BY <1>3, <2>2, <3>1 DEF Fails
      <3>2. CASE Moves(t, "fulfill", current[t], batch[t],
                       [outcome[t] EXCEPT !.proof = Value(t)])
        BY <1>3, <2>2, <3>2
      <3> QED BY <1>8, <3>1, <3>2 DEF Proves
    <2> QED BY <1>1, <2>1, <2>2 DEF Blamed
  <1>9. ASSUME NEW t \in Threads, Fulfills(t) PROVE P
    <2>1. pc[t] = "fulfill" /\ reqHistory' = reqHistory /\ outcome[t].status = "SUCCESS"
      BY <1>9 DEF Fulfills, Tells, ThreadTells
    <2>2. ASSUME NEW u \in Threads, Blames(u, id)' PROVE P
      <3>1. CASE Fails(t, "UNEXPECTED")
        BY <1>3, <2>2, <3>1 DEF Fails
      <3>2. CASE Moves(t, "update", current[t], batch[t], outcome[t])
        BY <1>3, <2>1, <2>2, <3>2
      <3>3. CASE Fails(t, "UPLOAD_ERROR") /\ UNCHANGED vars
        <4>1. CASE u = t
          <5>1. pc'[t] = "update" /\ current'[t] = current[t]
            BY <3>3 DEF Fails, Moves
          <5>2. Processing(t, id)
            BY <2>1, <2>2, <4>1, <5>1 DEF Processing, Blames
          <5> QED BY <3>3, <5>1, <5>2
        <4>2. CASE u # t
          BY <1>2, <2>2, <3>3, <4>2 DEF Fails, Moves
        <4> QED BY <4>1, <4>2
      <3> QED BY <1>9, <3>1, <3>2, <3>3 DEF Fulfills, NoReceiptStatus
    <2> QED BY <1>1, <2>1, <2>2 DEF Blamed
  <1>10. ASSUME NEW t \in Threads, Updates(t) PROVE P
    <2>1. ASSUME NEW u \in Threads, Blames(u, id)' PROVE P
      BY <1>5, <1>10, <2>1 DEF Updates
    <2>2. ASSUME reqHistory'[id] # None /\ reqHistory'[id].status = "UPLOAD_ERROR",
                 reqHistory'[id] # reqHistory[id]
          PROVE  P
      <3>1. /\ id = current[t].id /\ pc[t] = "update" /\ reqHistory[id] # None
            /\ reqHistory'[id] = Updated(t, reqHistory[id])
        BY <1>10, <2>2 DEF Updates, Stores
      <3>2. reqHistory[id] \in DBReqHistory
        BY <3>1, TypesOfParts DEF ServiceTypes
      <3>3. reqHistory'[id].status = outcome[t].status
        BY <3>1, <3>2, WorkerTypes, UpdatedType
      <3>4. Blames(t, id)
        BY <2>2, <3>1, <3>3 DEF Blames
      <3> QED BY <3>4 DEF Blamed
    <2> QED BY <1>1, <2>1, <2>2 DEF Blamed
  <1>11. ASSUME Crash PROVE P
    <2>1. reqHistory' = reqHistory /\ \A u \in Threads : pc'[u] = "idle"
      BY <1>11 DEF Crash
    <2> QED BY <1>1, <2>1 DEF Blamed, Blames
  <1>12. ASSUME UNCHANGED <<reqHistory, threadVars>> PROVE P
    BY <1>1, <1>2, <1>12 DEF Blamed
  <1>13. CASE WorkerNext
    BY <1>6, <1>7, <1>8, <1>9, <1>10, <1>11, <1>12, <1>13, StepCases
       DEF ChainStep, workerVars, Listen, PushLogs
  <1>14. CASE UNCHANGED systemVars
    BY <1>12, <1>14 DEF systemVars, workerVars
  <1> QED BY <1>13, <1>14

(* A value is delivered while its request is processed, and a refused one never is. *)
LEMMA DeliveryStep ==
  ASSUME Inv, WorkerTypeOK, Tells, ExclusiveProcessing, Delivery, [WorkerNext]_systemVars
  PROVE  Delivery'
  <1> SUFFICES ASSUME NEW id \in RequestId, id.key = ServiceKey
               PROVE  /\ resultMap'[id] # None => reqHistory'[id] # None
                      /\ \A t \in Threads : Processing(t, id)' => resultMap'[id] = None
                      /\ platform' # "fiscobcos2" /\ Blamed(id)' =>
                           /\ reqHistory'[id] # None /\ resultMap'[id] = None
                           /\ \A t \in Threads : ~Processing(t, id)'
    BY DEF Delivery
  <1>1. /\ resultMap[id] # None => reqHistory[id] # None
        /\ \A t \in Threads : Processing(t, id) => resultMap[id] = None
        /\ platform # "fiscobcos2" /\ Blamed(id) =>
             /\ reqHistory[id] # None /\ resultMap[id] = None
             /\ \A t \in Threads : ~Processing(t, id)
        /\ platform' = platform
    BY PlatformStep DEF Delivery
  <1>2. reqHistory[id] # None => reqHistory'[id] # None
    BY RowsStayStep DEF RowsStay
  <1>3. ASSUME resultMap'[id] # resultMap[id]
        PROVE  /\ reqHistory[id] # None
               /\ \E t \in Threads : Processing(t, id) /\ pc'[t] = "update"
    BY <1>3, ResultStep DEF ExclusiveProcessing
  <1>4. ASSUME NEW t \in Threads, Processing(t, id)'
        PROVE  Processing(t, id) \/ reqHistory[id] = None
    BY <1>4, ProcessingStep
  <1>5. ASSUME NEW t \in Threads, Processing(t, id), pc'[t] = "update"
        PROVE  \A u \in Threads : ~Processing(u, id)'
    <2> SUFFICES ASSUME NEW u \in Threads, Processing(u, id)' PROVE FALSE
      OBVIOUS
    <2>1. Processing(u, id)
      BY <1>4, <1>5 DEF ExclusiveProcessing
    <2>2. u = t
      BY <1>5, <2>1 DEF ExclusiveProcessing
    <2> QED BY <1>5, <2>2 DEF Processing
  <1>6. resultMap'[id] # None => reqHistory'[id] # None
    BY <1>1, <1>2, <1>3
  <1>7. ASSUME NEW t \in Threads, Processing(t, id)' PROVE resultMap'[id] = None
    BY <1>1, <1>3, <1>4, <1>5, <1>7
  <1>8. ASSUME platform # "fiscobcos2", Blamed(id)'
        PROVE  /\ reqHistory'[id] # None /\ resultMap'[id] = None
               /\ \A t \in Threads : ~Processing(t, id)'
    <2>1. CASE Blamed(id)
      BY <1>1, <1>2, <1>3, <1>4, <1>8, <2>1
    <2>2. ASSUME UNCHANGED vars, NEW t \in Threads, Processing(t, id), pc'[t] = "update"
          PROVE  /\ reqHistory'[id] # None /\ resultMap'[id] = None
                 /\ \A u \in Threads : ~Processing(u, id)'
      <3>1. resultMap' = resultMap
        BY <2>2 DEF vars, clientVars
      <3> QED BY <1>1, <1>2, <1>5, <2>2, <3>1 DEF ExclusiveProcessing
    <2> QED BY <1>8, <2>1, <2>2, BlamedStep
  <1> QED BY <1>1, <1>6, <1>7, <1>8

(* A value for the service's key is that of the hash of the block its event  *)
(* tells: nobody else delivers one, and the service delivers no other.       *)
LEMMA FixedStep ==
  ASSUME Inv, WorkerTypeOK, ServiceRandomnessIsFixed, [WorkerNext]_systemVars
  PROVE  ServiceRandomnessIsFixed'
  <1> DEFINE Fixed(id, value) ==
               \E e \in events : /\ e.core = CoreOf[id.sender] /\ e.id = id
                                 /\ value = Randomness(id, e.block)
  <1>1. events \subseteq events'
    BY StepOnChain, ChainGrowsStep DEF ChainGrows
  <1>2. ASSUME NEW id \in RequestId, id.key = ServiceKey,
               resultMap'[id] # None, resultMap'[id] = resultMap[id]
        PROVE  Fixed(id, resultMap'[id])
    BY <1>2 DEF ServiceRandomnessIsFixed
  <1>3. ASSUME NEW id \in RequestId, id.key = ServiceKey, resultMap'[id] # resultMap[id]
        PROVE  Fixed(id, resultMap'[id])
    <2>1. PICK t \in Threads : Processing(t, id) /\ Fulfills(t)
      BY <1>3, FulfilsItself
    <2>2. pc[t] = "fulfill" /\ current[t].id = id /\ Executes(t)
      BY <1>3, <2>1 DEF Fulfills, Processing, vars, clientVars
    <2>3. /\ current[t] \in events /\ current[t].core \in Cores
          /\ current[t].block \in 1..MaxBlock
      BY <2>2, EventType DEF Working
    <2>4. resultMap'[id] = Randomness(id, current[t].block)
      BY <2>2, <2>3, BlockHashType DEF Executes, Value
    <2>5. pendingRequests[id] = current[t].core /\ validIds[id]
      BY <2>2 DEF Executes, FulfillRandomnessRequest, AcceptsCallback
    <2>6. current[t].core = CoreOf[id.sender]
      BY <2>5 DEF Inv, ClientConsistent
    <2> QED BY <2>2, <2>3, <2>4, <2>6
  <1>4. ASSUME NEW id \in RequestId, id.key = ServiceKey, resultMap'[id] # None
        PROVE  Fixed(id, resultMap'[id])
    BY <1>2, <1>3, <1>4
  <1> QED BY <1>1, <1>4 DEF ServiceRandomnessIsFixed

-----------------------------------------------------------------------------
(* The events in hand, and where they go. *)

InThread(t, e) == e = current[t] \/ e \in batch[t]

InQueue(e) == \E k \in 1..Len(queue) : e \in queue[k]

(* An event is in hand when it is queued or with a thread. *)
LEMMA InFlightIs ==
  ASSUME NEW e \in events
  PROVE  e \in InFlight <=> InQueue(e) \/ \E t \in Threads : InThread(t, e)
  BY DEF InFlight, InQueue, InThread

(* The loop of t leaves an event behind, which has a row. *)
Leaves(t) ==
  /\ pc[t] \in Working /\ Advances(t)
  /\ reqHistory[current[t].id] # None
  /\ UNCHANGED <<vars, queue, listenVars>>

(* All there is to happen to the events in hand. *)
LEMMA HandCases ==
  ASSUME WorkerTypeOK, Tells, [WorkerNext]_systemVars,
         NEW ACTION P,
         ASSUME UNCHANGED <<queue, current, batch, listenVars>> PROVE P,
         ASSUME NEW core \in Cores, Listen(core), UNCHANGED <<queue, current, batch>> PROVE P,
         ASSUME NEW core \in Cores, PushLogs(core), UNCHANGED <<current, batch>> PROVE P,
         ASSUME Crash PROVE P,
         ASSUME NEW t \in Threads, Takes(t) PROVE P,
         ASSUME NEW t \in Threads, Leaves(t) PROVE P
  PROVE  P
  <1> USE DEF threadVars, listenVars
  <1>1. ASSUME NEW t \in Threads, NEW p, NEW o, Moves(t, p, current[t], batch[t], o)
        PROVE  UNCHANGED <<current, batch>>
    <2>1. /\ current \in [Threads -> events \cup {None}]
          /\ batch \in [Threads -> SUBSET events]
      BY WorkerTypes DEF ThreadTypes
    <2>2. /\ current' \in [Threads -> events \cup {None}]
          /\ batch' \in [Threads -> SUBSET events]
          /\ \A u \in Threads : current'[u] = current[u] /\ batch'[u] = batch[u]
      BY <1>1 DEF Moves
    <2>3. current' = current
      BY <2>1, <2>2
    <2>4. batch' = batch
      BY <2>1, <2>2
    <2> QED BY <2>3, <2>4
  <1>2. ASSUME NEW t \in Threads, Finds(t) PROVE P
    <2>1. CASE reqHistory[current[t].id] # None /\ Advances(t)
      BY <1>2, <2>1 DEF Finds, Leaves, Working
    <2>2. CASE Moves(t, "save", current[t], batch[t], outcome[t])
      BY <1>1, <1>2, <2>2 DEF Finds
    <2> QED BY <1>2, <2>1, <2>2 DEF Finds
  <1>3. ASSUME NEW t \in Threads, Saves(t) PROVE P
    BY <1>1, <1>3 DEF Saves
  <1>4. ASSUME NEW t \in Threads, Proves(t) PROVE P
    BY <1>1, <1>4 DEF Proves, Fails
  <1>5. ASSUME NEW t \in Threads, Fulfills(t) PROVE P
    BY <1>1, <1>5 DEF Fulfills, Fails
  <1>6. ASSUME NEW t \in Threads, Updates(t) PROVE P
    <2>1. Leaves(t)
      BY <1>6 DEF Updates, Leaves, Working, Tells, ThreadTells
    <2> QED BY <2>1
  <1>7. CASE WorkerNext
    BY <1>2, <1>3, <1>4, <1>5, <1>6, <1>7, StepCases
       DEF ChainStep, workerVars, Listen, PushLogs
  <1>8. CASE UNCHANGED systemVars
    BY <1>8 DEF systemVars, workerVars
  <1> QED BY <1>7, <1>8

(* A thread that begins with a batch has all of it in hand, once. *)
LEMMA BeginsHand ==
  ASSUME NEW t \in Threads, NEW pushed, Begins(t, pushed)
  PROVE  /\ \A e : InThread(t, e)' <=> e \in pushed
         /\ current'[t] \notin batch'[t]
         /\ \A u \in Threads : u # t => current'[u] = current[u] /\ batch'[u] = batch[u]
  <1>1. PICK first \in pushed : Moves(t, "find", first, pushed \ {first}, Success)
    BY DEF Begins
  <1> QED BY <1>1 DEF Moves, InThread

(* A thread that goes on lets go of its event and keeps its batch. *)
LEMMA AdvancesHand ==
  ASSUME WorkerTypeOK, NEW t \in Threads, Advances(t)
  PROVE  /\ \A e \in events : InThread(t, e)' <=> e \in batch[t]
         /\ current'[t] \notin batch'[t]
         /\ \A u \in Threads : u # t => current'[u] = current[u] /\ batch'[u] = batch[u]
  <1>1. CASE batch[t] = {} /\ Moves(t, "idle", None, {}, Success)
    BY <1>1, EventIsNotNone DEF Moves, InThread
  <1>2. CASE Begins(t, batch[t])
    BY <1>2, BeginsHand
  <1> QED BY <1>1, <1>2 DEF Advances

(* A thread at rest has nothing in hand. *)
LEMMA IdleHand ==
  ASSUME WorkerTypeOK, Tells, NEW t \in Threads, pc[t] = "idle"
  PROVE  \A e \in events : ~InThread(t, e)
  <1>1. batch[t] = {}
    BY DEF Tells, ThreadTells
  <1>2. current[t] = None
    BY TypesOfParts DEF BusyWithEvent, Working
  <1> QED BY <1>1, <1>2, EventIsNotNone DEF InThread

(* What the queue holds after its head was taken. *)
LEMMA TailHolds ==
  ASSUME WorkerTypeOK, queue # <<>>, queue' = Tail(queue)
  PROVE  /\ \A e : InQueue(e) => e \in Head(queue) \/ InQueue(e)'
         /\ \A e : InQueue(e)' => InQueue(e)
  <1>1. /\ Head(queue) = queue[1] /\ Len(queue) \in Nat \ {0}
        /\ Len(queue') = Len(queue) - 1
        /\ \A k \in 1..Len(queue') : queue'[k] = queue[k + 1]
    BY HeadOfQueue
  <1>2. ASSUME NEW e, InQueue(e), e \notin Head(queue) PROVE InQueue(e)'
    <2>1. PICK k \in 1..Len(queue) : e \in queue[k]
      BY <1>2 DEF InQueue
    <2>2. k # 1 /\ k - 1 \in 1..Len(queue')
      BY <1>1, <1>2, <2>1
    <2>3. queue'[k - 1] = queue[k]
      BY <1>1, <2>2
    <2> QED BY <2>1, <2>2, <2>3 DEF InQueue
  <1>3. ASSUME NEW e, InQueue(e)' PROVE InQueue(e)
    <2>1. PICK k \in 1..Len(queue') : e \in queue'[k]
      BY <1>3 DEF InQueue
    <2>2. k + 1 \in 1..Len(queue) /\ queue'[k] = queue[k + 1]
      BY <1>1, <2>1
    <2> QED BY <2>1, <2>2 DEF InQueue
  <1> QED BY <1>2, <1>3

(* What it holds after a push. *)
LEMMA PushHolds ==
  ASSUME WorkerTypeOK, NEW core \in Cores, PushLogs(core)
  PROVE  /\ \A e : InQueue(e) => InQueue(e)'
         /\ \A e \in events :
              e.core = core /\ e.block = cursor[core] => InQueue(e)'
         /\ \A e : InQueue(e)' =>
              InQueue(e) \/ (e \in events /\ e.core = core /\ e.block = cursor[core])
  <1> DEFINE pushed == {e \in events : e.core = core /\ e.block = cursor[core]}
  <1>1. queue' = IF pushed = {} THEN queue ELSE Append(queue, pushed)
    BY DEF PushLogs
  <1>2. queue \in Seq(SUBSET events) /\ pushed \in SUBSET events
    BY TypesOfParts DEF ServiceTypes
  <1> HIDE DEF pushed
  <1>3. CASE pushed = {}
    BY <1>1, <1>3 DEF InQueue, pushed
  <1>4. CASE pushed # {}
    <2>1. /\ Len(queue) \in Nat /\ Len(queue') = Len(queue) + 1
          /\ \A k \in 1..Len(queue) : queue'[k] = queue[k]
          /\ queue'[Len(queue) + 1] = pushed
      BY <1>1, <1>2, <1>4
    <2>2. ASSUME NEW e, InQueue(e) PROVE InQueue(e)'
      BY <2>1, <2>2 DEF InQueue
    <2>3. ASSUME NEW e \in pushed PROVE InQueue(e)'
      <3>1. Len(queue) + 1 \in 1..Len(queue')
        BY <2>1
      <3> QED BY <2>1, <3>1 DEF InQueue
    <2>4. ASSUME NEW e, InQueue(e)' PROVE InQueue(e) \/ e \in pushed
      <3>1. PICK k \in 1..Len(queue') : e \in queue'[k]
        BY <2>4 DEF InQueue
      <3>2. k \in 1..Len(queue) \/ k = Len(queue) + 1
        BY <2>1
      <3> QED BY <2>1, <3>1, <3>2 DEF InQueue
    <2> QED BY <2>2, <2>3, <2>4 DEF pushed
  <1> QED BY <1>3, <1>4

-----------------------------------------------------------------------------
(* Where a listener resumes, and what becomes of what it is pushed. *)

(* Rows and events in hand are of blocks that are closed and were pushed.   *)
Resume ==
  /\ \A core \in Cores : cursor[core] <= height
  /\ \A id \in RequestId : reqHistory[id] # None => reqHistory[id].block < height
  /\ \A e \in InFlight : e.block < cursor[e.core]
  /\ PushedEventsAreKept

(* The types of what an event tells. *)
LEMMA EventParts ==
  ASSUME WorkerTypeOK, NEW e \in events
  PROVE  /\ e.core \in Cores /\ e.id \in RequestId
         /\ e.block \in Nat /\ e.block > 0
         /\ cursor[e.core] \in Nat
  <1>1. e \in RandomnessRequestEvent
    BY DEF WorkerTypeOK, TypeOK
  <1>2. e.core \in Cores /\ e.id \in RequestId /\ e.block \in 1..MaxBlock
    BY <1>1 DEF RandomnessRequestEvent
  <1>3. cursor \in [Cores -> 0..MaxBlock + 1]
    BY TypesOfParts DEF ServiceTypes
  <1> QED BY <1>2, <1>3

(* The cursor does not pass the block that is being built. *)
LEMMA CursorStep ==
  ASSUME Inv, WorkerTypeOK, Tells, Resume, [WorkerNext]_systemVars
  PROVE  \A core \in Cores : cursor'[core] <= height
  <1> USE DEF listenVars
  <1>1. /\ cursor \in [Cores -> 0..MaxBlock + 1]
        /\ reqHistory \in [RequestId -> DBReqHistory \cup {None}]
    BY TypesOfParts DEF ServiceTypes
  <1>2. height \in Nat /\ \A k \in Cores : cursor[k] <= height
    BY DEF Inv, TypeOK, Resume
  <1>3. ASSUME NEW core \in Cores, Listen(core)
        PROVE  \A k \in Cores : cursor'[k] <= height
    <2>1. PICK from \in 1..MaxBlock + 1 :
            /\ IF VRFRows = {} THEN from = height
               ELSE \E id \in VRFRows : IsLatestRecord(id) /\ from = reqHistory[id].block + 1
            /\ cursor' = [cursor EXCEPT ![core] = from]
      BY <1>3 DEF Listen
    <2>2. from <= height
      <3>1. CASE VRFRows = {}
        BY <1>2, <2>1, <3>1
      <3>2. CASE VRFRows # {}
        <4>1. PICK id \in VRFRows : from = reqHistory[id].block + 1
          BY <2>1, <3>2
        <4>2. id \in RequestId /\ reqHistory[id] # None
          BY DEF VRFRows, Rows
        <4>3. reqHistory[id].block \in Nat
          BY <1>1, <4>2 DEF DBReqHistory
        <4>4. reqHistory[id].block < height
          BY <4>2 DEF Resume
        <4> QED BY <1>2, <4>1, <4>3, <4>4
      <3> QED BY <3>1, <3>2
    <2> QED BY <1>1, <1>2, <2>1, <2>2
  <1>4. ASSUME NEW core \in Cores, PushLogs(core)
        PROVE  \A k \in Cores : cursor'[k] <= height
    <2>1. cursor[core] < height /\ cursor' = [cursor EXCEPT ![core] = @ + 1]
      BY <1>4 DEF PushLogs
    <2>2. cursor[core] \in Nat /\ cursor[core] + 1 <= height
      BY <1>1, <1>2, <2>1
    <2> QED BY <1>1, <1>2, <2>1, <2>2
  <1>5. ASSUME Crash PROVE \A k \in Cores : cursor'[k] <= height
    BY <1>2, <1>5 DEF Crash
  <1> QED BY <1>2, <1>3, <1>4, <1>5, HandCases DEF Takes, Leaves

(* The event of a thread that works is in flight. *)
LEMMA CurrentInFlight ==
  ASSUME WorkerTypeOK, NEW t \in Threads, pc[t] \in Working
  PROVE  current[t] \in events /\ current[t] \in InFlight
  BY EventType, InFlightIs DEF InThread

(* Rows are of blocks that are closed. *)
LEMMA RowBlocksStep ==
  ASSUME Inv, WorkerTypeOK, Resume, [WorkerNext]_systemVars
  PROVE  \A id \in RequestId : reqHistory'[id] # None => reqHistory'[id].block < height'
  <1> DEFINE Closed == \A id \in RequestId :
                         reqHistory'[id] # None => reqHistory'[id].block < height'
  <1>0. reqHistory \in [RequestId -> DBReqHistory \cup {None}]
    BY TypesOfParts DEF ServiceTypes
  <1>1. height \in Nat /\ height' \in Nat /\ height' >= height
    BY InvWorkerStep DEF ChainGrows, Inv, TypeOK
  <1>2. ASSUME NEW id \in RequestId, reqHistory[id] # None
        PROVE  reqHistory[id].block \in Nat /\ reqHistory[id].block < height'
    <2>1. reqHistory[id].block \in Nat
      BY <1>0, <1>2 DEF DBReqHistory
    <2>2. reqHistory[id].block < height
      BY <1>2 DEF Resume
    <2> QED BY <1>1, <2>1, <2>2
  <1>3. ASSUME reqHistory' = reqHistory PROVE Closed
    BY <1>2, <1>3
  <1>4. ASSUME NEW t \in Threads, Saves(t) PROVE Closed
    <2>1. CASE reqHistory' = reqHistory
      BY <1>3, <2>1
    <2>2. CASE Stores(current[t].id, NewRow(current[t]))
      <3>1. current[t] \in events /\ current[t].block < cursor[current[t].core]
        BY <1>4, CurrentInFlight DEF Saves, Working, Resume
      <3>2. /\ current[t].block \in Nat /\ cursor[current[t].core] \in Nat
            /\ cursor[current[t].core] <= height
        BY <3>1, EventParts DEF Resume
      <3>3. NewRow(current[t]).block = current[t].block
        BY DEF NewRow
      <3>4. NewRow(current[t]).block < height'
        BY <1>1, <3>1, <3>2, <3>3
      <3> QED BY <1>2, <2>2, <3>4 DEF Stores
    <2> QED BY <1>4, <2>1, <2>2 DEF Saves
  <1>5. ASSUME NEW t \in Threads, Updates(t) PROVE Closed
    <2>1. CASE reqHistory' = reqHistory
      BY <1>3, <2>1
    <2>2. CASE reqHistory[current[t].id] # None
               /\ Stores(current[t].id, Updated(t, reqHistory[current[t].id]))
      <3>1. current[t].id \in RequestId
        BY <1>5, EventType DEF Updates, Working
      <3>2. reqHistory[current[t].id] \in DBReqHistory
        BY <1>0, <2>2, <3>1
      <3>3. Updated(t, reqHistory[current[t].id]).block = reqHistory[current[t].id].block
        BY <3>2, WorkerTypes, UpdatedType
      <3>4. Updated(t, reqHistory[current[t].id]).block < height'
        BY <1>2, <2>2, <3>1, <3>3
      <3> QED BY <1>2, <2>2, <3>4 DEF Stores
    <2> QED BY <1>5, <2>1, <2>2 DEF Updates
  <1>6. CASE WorkerNext
    BY <1>3, <1>4, <1>5, <1>6, StepCases
       DEF ChainStep, workerVars, Listen, PushLogs, Crash, Takes, Finds, Proves, Fulfills
  <1>7. CASE UNCHANGED systemVars
    BY <1>3, <1>7 DEF systemVars, workerVars
  <1> QED BY <1>6, <1>7

(* An event in hand stays in hand until its request has a row, or the       *)
(* process dies.                                                            *)
LEMMA KeptInHand ==
  ASSUME Inv, WorkerTypeOK, Tells, [WorkerNext]_systemVars, NEW e \in events, e \in InFlight
  PROVE  Crash \/ reqHistory'[e.id] # None \/ e \in InFlight'
  <1> DEFINE P == Crash \/ reqHistory'[e.id] # None \/ e \in InFlight'
  <1>1. e \in events' /\ e.id \in RequestId
    BY InvWorkerStep, EventParts DEF ChainGrows
  <1>2. InQueue(e) \/ \E t \in Threads : InThread(t, e)
    BY InFlightIs
  <1>3. ASSUME InQueue(e)' \/ \E t \in Threads : InThread(t, e)' PROVE P
    BY <1>1, <1>3 DEF InFlight, InQueue, InThread
  <1>4. ASSUME UNCHANGED <<queue, current, batch>> PROVE P
    BY <1>2, <1>3, <1>4 DEF InQueue, InThread
  <1>5. ASSUME NEW core \in Cores, PushLogs(core), UNCHANGED <<current, batch>> PROVE P
    <2>1. InQueue(e) => InQueue(e)'
      BY <1>5, PushHolds
    <2> QED BY <1>2, <1>3, <1>5, <2>1 DEF InThread
  <1>6. ASSUME NEW t \in Threads, Takes(t) PROVE P
    <2>1. CASE InQueue(e)
      <3>1. e \in Head(queue) \/ InQueue(e)'
        BY <1>6, <2>1, TailHolds DEF Takes
      <3>2. e \in Head(queue) => InThread(t, e)'
        BY <1>6, BeginsHand DEF Takes
      <3> QED BY <1>3, <3>1, <3>2
    <2>2. ASSUME NEW u \in Threads, InThread(u, e) PROVE P
      <3>1. u # t
        BY <1>6, <2>2, IdleHand DEF Takes
      <3>2. InThread(u, e)'
        BY <1>6, <2>2, <3>1, BeginsHand DEF Takes, InThread
      <3> QED BY <1>3, <3>2
    <2> QED BY <1>2, <2>1, <2>2
  <1>7. ASSUME NEW t \in Threads, Leaves(t) PROVE P
    <2>1. CASE InQueue(e)
      BY <1>3, <1>7, <2>1 DEF Leaves, InQueue
    <2>2. ASSUME NEW u \in Threads, InThread(u, e) PROVE P
      <3>1. CASE u # t
        <4>1. InThread(u, e)'
          BY <1>7, <2>2, <3>1, AdvancesHand DEF Leaves, InThread
        <4> QED BY <1>3, <4>1
      <3>2. CASE u = t /\ e \in batch[t]
        <4>1. InThread(t, e)'
          BY <1>7, <3>2, AdvancesHand DEF Leaves
        <4> QED BY <1>3, <4>1
      <3>3. CASE u = t /\ e = current[t]
        BY <1>1, <1>7, <3>3, RowsStayStep DEF Leaves, RowsStay
      <3> QED BY <2>2, <3>1, <3>2, <3>3 DEF InThread
    <2> QED BY <1>2, <2>1, <2>2
  <1> HIDE DEF P
  <1>8. ASSUME Crash PROVE P
    BY <1>8 DEF P
  <1>9. P
    BY <1>4, <1>5, <1>6, <1>7, <1>8, HandCases
  <1> QED BY <1>9 DEF P

(* An event comes to hand only when its block is pushed. *)
LEMMA ComesToHand ==
  ASSUME Inv, WorkerTypeOK, Tells, [WorkerNext]_systemVars, NEW e, e \in InFlight'
  PROVE  /\ e \in events
         /\ \/ e \in InFlight
            \/ \E core \in Cores : PushLogs(core) /\ e.core = core /\ e.block = cursor[core]
  <1> DEFINE P == /\ e \in events
                  /\ \/ e \in InFlight
                     \/ \E core \in Cores :
                          PushLogs(core) /\ e.core = core /\ e.block = cursor[core]
  <1>1. InQueue(e)' \/ \E t \in Threads : InThread(t, e)'
    BY DEF InFlight, InQueue, InThread
  <1>2. e # None
    <2>1. e \in events' /\ TypeOK'
      BY InvWorkerStep DEF InFlight, Inv
    <2> QED BY <2>1, WorkerNoneAssumption DEF TypeOK
  <1>3. ASSUME InQueue(e) \/ \E t \in Threads : InThread(t, e) PROVE P
    <2>1. e \in events
      <3>1. CASE InQueue(e)
        <4>1. queue \in Seq(SUBSET events)
          BY TypesOfParts DEF ServiceTypes
        <4> QED BY <3>1, <4>1 DEF InQueue
      <3>2. ASSUME NEW t \in Threads, InThread(t, e) PROVE e \in events
        BY <1>2, <3>2, WorkerTypes DEF ThreadTypes, InThread
      <3> QED BY <1>3, <3>1, <3>2
    <2> QED BY <1>3, <2>1, InFlightIs
  <1>4. ASSUME UNCHANGED <<queue, current, batch>> PROVE P
    BY <1>1, <1>3, <1>4 DEF InQueue, InThread
  <1>5. ASSUME NEW core \in Cores, PushLogs(core), UNCHANGED <<current, batch>> PROVE P
    <2>1. InQueue(e)' => InQueue(e) \/ (e \in events /\ e.core = core /\ e.block = cursor[core])
      BY <1>5, PushHolds
    <2>2. \A t \in Threads : InThread(t, e)' => InThread(t, e)
      BY <1>5 DEF InThread
    <2> QED BY <1>1, <1>3, <1>5, <2>1, <2>2
  <1>6. ASSUME Crash PROVE P
    BY <1>1, <1>2, <1>6 DEF Crash, InQueue, InThread
  <1>7. ASSUME NEW t \in Threads, Takes(t) PROVE P
    <2>1. InQueue(e)' => InQueue(e)
      BY <1>7, TailHolds DEF Takes
    <2>2. e \in Head(queue) => InQueue(e)
      <3>1. queue # <<>>
        BY <1>7 DEF Takes
      <3>2. Head(queue) = queue[1] /\ 1 \in 1..Len(queue)
        BY <3>1, HeadOfQueue
      <3> QED BY <3>2 DEF InQueue
    <2>3. \A u \in Threads : InThread(u, e)' => InThread(u, e) \/ e \in Head(queue)
      BY <1>7, BeginsHand DEF Takes, InThread
    <2> QED BY <1>1, <1>3, <2>1, <2>2, <2>3
  <1>8. ASSUME NEW t \in Threads, Leaves(t) PROVE P
    <2>1. InQueue(e)' => InQueue(e)
      BY <1>8 DEF Leaves, InQueue
    <2>2. e \in events
      <3>1. e \in events' /\ events' = events
        BY <1>8 DEF InFlight, Leaves, vars, coreVars
      <3> QED BY <3>1
    <2>3. \A u \in Threads : InThread(u, e)' => InThread(u, e)
      BY <1>8, <2>2, AdvancesHand DEF Leaves, InThread
    <2> QED BY <1>1, <1>3, <2>1, <2>3
  <1> HIDE DEF P
  <1>9. P
    BY <1>4, <1>5, <1>6, <1>7, <1>8, HandCases
  <1> QED BY <1>9 DEF P

(* Listeners stay where no event that is to come can be missed. *)
LEMMA ResumeStep ==
  ASSUME Inv, WorkerTypeOK, Tells, Resume, [WorkerNext]_systemVars
  PROVE  Resume'
  <1> USE DEF listenVars
  <1>1. /\ events \subseteq events' /\ \A e \in events' \ events : e.block = height
        /\ height \in Nat /\ height' \in Nat /\ height' >= height
    BY InvWorkerStep DEF ChainGrows, Inv, TypeOK
  <1>2. /\ cursor \in [Cores -> 0..MaxBlock + 1] /\ cursor' \in [Cores -> 0..MaxBlock + 1]
        /\ fromBlock \in [Cores -> 0..MaxBlock + 1]
    BY WorkerTypeStep DEF WorkerTypeOK
  <1>3. \A core \in Cores : cursor'[core] <= height
    BY CursorStep
  <1>4. \A core \in Cores : cursor'[core] <= height'
    BY <1>1, <1>2, <1>3
  <1>5. ASSUME NEW e \in events, e \in InFlight'
        PROVE  e.block < cursor'[e.core]
    <2> DEFINE P == e.block < cursor'[e.core]
    <2>1. e.core \in Cores /\ e.block \in Nat /\ e.block > 0
      BY EventParts
    <2>2. ASSUME e \in InFlight, cursor[e.core] <= cursor'[e.core] PROVE P
      BY <1>2, <2>1, <2>2 DEF Resume
    <2>3. ASSUME Crash PROVE FALSE
      <3>1. e # None
        BY EventIsNotNone
      <3> QED BY <1>5, <2>3, <3>1 DEF Crash, InFlight
    <2>4. ASSUME NEW core \in Cores, Listen(core), e \in InFlight PROVE P
      <3>1. e.block < cursor[e.core] /\ cursor[core] = 0
        BY <2>4 DEF Resume, Listen
      <3>2. core # e.core
        BY <1>2, <2>1, <3>1
      <3>3. cursor'[e.core] = cursor[e.core]
        BY <1>2, <2>1, <2>4, <3>2 DEF Listen
      <3> QED BY <3>1, <3>3
    <2>5. ASSUME NEW core \in Cores, PushLogs(core) PROVE P
      <3>1. cursor' = [cursor EXCEPT ![core] = @ + 1]
        BY <2>5 DEF PushLogs
      <3>2. cursor'[e.core] = IF e.core = core THEN cursor[core] + 1 ELSE cursor[e.core]
        BY <1>2, <2>1, <3>1
      <3>3. CASE e \in InFlight
        BY <1>2, <2>1, <2>2, <3>2, <3>3
      <3>4. CASE e \notin InFlight
        <4>1. PICK k \in Cores : PushLogs(k) /\ e.core = k /\ e.block = cursor[k]
          BY <1>5, <3>4, ComesToHand
        <4>2. cursor' = [cursor EXCEPT ![k] = @ + 1]
          BY <4>1 DEF PushLogs
        <4> QED BY <1>2, <2>1, <4>1, <4>2
      <3> QED BY <3>3, <3>4
    <2>6. ASSUME UNCHANGED cursor PROVE P
      <3>1. CASE e \in InFlight
        BY <1>2, <2>1, <2>2, <2>6, <3>1
      <3>2. CASE e \notin InFlight
        BY <1>5, <2>5, <3>2, ComesToHand
      <3> QED BY <3>1, <3>2
    <2>7. ASSUME NEW core \in Cores, Listen(core), UNCHANGED <<queue, current, batch>> PROVE P
      <3>1. CASE e \in InFlight
        BY <2>4, <2>7, <3>1
      <3>2. CASE e \notin InFlight
        BY <1>5, <2>5, <3>2, ComesToHand
      <3> QED BY <3>1, <3>2
    <2> HIDE DEF P
    <2>8. P
      BY <2>3, <2>5, <2>6, <2>7, HandCases DEF Takes, Leaves
    <2> QED BY <2>8 DEF P
  <1>6. \A e \in InFlight' : e.block < cursor'[e.core]
    <2> SUFFICES ASSUME NEW e \in InFlight' PROVE e.block < cursor'[e.core]
      OBVIOUS
    <2>1. e \in events
      BY ComesToHand
    <2> QED BY <1>5, <2>1
  <1>7. ASSUME NEW e \in events', fromBlock'[e.core] <= e.block, e.block < cursor'[e.core]
        PROVE  reqHistory'[e.id] # None \/ e \in InFlight'
    <2> DEFINE P == reqHistory'[e.id] # None \/ e \in InFlight'
    <2>1. /\ e.core \in Cores /\ e.id \in RequestId /\ e.block \in Nat
      <3>1. e \in RandomnessRequestEvent
        BY InvWorkerStep DEF Inv, TypeOK
      <3> QED BY <3>1 DEF RandomnessRequestEvent
    <2>2. e \in events
      BY <1>1, <1>2, <1>3, <1>7, <2>1
    <2>3. ~Crash
      <3>1. ASSUME Crash PROVE FALSE
        BY <1>7, <2>1, <3>1 DEF Crash
      <3> QED BY <3>1
    <2>4. ASSUME fromBlock[e.core] <= e.block, e.block < cursor[e.core] PROVE P
      <3>1. CASE reqHistory[e.id] # None
        BY <2>1, <3>1, RowsStayStep DEF RowsStay
      <3>2. CASE e \in InFlight
        BY <2>2, <2>3, <3>2, KeptInHand
      <3> QED BY <2>2, <2>4, <3>1, <3>2 DEF Resume, PushedEventsAreKept
    <2>5. ASSUME NEW core \in Cores, Listen(core), UNCHANGED <<queue, current, batch>> PROVE P
      <3>1. PICK from \in 1..MaxBlock + 1 :
              /\ fromBlock' = [fromBlock EXCEPT ![core] = from]
              /\ cursor' = [cursor EXCEPT ![core] = from]
        BY <2>5 DEF Listen
      <3>2. e.core # core
        BY <1>2, <1>7, <2>1, <3>1
      <3>3. fromBlock'[e.core] = fromBlock[e.core] /\ cursor'[e.core] = cursor[e.core]
        BY <1>2, <2>1, <3>1, <3>2
      <3> QED BY <1>7, <2>4, <3>3
    <2>6. ASSUME NEW core \in Cores, PushLogs(core), UNCHANGED <<current, batch>> PROVE P
      <3>1. fromBlock' = fromBlock /\ cursor' = [cursor EXCEPT ![core] = @ + 1]
        BY <2>6 DEF PushLogs
      <3>2. CASE e.core = core /\ e.block = cursor[core]
        <4>1. InQueue(e)'
          BY <2>2, <2>6, <3>2, PushHolds
        <4> QED BY <1>7, <4>1 DEF InFlight, InQueue
      <3>3. CASE ~(e.core = core /\ e.block = cursor[core])
        <4>1. e.block < cursor[e.core]
          BY <1>2, <1>7, <2>1, <3>1, <3>3
        <4> QED BY <1>7, <2>4, <3>1, <4>1
      <3> QED BY <3>2, <3>3
    <2>7. ASSUME UNCHANGED listenVars PROVE P
      BY <1>7, <2>4, <2>7
    <2> HIDE DEF P
    <2>8. P
      BY <2>3, <2>5, <2>6, <2>7, HandCases DEF Takes, Leaves
    <2> QED BY <2>8 DEF P
  <1>8. PushedEventsAreKept'
    BY <1>7 DEF PushedEventsAreKept
  <1> QED BY <1>4, <1>6, <1>8, RowBlocksStep DEF Resume

-----------------------------------------------------------------------------
(* The requests of clients nobody else speaks for. *)

(* An event is in hand at most in one batch or with one thread. *)
Once(e) ==
  /\ \A k, l \in 1..Len(queue) : e \in queue[k] /\ e \in queue[l] => k = l
  /\ \A t \in Threads : InThread(t, e) => ~InQueue(e)
  /\ \A t, u \in Threads : InThread(t, e) /\ InThread(u, e) => t = u

EventsOnce == \A e \in events : Once(e)

(* No event gets in hand twice. *)
LEMMA OnceStep ==
  ASSUME Inv, WorkerTypeOK, Tells, Resume, EventsOnce, [WorkerNext]_systemVars
  PROVE  EventsOnce'
  <1> SUFFICES ASSUME NEW e \in events' PROVE Once(e)'
    BY DEF EventsOnce
  <1>1. CASE e \notin events
    <2>1. e \notin InFlight'
      BY <1>1, ComesToHand
    <2>2. ~InQueue(e)' /\ \A t \in Threads : ~InThread(t, e)'
      BY <2>1 DEF InFlight, InQueue, InThread
    <2> QED BY <2>2 DEF Once, InQueue
  <1>2. CASE e \in events
    <2> DEFINE P == Once(e)'
    <2>1. Once(e) /\ e # None
      BY <1>2, EventIsNotNone DEF EventsOnce
    <2>2. ASSUME UNCHANGED <<queue, current, batch>> PROVE P
      BY <2>1, <2>2 DEF Once, InQueue, InThread
    <2>3. ASSUME NEW core \in Cores, PushLogs(core), UNCHANGED <<current, batch>> PROVE P
      <3> DEFINE pushed == {x \in events : x.core = core /\ x.block = cursor[core]}
      <3>1. queue' = IF pushed = {} THEN queue ELSE Append(queue, pushed)
        BY <2>3 DEF PushLogs
      <3>2. queue \in Seq(SUBSET events) /\ pushed \in SUBSET events
        BY TypesOfParts DEF ServiceTypes
      <3>3. e \in pushed => ~InQueue(e) /\ \A t \in Threads : ~InThread(t, e)
        <4>1. ASSUME e \in pushed PROVE e \notin InFlight
          <5>1. e.core = core /\ e.block = cursor[core]
            BY <4>1
          <5>2. e.block \in Nat /\ cursor[e.core] \in Nat
            BY <1>2, EventParts
          <5> QED BY <5>1, <5>2 DEF Resume
        <4> QED BY <1>2, <4>1, InFlightIs
      <3> HIDE DEF pushed
      <3>4. CASE pushed = {}
        BY <2>2, <2>3, <3>1, <3>4
      <3>5. CASE pushed # {}
        <4>1. /\ Len(queue) \in Nat /\ Len(queue') = Len(queue) + 1
              /\ \A k \in 1..Len(queue) : queue'[k] = queue[k]
              /\ queue'[Len(queue) + 1] = pushed
          BY <3>1, <3>2, <3>5
        <4>2. ASSUME NEW k \in 1..Len(queue'), e \in queue'[k]
              PROVE  \/ k \in 1..Len(queue) /\ e \in queue[k] /\ InQueue(e)
                     \/ k = Len(queue) + 1 /\ e \in pushed
          BY <4>1, <4>2 DEF InQueue
        <4>3. ASSUME NEW k \in 1..Len(queue'), NEW l \in 1..Len(queue'),
                     e \in queue'[k], e \in queue'[l]
              PROVE  k = l
          BY <2>1, <3>3, <4>2, <4>3 DEF Once
        <4>4. ASSUME NEW t \in Threads, InThread(t, e)' PROVE ~InQueue(e)'
          <5>1. InThread(t, e)
            BY <2>3, <4>4 DEF InThread
          <5> QED BY <2>1, <3>3, <4>2, <5>1 DEF Once, InQueue
        <4>5. ASSUME NEW t \in Threads, NEW u \in Threads, InThread(t, e)', InThread(u, e)'
              PROVE  t = u
          BY <2>1, <2>3, <4>5 DEF Once, InThread
        <4> QED BY <4>3, <4>4, <4>5 DEF Once
      <3> QED BY <3>4, <3>5
    <2>4. ASSUME Crash PROVE P
      <3>1. queue' = <<>> /\ \A t \in Threads : ~InThread(t, e)'
        BY <2>1, <2>4 DEF Crash, InThread
      <3> QED BY <3>1 DEF Once
    <2>5. ASSUME NEW t \in Threads, Takes(t) PROVE P
      <3>1. /\ queue # <<>> /\ queue' = Tail(queue) /\ pc[t] = "idle"
            /\ Begins(t, Head(queue))
        BY <2>5 DEF Takes
      <3>2. /\ Head(queue) = queue[1] /\ Len(queue) \in Nat \ {0}
            /\ Len(queue') = Len(queue) - 1
            /\ \A k \in 1..Len(queue') : queue'[k] = queue[k + 1]
        BY <3>1, HeadOfQueue
      <3>3. /\ InThread(t, e)' <=> e \in queue[1]
            /\ \A u \in Threads : u # t => (InThread(u, e)' <=> InThread(u, e))
        BY <3>1, <3>2, BeginsHand DEF InThread
      <3>4. ASSUME NEW k \in 1..Len(queue'), e \in queue'[k]
            PROVE  /\ k + 1 \in 1..Len(queue) /\ e \in queue[k + 1]
                   /\ InQueue(e) /\ e \notin queue[1]
        <4>1. k + 1 \in 1..Len(queue) /\ e \in queue[k + 1] /\ 1 \in 1..Len(queue) /\ k + 1 # 1
          BY <3>2, <3>4
        <4> QED BY <2>1, <4>1 DEF Once, InQueue
      <3>5. ASSUME NEW k \in 1..Len(queue'), NEW l \in 1..Len(queue'),
                   e \in queue'[k], e \in queue'[l]
            PROVE  k = l
        <4>1. k + 1 = l + 1
          BY <2>1, <3>4, <3>5 DEF Once
        <4> QED BY <4>1
      <3>6. e \in queue[1] => InQueue(e)
        BY <3>2 DEF InQueue
      <3>7. ASSUME NEW u \in Threads, InThread(u, e)' PROVE ~InQueue(e)'
        <4> SUFFICES ASSUME InQueue(e)' PROVE FALSE
          OBVIOUS
        <4>1. InQueue(e) /\ e \notin queue[1]
          BY <3>4 DEF InQueue
        <4> QED BY <2>1, <3>3, <3>7, <4>1 DEF Once
      <3>8. ASSUME NEW u \in Threads, NEW v \in Threads, InThread(u, e)', InThread(v, e)'
            PROVE  u = v
        BY <2>1, <3>3, <3>6, <3>8 DEF Once
      <3> QED BY <3>5, <3>7, <3>8 DEF Once
    <2>6. ASSUME NEW t \in Threads, Leaves(t) PROVE P
      <3>1. queue' = queue /\ \A u \in Threads : InThread(u, e)' => InThread(u, e)
        BY <1>2, <2>6, AdvancesHand DEF Leaves, InThread
      <3> QED BY <2>1, <3>1 DEF Once, InQueue
    <2> HIDE DEF P
    <2>7. P
      BY <2>2, <2>3, <2>4, <2>5, <2>6, HandCases
    <2> QED BY <2>7 DEF P
  <1> QED BY <1>1, <1>2

(* Requests of such a client are announced by its own core only. *)
OwnCore == \A e \in events : e.id.sender \notin Foreign => e.core = CoreOf[e.id.sender]

(* Only its core announces the requests of a client nobody speaks for. *)
LEMMA OwnCoreStep ==
  ASSUME Inv, OwnCore, [Next]_vars
  PROVE  OwnCore'
  <1>1. ASSUME events' = events PROVE OwnCore'
    BY <1>1 DEF OwnCore
  <1>2. ASSUME NEW core \in Cores, NEW key \in KeyHashes, NEW seed \in Seeds,
               NEW sender \in Clients, RandomnessRequest(core, key, seed, sender),
               core = CoreOf[sender] \/ sender \in Foreign
        PROVE  OwnCore'
    <2> DEFINE id == NextAtCore(core, key, seed, sender)
               event == [core |-> core, id |-> id, block |-> height]
    <2>0. Requested(core, key, seed, sender)
      BY <1>2, RequestEffect DEF Inv
    <2>1. events' = events \cup {event} /\ id.sender = sender
      BY <2>0 DEF Requested
    <2>2. event.core = core /\ event.id = id
      OBVIOUS
    <2> HIDE DEF event, id
    <2> QED BY <1>2, <2>1, <2>2 DEF OwnCore
  <1>3. ASSUME NEW c \in Clients, NEW core \in Cores, NEW key \in KeyHashes,
               NEW seed \in Seeds, VrfQuery(c, core, key, seed), core = CoreOf[c] \/ c \in Foreign
        PROVE  OwnCore'
    BY <1>2, <1>3 DEF VrfQuery
  <1>4. ASSUME NEW core \in Cores, NEW key \in KeyHashes, NEW seed \in Seeds,
               NEW sender \in Foreign, RandomnessRequest(core, key, seed, sender),
               UNCHANGED clientVars
        PROVE  OwnCore'
    BY <1>2, <1>4, VRFAssumption
  <1>5. ASSUME NEW core \in Cores, NEW id \in RequestId, NEW block \in 1..MaxBlock,
               NEW hash \in Hashes, FulfillRandomnessRequest(core, id, block, hash)
        PROVE  OwnCore'
    BY <1>1, <1>5 DEF FulfillRandomnessRequest
  <1>6. ASSUME Tick PROVE OwnCore'
    BY <1>1, <1>6 DEF Tick, coreVars
  <1>7. CASE Next
    BY <1>7, <1>3, <1>4, <1>5, <1>6, NextCases
  <1> QED BY <1>1, <1>7 DEF vars, coreVars

(* While a thread has such a request in work, its row is not finished, and  *)
(* it finds its row as it left it.                                          *)
OwnRow(t) ==
  pc[t] \in Working /\ current[t].id.sender \notin Foreign =>
    /\ pc[t] = "save" => reqHistory[current[t].id] = None
    /\ pc[t] \in {"prove", "fulfill", "update"} => reqHistory[current[t].id].proof = None

OwnRows == \A t \in Threads : OwnRow(t)

(* No two threads have the same such request in work. *)
LEMMA OwnAlone ==
  ASSUME Inv, WorkerTypeOK, OwnCore, EventsOnce, NEW t \in Threads, NEW u \in Threads,
         pc[t] \in Working, pc[u] \in Working, current[t].id = current[u].id,
         current[t].id.sender \notin Foreign
  PROVE  t = u
  <1>1. current[t] \in events /\ current[u] \in events
    BY EventType
  <1>2. current[t].core = current[u].core
    BY <1>1 DEF OwnCore
  <1>3. current[t] = current[u]
    BY <1>1, <1>2 DEF Inv, EventsTell
  <1>4. Once(current[t]) /\ InThread(t, current[t]) /\ InThread(u, current[t])
    BY <1>1, <1>3 DEF EventsOnce, InThread
  <1> QED BY <1>4 DEF Once

(* A step of t does not touch the rows of what others have in work. *)
LEMMA OwnRowOfOthers ==
  ASSUME Inv, WorkerTypeOK, OwnCore, EventsOnce, OwnRows,
         NEW t \in Threads, NEW p, NEW e, NEW b, NEW o, Moves(t, p, e, b, o),
         \/ reqHistory' = reqHistory
         \/ pc[t] \in Working /\ \A i \in RequestId :
                                   i # current[t].id => reqHistory'[i] = reqHistory[i]
  PROVE  \A u \in Threads : u # t => OwnRow(u)'
  <1> SUFFICES ASSUME NEW u \in Threads, u # t, pc[u] \in Working,
                      current[u].id.sender \notin Foreign,
                      pc'[u] = pc[u], current'[u] = current[u]
               PROVE  OwnRow(u)'
    BY DEF OwnRow, Moves
  <1>1. current[u].id \in RequestId
    BY EventType
  <1>2. reqHistory'[current[u].id] = reqHistory[current[u].id]
    BY <1>1, OwnAlone
  <1> QED BY <1>2 DEF OwnRow, OwnRows

(* So nobody else writes the row of a thread that works on such a request. *)
LEMMA OwnRowsStep ==
  ASSUME Inv, WorkerTypeOK, Tells, OwnCore, EventsOnce, OwnRows, [WorkerNext]_systemVars
  PROVE  OwnRows'
  <1> USE DEF threadVars
  <1>1. ASSUME UNCHANGED <<pc, current, reqHistory>> PROVE OwnRows'
    BY <1>1 DEF OwnRows, OwnRow
  <1>2. ASSUME NEW t \in Threads, NEW p \in {"idle", "find"}, NEW e, NEW b, NEW o,
               Moves(t, p, e, b, o),
               \/ reqHistory' = reqHistory
               \/ pc[t] \in Working /\ \A i \in RequestId :
                                         i # current[t].id => reqHistory'[i] = reqHistory[i]
        PROVE  OwnRows'
    <2>1. OwnRow(t)'
      BY <1>2 DEF Moves, OwnRow
    <2> QED BY <1>2, <2>1, OwnRowOfOthers DEF OwnRows
  <1>3. ASSUME NEW t \in Threads, Begins(t, Head(queue)) \/ Advances(t),
               \/ reqHistory' = reqHistory
               \/ pc[t] \in Working /\ \A i \in RequestId :
                                         i # current[t].id => reqHistory'[i] = reqHistory[i]
        PROVE  OwnRows'
    <2>1. ASSUME NEW pushed, Begins(t, pushed) PROVE OwnRows'
      BY <1>2, <1>3, <2>1 DEF Begins
    <2> QED BY <1>2, <1>3, <2>1 DEF Advances
  <1>4. ASSUME NEW t \in Threads, Takes(t) PROVE OwnRows'
    BY <1>3, <1>4 DEF Takes
  <1>5. ASSUME NEW t \in Threads, Finds(t) PROVE OwnRows'
    <2>1. CASE reqHistory[current[t].id] = None
               /\ Moves(t, "save", current[t], batch[t], outcome[t])
      <3>1. reqHistory' = reqHistory /\ pc'[t] = "save" /\ current'[t] = current[t]
        BY <1>5, <2>1 DEF Finds, Moves
      <3>2. OwnRow(t)'
        BY <2>1, <3>1 DEF OwnRow
      <3> QED BY <2>1, <3>1, <3>2, OwnRowOfOthers DEF OwnRows
    <2>2. CASE Advances(t)
      BY <1>3, <1>5, <2>2 DEF Finds
    <2> QED BY <1>5, <2>1, <2>2 DEF Finds
  <1>6. ASSUME NEW t \in Threads, Saves(t) PROVE OwnRows'
    <2>1. pc[t] = "save" /\ pc[t] \in Working
      BY <1>6 DEF Saves, Working
    <2>2. current[t].id \in RequestId
      BY <2>1, EventType
    <2>3. CASE reqHistory[current[t].id] # None
      <3>1. /\ Moves(t, "update", current[t], batch[t],
                     [status |-> "UNEXPECTED", proof |-> NoResult])
            /\ reqHistory' = reqHistory
        BY <1>6, <2>3 DEF Saves
      <3>2. current[t].id.sender \in Foreign
        BY <2>1, <2>3 DEF OwnRows, OwnRow
      <3>3. OwnRow(t)'
        BY <3>1, <3>2 DEF Moves, OwnRow
      <3> QED BY <3>1, <3>3, OwnRowOfOthers DEF OwnRows
    <2>4. CASE reqHistory[current[t].id] = None
      <3>1. /\ Moves(t, "prove", current[t], batch[t], outcome[t])
            /\ Stores(current[t].id, NewRow(current[t]))
        BY <1>6, <2>4 DEF Saves
      <3>2. /\ reqHistory'[current[t].id].proof = None
            /\ \A i \in RequestId : i # current[t].id => reqHistory'[i] = reqHistory[i]
        BY <2>2, <3>1 DEF Stores, NewRow
      <3>3. OwnRow(t)'
        BY <3>1, <3>2 DEF Moves, OwnRow
      <3> QED BY <2>1, <3>1, <3>2, <3>3, OwnRowOfOthers DEF OwnRows
    <2> QED BY <2>3, <2>4
  <1>7. ASSUME NEW t \in Threads, NEW p \in {"fulfill", "update"}, NEW o,
               pc[t] \in {"prove", "fulfill"}, reqHistory' = reqHistory,
               Moves(t, p, current[t], batch[t], o)
        PROVE  OwnRows'
    <2>1. OwnRow(t)'
      BY <1>7 DEF Moves, OwnRow, OwnRows, Working
    <2> QED BY <1>7, <2>1, OwnRowOfOthers DEF OwnRows
  <1>8. ASSUME NEW t \in Threads, Proves(t) PROVE OwnRows'
    BY <1>7, <1>8 DEF Proves, Fails
  <1>9. ASSUME NEW t \in Threads, Fulfills(t) PROVE OwnRows'
    <2>1. \E o : Moves(t, "update", current[t], batch[t], o)
      BY <1>9 DEF Fulfills, Fails
    <2> QED BY <1>7, <1>9, <2>1 DEF Fulfills
  <1>10. ASSUME NEW t \in Threads, Updates(t) PROVE OwnRows'
    <2>1. pc[t] \in Working /\ Advances(t)
      BY <1>10 DEF Updates, Working
    <2>2. \/ reqHistory' = reqHistory
          \/ \A i \in RequestId : i # current[t].id => reqHistory'[i] = reqHistory[i]
      BY <1>10 DEF Updates, Stores
    <2> QED BY <1>3, <2>1, <2>2
  <1>11. ASSUME Crash PROVE OwnRows'
    BY <1>11 DEF Crash, OwnRows, OwnRow, Working
  <1>12. CASE WorkerNext
    BY <1>1, <1>4, <1>5, <1>6, <1>8, <1>9, <1>10, <1>11, <1>12, StepCases
       DEF ChainStep, workerVars, Listen, PushLogs
  <1> QED BY <1>1, <1>12 DEF systemVars, workerVars

-----------------------------------------------------------------------------
(* What holds in every reachable state, and what follows. *)

WorkerInv ==
  /\ Inv /\ WorkerTypeOK
  /\ Tells /\ ExclusiveProcessing /\ Delivery /\ Resume
  /\ OwnCore /\ EventsOnce /\ OwnRows
  /\ ServiceRandomnessIsFixed

(* The inductive invariant holds at first. *)
LEMMA WorkerInitInv == WorkerInit => WorkerInv
  <1> SUFFICES ASSUME WorkerInit PROVE WorkerInv
    OBVIOUS
  <1>1. Inv /\ TypeOK
    BY InitInv DEF WorkerInit, Inv
  <1>2. /\ events = {} /\ height \in Nat /\ height > 0
        /\ resultMap = [id \in RequestId |-> None]
    BY <1>1 DEF WorkerInit, Init, TypeOK
  <1>3. MaxBlock \in Nat /\ MaxCrashes \in Nat
    BY VRFAssumption, WorkerAssumption
  <1>4. /\ platform \in Platforms /\ crashes = 0 /\ queue = <<>>
        /\ reqHistory = [id \in RequestId |-> None]
        /\ fromBlock = [core \in Cores |-> 0] /\ cursor = [core \in Cores |-> 0]
        /\ pc = [t \in Threads |-> "idle"] /\ current = [t \in Threads |-> None]
        /\ batch = [t \in Threads |-> {}] /\ outcome = [t \in Threads |-> Success]
        /\ actualSeed = [t \in Threads |-> None] /\ randomness = [t \in Threads |-> None]
    BY DEF WorkerInit
  <1>5. 0 \in 0..MaxBlock + 1 /\ 0 \in 0..MaxCrashes
    BY <1>3
  <1>6. queue \in Seq(SUBSET events)
    BY <1>4
  <1>7. WorkerTypeOK
    BY <1>1, <1>4, <1>5, <1>6, SuccessType DEF WorkerTypeOK, Working
  <1>8. Tells
    BY <1>4 DEF Tells, ThreadTells, RowTells
  <1>9. ExclusiveProcessing /\ Delivery
    BY <1>2, <1>4 DEF ExclusiveProcessing, Delivery, Processing, Blamed, Blames
  <1>10. Resume
    BY <1>2, <1>4 DEF Resume, InFlight, PushedEventsAreKept
  <1>11. OwnCore /\ EventsOnce /\ OwnRows
    BY <1>2, <1>4 DEF OwnCore, EventsOnce, OwnRows, OwnRow, Working
  <1>12. ServiceRandomnessIsFixed
    BY <1>2 DEF ServiceRandomnessIsFixed
  <1> QED BY <1>1, <1>7, <1>8, <1>9, <1>10, <1>11, <1>12 DEF WorkerInv

(* Every step keeps it. *)
LEMMA WorkerInvStep == WorkerInv /\ [WorkerNext]_systemVars => WorkerInv'
  <1> SUFFICES ASSUME WorkerInv, [WorkerNext]_systemVars PROVE WorkerInv'
    OBVIOUS
  <1> USE DEF WorkerInv
  <1>1. Inv' /\ [Next]_vars
    BY InvWorkerStep, StepOnChain
  <1>2. WorkerTypeOK' /\ Tells' /\ ExclusiveProcessing'
    BY WorkerTypeStep, TellsStep, ExclusiveStep
  <1>3. Delivery' /\ Resume'
    BY DeliveryStep, ResumeStep
  <1>4. OwnCore' /\ EventsOnce' /\ OwnRows'
    BY <1>1, OwnCoreStep, OnceStep, OwnRowsStep
  <1>5. ServiceRandomnessIsFixed'
    BY FixedStep
  <1> QED BY <1>1, <1>2, <1>3, <1>4, <1>5

(* It holds in every reachable state. *)
LEMMA WorkerInvariance == WorkerSpec => []WorkerInv
  BY WorkerInitInv, WorkerInvStep, PTL DEF WorkerSpec

(* To the contracts, the service is one of the parties VRFCore allows for:   *)
(* it changes nothing in them but by fulfillRandomnessRequest, as anybody may *)
(* call it. What is proved of VRFCore therefore holds with a service, too.   *)
THEOREM WorkerImplementsVRFCore == WorkerSpec => Spec
  <1>1. WorkerInit => Init
    BY DEF WorkerInit
  <1>2. WorkerInv /\ [WorkerNext]_systemVars => [Next]_vars
    BY StepOnChain DEF WorkerInv
  <1> QED BY <1>1, <1>2, WorkerInvariance, PTL DEF WorkerSpec, Spec

(* Every variable of the service holds a value of its type, and a thread has *)
(* an event exactly while it works (AbstractContractWorker, processSingleLog). *)
THEOREM WorkerTypeCorrect == WorkerSpec => []WorkerTypeOK
  BY WorkerInvariance, PTL DEF WorkerInv

(* However many threads and cores announce a request, at most one thread     *)
(* proves and delivers it at a time, and it has a row by then: the unique    *)
(* req_id decides between those that found none.                             *)
THEOREM ProofsAreExclusive == WorkerSpec => []ExclusiveProcessing
  BY WorkerInvariance, PTL DEF WorkerInv

(* After any number of crashes, the table knows every request for the        *)
(* service's key whose consumer has a value, tells no other value, and does  *)
(* not say that the chain refused it, unless AbstractCoreService took the    *)
(* receipt of a time-out for that.                                           *)
THEOREM DeliveriesAreRecorded == WorkerSpec => []DeliveredIsRecorded
  <1>1. WorkerInv => DeliveredIsRecorded
    <2> SUFFICES ASSUME WorkerInv, NEW id \in RequestId, id.key = ServiceKey,
                        resultMap[id] # None
                 PROVE  /\ reqHistory[id] # None
                        /\ reqHistory[id].status = "UPLOAD_ERROR" => platform = "fiscobcos2"
                        /\ reqHistory[id].proof \in {None, NoResult, resultMap[id]}
      BY DEF DeliveredIsRecorded
    <2>1. reqHistory[id] # None /\ (platform # "fiscobcos2" => ~Blamed(id))
      BY DEF WorkerInv, Delivery
    <2>4. reqHistory[id].status = "UPLOAD_ERROR" => platform = "fiscobcos2"
      BY <2>1 DEF Blamed
    <2>5. RowTells(id)
      BY DEF WorkerInv, Tells
    <2>6. reqHistory[id].proof \in {None, NoResult, resultMap[id]}
      BY <2>1, <2>5 DEF RowTells
    <2> QED BY <2>1, <2>4, <2>6
  <1> QED BY <1>1, WorkerInvariance, PTL

(* With the service as the only holder of its key, the choice is not made:   *)
(* the value is the one fixed by the block of the request, in either         *)
(* generation and after any crash.                                          *)
THEOREM RandomnessIsFixed == WorkerSpec => []ServiceRandomnessIsFixed
  BY WorkerInvariance, PTL DEF WorkerInv

(* A finished row with status SUCCESS tells the value its consumer has, and  *)
(* seed and randomness in it are of this request, although the thread-locals *)
(* of AbstractEventCallback are never cleared.                               *)
THEOREM SuccessIsTold == WorkerSpec => []SuccessTellsRandomness
  <1>1. WorkerInv => SuccessTellsRandomness
    <2> SUFFICES ASSUME WorkerInv, NEW id \in Rows,
                        reqHistory[id].status = "SUCCESS", reqHistory[id].proof # None
                 PROVE  /\ resultMap[id] = reqHistory[id].proof
                        /\ reqHistory[id].sourceType = "VRF" =>
                             /\ reqHistory[id].actualSeed = resultMap[id]
                             /\ reqHistory[id].randomness = resultMap[id]
      BY DEF SuccessTellsRandomness
    <2>1. id \in RequestId /\ reqHistory[id] # None
      BY DEF Rows
    <2>2. RowTells(id)
      BY <2>1 DEF WorkerInv, Tells
    <2> QED BY <2>1, <2>2 DEF RowTells
  <1> QED BY <1>1, WorkerInvariance, PTL

(* No event pushed since the listener started is dropped between its queue   *)
(* and the save of its row.                                                  *)
THEOREM NoPushedEventIsLost == WorkerSpec => []PushedEventsAreKept
  BY WorkerInvariance, PTL DEF WorkerInv, Resume

(* Only save and update write rows. *)
LEMMA RowsWritten ==
  ASSUME WorkerTypeOK, [WorkerNext]_systemVars
  PROVE  reqHistory' = reqHistory \/ \E t \in Threads : Saves(t) \/ Updates(t)
  <1>1. ASSUME ChainStep PROVE reqHistory' = reqHistory
    BY <1>1 DEF ChainStep, workerVars
  <1>2. CASE WorkerNext
    BY <1>1, <1>2, StepCases
       DEF Listen, PushLogs, Crash, Takes, Finds, Proves, Fulfills
  <1>3. CASE UNCHANGED systemVars
    BY <1>3 DEF systemVars, workerVars
  <1> QED BY <1>2, <1>3

(* The finished row of a request that only its own core announces is not     *)
(* written again, although a crashed listener is pushed its event anew.      *)
THEOREM OwnRecordsAreFinal == WorkerSpec => OwnRecordsStay
  <1> DEFINE Stays == \A id \in Rows :
                        id.sender \notin Foreign /\ reqHistory[id].proof # None
                          => reqHistory'[id] = reqHistory[id]
  <1>1. ASSUME WorkerInv, [WorkerNext]_systemVars PROVE Stays
    <2> SUFFICES ASSUME NEW id \in Rows, id.sender \notin Foreign,
                        reqHistory[id].proof # None
                 PROVE  reqHistory'[id] = reqHistory[id]
      OBVIOUS
    <2> DEFINE P == reqHistory'[id] = reqHistory[id]
    <2>1. id \in RequestId /\ reqHistory[id] # None
      BY DEF Rows
    <2>0. WorkerTypeOK
      BY <1>1 DEF WorkerInv
    <2>2. ASSUME reqHistory' = reqHistory PROVE P
      BY <2>2
    <2>3. ASSUME NEW t \in Threads, Saves(t) PROVE P
      <3>1. CASE reqHistory[current[t].id] # None
        BY <2>2, <2>3, <3>1 DEF Saves
      <3>2. CASE reqHistory[current[t].id] = None
        <4>1. Stores(current[t].id, NewRow(current[t]))
          BY <2>3, <3>2 DEF Saves
        <4> QED BY <2>1, <3>2, <4>1 DEF Stores
      <3> QED BY <3>1, <3>2
    <2>4. ASSUME NEW t \in Threads, Updates(t) PROVE P
      <3>1. pc[t] = "update" /\ pc[t] \in Working
        BY <2>4 DEF Updates, Working
      <3>2. current[t].id # id
        BY <1>1, <3>1 DEF WorkerInv, OwnRows, OwnRow
      <3> QED BY <2>1, <2>2, <2>4, <3>2 DEF Updates, Stores
    <2> QED BY <1>1, <2>0, <2>2, <2>3, <2>4, RowsWritten
  <1>2. WorkerInv /\ [WorkerNext]_systemVars => [Stays]_systemVars
    BY <1>1
  <1>3. WorkerSpec => [][Stays]_systemVars
    BY <1>2, WorkerInvariance, PTL DEF WorkerSpec
  <1> QED BY <1>3 DEF OwnRecordsStay
=============================================================================
