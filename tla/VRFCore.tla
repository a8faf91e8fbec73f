------------------------------- MODULE VRFCore -------------------------------
(***************************************************************************)
(* The on-chain half of the VRF oracle: a core (VRFK1CoreWithBlockHash,    *)
(* VRFK1Core or VRF25519Core), the base contract VRFClient and the         *)
(* consumer RandomNumberSampleVRF (contracts/oracle/v3/simple-vrf).        *)
(*                                                                         *)
(* As in OracleCore, an action is a transaction that does not revert, and  *)
(* keccak256 is injective: a request id is the tuple that is hashed into   *)
(* it, through the seed of makeVRFInputSeed. Both sides compute it, each   *)
(* from a nonce of its own. A block is named by its height, and so is its  *)
(* hash; 0 is the zero word, and the hash of no block. A proof is that of  *)
(* the key's holder, for a request and a word he calls the block's hash;   *)
(* what it proves is the value Randomness(id, hash).                       *)
(*                                                                         *)
(* RandomNumberSampleVRF.randomResult, the last value received, is left    *)
(* out.                                                                    *)
(***************************************************************************)
EXTENDS Naturals, FiniteSets

CONSTANTS
  Cores,        \* VRF cores of the group
  HashIsPassed, \* those that are given the block hash: VRFK1CoreWithBlockHash
  Clients,      \* RandomNumberSampleVRF contracts
  Foreign,      \* clients in whose name others ask a core for randomness
  CoreOf,       \* CoreOf[c]: the vrfCoreAddress c was constructed with
  KeyOf,        \* KeyOf[c]: the keyHash c was constructed with
  KeyHashes,    \* hashes of public keys
  Seeds,        \* seeds a user may provide
  HashWindow,   \* blocks blockhash() remembers
  MaxBlock,     \* bound: the last block of a behaviour
  MaxEvents,    \* bound: requests of a behaviour
  MaxNonce,     \* bound: requests of a client for one key
  None          \* a mapping entry that is not set

ASSUME VRFAssumption ==
  /\ HashIsPassed \subseteq Cores
  /\ Foreign \subseteq Clients
  /\ CoreOf \in [Clients -> Cores]
  /\ KeyOf \in [Clients -> KeyHashes]
  /\ HashWindow \in Nat
  /\ MaxBlock \in Nat \ {0}
  /\ MaxEvents \in Nat
  /\ MaxNonce \in Nat

RequestId ==
  [key : KeyHashes, seed : Seeds, sender : Clients, nonce : 0..MaxNonce - 1]

(* Words a proof may be made for: the hashes of blocks, and the zero word. *)
Hashes == 0..MaxBlock

(* A VRF is a function: the output for a request and a block hash. *)
Randomness(id, hash) == [id |-> id, hash |-> hash]

Outputs == [id : RequestId, hash : Hashes]

CallbackEntry == [callbackContract : Clients, block : 1..MaxBlock]

ASSUME VRFNoneAssumption ==
  None \notin Cores /\ None \notin Outputs /\ None \notin CallbackEntry

VARIABLES
  height,           \* number of the block being built
  callbacks,        \* callbacks[core][id]: Callback struct, or None
  nonces,           \* nonces[core][key][sender] of the core
  events,           \* the RandomnessRequest events emitted
  clientNonces,     \* clientNonces[c][key]: VRFClient.nonces
  pendingRequests,  \* pendingRequests[id]: the core that may call back, or None
  validIds,         \* validIds[id]: open at the consumer
  resultMap         \* resultMap[id]: the value received, or None

coreVars == <<callbacks, nonces, events>>
clientVars == <<clientNonces, pendingRequests, validIds, resultMap>>
vars == <<height, coreVars, clientVars>>

RandomnessRequestEvent == [core : Cores, id : RequestId, block : 1..MaxBlock]

Init ==
  /\ height = 1
  /\ callbacks = [core \in Cores |-> [id \in RequestId |-> None]]
  /\ nonces = [core \in Cores |-> [key \in KeyHashes |-> [c \in Clients |-> 0]]]
  /\ events = {}
  /\ clientNonces = [c \in Clients |-> [key \in KeyHashes |-> 0]]
  /\ pendingRequests = [id \in RequestId |-> None]
  /\ validIds = [id \in RequestId |-> FALSE]
  /\ resultMap = [id \in RequestId |-> None]

-----------------------------------------------------------------------------
(* makeVRFInputSeed and makeRequestId. *)
MakeRequestId(key, seed, sender, nonce) ==
  [key |-> key, seed |-> seed, sender |-> sender, nonce |-> nonce]

(* The id of the next request, as the core and as the client computes it. *)
NextAtCore(core, key, seed, sender) ==
  MakeRequestId(key, seed, sender, nonces[core][key][sender])

(* Mutant: the client counts before it computes the id. *)
NextAtClient_CountFirst(c, key, seed) ==
  MakeRequestId(key, seed, c, clientNonces[c][key] + 1)

NextAtClient(c, key, seed) == MakeRequestId(key, seed, c, clientNonces[c][key])

(* Mutant: the nonce is not counted. *)
RandomnessRequest_SameNonce(core, key, seed, sender) ==
  LET id == NextAtCore(core, key, seed, sender)
  IN  /\ Cardinality(events) < MaxEvents
      /\ height < MaxBlock /\ nonces[core][key][sender] < MaxNonce
      /\ callbacks[core][id] = None
      /\ callbacks' = [callbacks EXCEPT
           ![core][id] = [callbackContract |-> sender, block |-> height]]
      /\ events' = events \cup {[core |-> core, id |-> id, block |-> height]}
      /\ UNCHANGED <<height, nonces>>

(* randomnessRequest of the core, which asserts that the id is not in use. *)
RandomnessRequest(core, key, seed, sender) ==
  LET id == NextAtCore(core, key, seed, sender)
  IN  /\ Cardinality(events) < MaxEvents
      /\ height < MaxBlock /\ nonces[core][key][sender] < MaxNonce
      /\ callbacks[core][id] = None
      /\ callbacks' = [callbacks EXCEPT
           ![core][id] = [callbackContract |-> sender, block |-> height]]
      /\ events' = events \cup {[core |-> core, id |-> id, block |-> height]}
      /\ nonces' = [nonces EXCEPT ![core][key][sender] = @ + 1]
      /\ UNCHANGED height

(* VRFClient.vrfQuery. *)
VrfQuery(c, core, key, seed) ==
  LET id == NextAtClient(c, key, seed)
  IN  /\ clientNonces[c][key] < MaxNonce
      /\ RandomnessRequest(core, key, seed, c)
      /\ clientNonces' = [clientNonces EXCEPT ![c][key] = @ + 1]
      /\ pendingRequests' = [pendingRequests EXCEPT ![id] = core]
      /\ UNCHANGED resultMap

(* RandomNumberSampleVRF.requestRandomNumber. *)
RequestRandomNumber(c, seed) ==
  /\ VrfQuery(c, CoreOf[c], KeyOf[c], seed)
  /\ validIds' = [validIds EXCEPT ![NextAtClient(c, KeyOf[c], seed)] = TRUE]

(* vrfQuery is public: anybody may make a client ask, for any key, and a    *)
(* foreign one any core; the consumer does not know of the request.         *)
QueryExternally(c, core, key, seed) ==
  /\ core = CoreOf[c] \/ c \in Foreign
  /\ VrfQuery(c, core, key, seed)
  /\ UNCHANGED validIds

(* randomnessRequest is external, and its sender is a parameter. *)
RequestExternally(core, key, seed, sender) ==
  /\ sender \in Foreign
  /\ RandomnessRequest(core, key, seed, sender)
  /\ UNCHANGED clientVars

-----------------------------------------------------------------------------
(* blockhash(), which remembers the last blocks, not the current one, and  *)
(* gives the zero word for all others.                                     *)
BlockHash(block) ==
  IF block < height /\ height - block <= HashWindow THEN block ELSE 0

(* Mutant: the commitment to the block is not compared. *)
ProofHolds_AnyBlock(core, id, block, hash) ==
  /\ callbacks[core][id] # None
  /\ core \in HashIsPassed \/ hash = BlockHash(block)

(* getRandomnessFromProof: there is such a request, of this block, and the *)
(* proof is for the hash the core uses. One that asks blockhash() takes    *)
(* whatever it gives; one that is given the hash compares it with nothing. *)
ProofHolds(core, id, block, hash) ==
  /\ callbacks[core][id] # None
  /\ callbacks[core][id].block = block
  /\ core \in HashIsPassed \/ hash = BlockHash(block)

(* Mutant: the callback has no guards. *)
AcceptsCallback_Unguarded(core, id) == TRUE

(* onlyVRFCoreInvoke, and "id must be not used!" of __callbackRandomness. *)
AcceptsCallback(core, id) == pendingRequests[id] = core /\ validIds[id]

(* Mutant: the entry of the pending request is kept. *)
Callback_KeepsPending(id, value) ==
  /\ resultMap' = [resultMap EXCEPT ![id] = value]
  /\ validIds' = [validIds EXCEPT ![id] = FALSE]
  /\ UNCHANGED <<clientNonces, pendingRequests>>

(* callbackRandomness and __callbackRandomness. *)
Callback(id, value) ==
  /\ pendingRequests' = [pendingRequests EXCEPT ![id] = None]
  /\ resultMap' = [resultMap EXCEPT ![id] = value]
  /\ validIds' = [validIds EXCEPT ![id] = FALSE]
  /\ UNCHANGED clientNonces

(* Mutant: only the address of the struct is deleted. *)
ForgetRequest_AddressOnly(core, id) ==
  callbacks' = [callbacks EXCEPT ![core][id].callbackContract = None]

ForgetRequest(core, id) == callbacks' = [callbacks EXCEPT ![core][id] = None]

(* fulfillRandomnessRequest: when the callback fails, all of it reverts. *)
FulfillRandomnessRequest(core, id, block, hash) ==
  /\ ProofHolds(core, id, block, hash)
  /\ ForgetRequest(core, id)
  /\ callbacks[core][id].callbackContract = id.sender
  /\ AcceptsCallback(core, id)
  /\ Callback(id, Randomness(id, hash))
  /\ UNCHANGED <<height, nonces, events>>

(* The chain closes the block. *)
Tick ==
  /\ height < MaxBlock
  /\ height' = height + 1
  /\ UNCHANGED <<coreVars, clientVars>>

Next ==
  \/ \E c \in Clients, seed \in Seeds : RequestRandomNumber(c, seed)
  \/ \E c \in Clients, core \in Cores, key \in KeyHashes, seed \in Seeds :
       QueryExternally(c, core, key, seed)
  \/ \E core \in Cores, key \in KeyHashes, seed \in Seeds, sender \in Clients :
       RequestExternally(core, key, seed, sender)
  \/ \E core \in Cores, id \in RequestId, block \in 1..MaxBlock, hash \in Hashes :
       FulfillRandomnessRequest(core, id, block, hash)
  \/ Tick

Spec == Init /\ [][Next]_vars

-----------------------------------------------------------------------------
(* Every variable holds a value of its type. *)
TypeOK ==
  /\ height \in 1..MaxBlock
  /\ callbacks \in [Cores -> [RequestId -> CallbackEntry \cup {None}]]
  /\ nonces \in [Cores -> [KeyHashes -> [Clients -> 0..MaxNonce]]]
  /\ events \subseteq RandomnessRequestEvent
  /\ clientNonces \in [Clients -> [KeyHashes -> 0..MaxNonce]]
  /\ pendingRequests \in [RequestId -> Cores \cup {None}]
  /\ validIds \in [RequestId -> BOOLEAN]
  /\ resultMap \in [RequestId -> Outputs \cup {None}]

(* The assertion of randomnessRequest never fails: whatever was requested   *)
(* and fulfilled before, the id a core gives next is not in use.            *)
AssertionHolds ==
  \A core \in Cores, key \in KeyHashes, seed \in Seeds, sender \in Clients :
    nonces[core][key][sender] < MaxNonce =>
      callbacks[core][NextAtCore(core, key, seed, sender)] = None

(* The client has heard of the request. *)
Known(id) == pendingRequests[id] # None \/ resultMap[id] # None

(* The mappings of VRFClient and of the consumer agree: an open request is   *)
(* pending at the core and for the key the consumer was constructed with,    *)
(* an answered one is neither open nor pending, and no two requests of a     *)
(* client share a nonce of a key, whatever their seeds.                      *)
ClientConsistent ==
  /\ \A id \in RequestId :
       /\ validIds[id] => /\ pendingRequests[id] = CoreOf[id.sender]
                          /\ id.key = KeyOf[id.sender]
       /\ resultMap[id] # None => /\ pendingRequests[id] = None
                                  /\ id.key = KeyOf[id.sender]
       /\ Known(id) => id.nonce < clientNonces[id.sender][id.key]
  /\ \A id1, id2 \in RequestId :
       /\ Known(id1) /\ Known(id2)
       /\ id1.key = id2.key /\ id1.sender = id2.sender /\ id1.nonce = id2.nonce
       => id1 = id2

(* The core may give value for the request that e announces. *)
IsValueOf(value, e) ==
  /\ value.id = e.id
  /\ e.core \notin HashIsPassed => value.hash \in {e.block, 0}

(* The randomness a consumer received is that of the very request, which     *)
(* its core announced once; and when the core asks blockhash(), the key's    *)
(* holder has no choice but between two values: that of the hash of the      *)
(* request's block, and that of the zero word, for which he has to wait      *)
(* until the block is forgotten, or to answer in the very block.             *)
RandomnessIsItsOwn ==
  \A id \in RequestId :
    resultMap[id] # None =>
      \E e \in events :
        /\ e.core = CoreOf[id.sender] /\ e.id = id
        /\ IsValueOf(resultMap[id], e)
        /\ \A other \in events : other.core = e.core /\ other.id = id => other = e

(* As long as nobody asks a core in a client's name, the two nonces of the   *)
(* client are in sync, and all its open requests are known to its core, so   *)
(* that a proof for the hash the core uses at the time answers them. One     *)
(* such request by another ends that for good, although the comment of the   *)
(* nonces says that they "must stay in sync".                                *)
OwnRequestsAreServable ==
  \A c \in Clients \ Foreign :
    /\ \A key \in KeyHashes : nonces[CoreOf[c]][key][c] = clientNonces[c][key]
    /\ \A id \in RequestId :
         id.sender = c /\ validIds[id] => callbacks[CoreOf[c]][id] # None

(* The answered requests of c with this nonce, whatever their seeds. *)
Answered(c, nonce) ==
  {id \in RequestId : /\ id.sender = c /\ id.key = KeyOf[c] /\ id.nonce = nonce
                      /\ resultMap[id] # None}

AnswerTo(c, nonce) ==
  IF Answered(c, nonce) = {} THEN None
  ELSE resultMap[CHOOSE id \in Answered(c, nonce) : TRUE]

OneShotRequestId == [callback : Clients, nonce : 1..MaxNonce]

OneShot ==
  INSTANCE OneShotRequests
    WITH Consumers <- Clients, Results <- Outputs, MaxRequests <- MaxNonce,
         opened <- [c \in Clients |-> clientNonces[c][KeyOf[c]]],
         answer <- [r \in OneShotRequestId |-> AnswerTo(r.callback, r.nonce - 1)]

(* The contracts keep the promise of OneShotRequests, in sync or not: each   *)
(* request is given one random value, which never changes.                   *)
ImplementsOneShot == OneShot!Spec
=============================================================================
