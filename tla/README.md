# Truora-Service: TLA+ models, checks and proofs

Truora-Service is an oracle for FISCO-BCOS chains. A consumer contract asks the
contract OracleCore (or a VRF core) for data; the contract emits an event; a Java
service listens to the events, asks a data source and writes the answer back in a
transaction that calls the consumer back. The repository holds the contracts
(`contracts/`), the service for chains of generation 3 (`bcos3runner`) and 2
(`bcos2runner`), the database it records requests in, and sample applications.

This directory holds models of the parts whose behaviour is hard to test, the
TLC runs that check them and the TLAPS proofs about them. `PROJECT.json` maps
every definition to the lines it models and lists runs, mutants, hazards,
findings and theorems.

    tlc -workers 2 -config MCOracleCore.cfg MCOracleCore
    tlc -workers 2 -config MCTwoServices.cfg MCEventWorker
    tlc -workers 2 -config MCVRFCore.cfg MCVRFCore
    tlc -workers 2 -config MCVRFWorker.cfg MCVRFWorker
    tlc -workers 2 -config MCContractDeploy.cfg MCContractDeploy
    tlc -workers 2 -config MCMarket.cfg MCMarket
    tlapm EventWorkerProofs.tla

## 1. Inventory

`J` below is `src/main/java/com/webank/truora`.

**OracleCore, FiscoOracleClient, GeneralOracle, Ownable** (`contracts/oracle/v3`).
State: `commitments` and `timeoutMap` of the core, `requestCount` and
`pendingRequests` of the client base contract, `validIds` and `rawResultMap` of the
consumer, the owner. Operations: `requestSource` → `oracleQuery` → `query`;
`fulfillRequest` → `callback` → `__callback`; `checkRequestId`;
`transferOwnership`. Hard: `query` is external and overwrites; the callback is a
low-level call whose failure does not revert; three contracts keep books about one
request. Correct when: every request is answered at most once, in time, by the
core it was sent to, and an open request can still be answered.

**Listener, pool and URL worker** (`J/bcos3runner`). State: the block the
subscription has reached, the queue and threads of the pool `eventWorkerAsync`, for
each thread the batch it processes and where it is in `processSingleLog`.
Operations: `registerEventListener`, `onReceiveLog`, `processBatchLogs`,
`processSingleLog`, `processLog`, `fulfill`, `updateReqHistory`,
`loadOrDeployContract`. Hard: many threads and several services on one database;
statement-by-statement use of database, HTTP and chain without transactions;
crashes; the pool's limits; where to resume. Correct when: one thread processes a
request; the table agrees with the chain; no awaited request is forgotten.

**req_history and contract_deploy** (`J/database`, `dbscripts`). The table
`req_history` with the unique `req_id`, and the addresses of deployed contracts.

**VRF contracts** (`contracts/oracle/v3/simple-vrf`). State: `callbacks` and
`nonces` of the core, `nonces` and `pendingRequests` of VRFClient, `validIds` and
`resultMap` of RandomNumberSampleVRF. Hard: both sides compute the request id from
nonces they keep apart; the callback reverts the fulfilment.

**VRF workers** (`J/bcos3runner/vrf`, `J/base/utils/ThreadLocalHolder`). State: as the
URL worker, and for each thread the thread-locals in which seed and randomness are handed
over. Operations: as the URL worker, with a proof in place of the HTTP exchange. Hard: two
listeners, one per core, resume from one table whose rows carry a source type; an id does
not name the core it was asked of; thread-locals are never cleared. Correct when: one thread
proves a request, a row does not tell the values of another request, and no pushed event is
dropped.

**bcos2 runner** (`J/bcos2runner`). The older runner: the same sequence, in the
callback threads of the SDK, one log at a time.

**BAC001, BAC002** (`contracts/BAC/bac001`, `bac002`). State: balances, allowances and
total of a fungible asset; owners, approvals, operators and two kinds of lists of a
non-fungible one; issuers, suspenders and suspension of both. Operations: `send`, `sendFrom`,
`batchSend`, `issue`, `destroy`, `approve` and so on. Hard: lists that are shortened by moving their last
element, positions kept beside them, approvals that must end with the ownership; a recipient that is a
contract is called (`onBAC001Received`) in the middle of the transaction that sends. Correct
when: the books balance, the lists name what is owned, no approval outlives its ownership.

**Auctions, blind box, lotteries** (`contracts/BAC/auction`, `blindbox`, `lottery`,
`lotteryUseVrf`, `contracts/oracle/v3/LotteryOracle.sol`). Contracts that hold assets of
others and, the latter two, wait for an oracle. Hard: legal calls in an order nobody meant, a second
auction of an asset, a second bid of a bidder, a call from within a call, an answer used twice, a pot that is
a balance
others can pay into. Correct when: what they took can be given back or on, and each lottery
or cat is decided once.

**OracleRegisterCenter** (`contracts/oracle`): a registry of oracle services.

**Data sources and conversion** (`J/crawler`, `J/httputil`,
`J/base/enums/ReturnTypeEnum`): functions from an answer to bytes.

**Dapp client** (`J/dapps/GeneralOracleClient`): sends a request and polls.

**Curve and VRF arithmetic, generated wrappers** (`J/contract`), **REST controllers, key
store, configuration**: section 9.

How they interact: consumers call cores and are called back by them; the service sees the
events of cores and writes transactions to them, and shares its tables between its threads,
and with other processes; lotteries and blind box are consumers of an oracle and holders of
assets. The hazards of all these, each at its line, are in `PROJECT.json`.

## 2. Modules

Each component module declares its constants with named assumptions, has one action per
operation, and no RECURSIVE operator. Modules further down extend or instantiate those above.

| module | what | proofs |
|---|---|---|
| `OneShotRequests` | abstract: requests answered at most once | |
| `OracleCore` | the contracts of the URL oracle | `EventWorkerProofs` |
| `EventWorker` (extends `OracleCore`) | listener, pool, URL worker, table | `EventWorkerProofs` |
| `VRFCore` | VRF cores, client and consumer, and their two nonces | `VRFWorkerProofs` |
| `VRFWorker` (extends `VRFCore`) | VRF listeners, threads and thread-locals of both generations | `VRFWorkerProofs` |
| `ContractDeploy` | `loadOrDeployContract`, `contract_deploy`, racing services | `ContractDeployProofs` |
| `Parties`, `Terms`, `Suspendable` | addresses, numbers and roles the contracts of BAC share | |
| `BAC001State`, `BAC001` | fungible asset: its storage; its transactions | `BAC001Proofs` |
| `BAC002State`, `BAC002` | non-fungible asset: its storage; its transactions | `BAC002Proofs` |
| `BACAssets`, `AuctionState`, `BidState` | a BAC001, a BAC002 and the clock under an auction; the storage of auctions | |
| `AuctionFixedPrice`, `AuctionUnfixedPrice` | the two auctions | `AuctionProofs` |
| `RandomOracle` | an oracle as its user sees it | |
| `LotteryState`, `Lottery` | the four lotteries | `LotteryProofs` |
| `BoxState`, `CatBlindbox` (extends `BAC002`) | the blind box: its storage; its transactions | `BAC002Proofs` |
| `Market` | the contracts of BAC and the lotteries with what they use | `MarketProofs` |

The modules named `...State` hold a contract's variables and what should hold of them, so that
`Market` and the proof modules speak of the same definitions.

## 3. OneShotRequests, OracleCore

`OneShotRequests` says what a consumer is promised: it opens requests one after the
other, and an open request is answered at most once, with a value that stays.

`OracleCore` models the contracts. A transaction is one action; one that reverts is
no step. `now` is timestamp and height of the block being built; `Tick` closes it.

| definition | code |
|---|---|
| `RequestSource` | `GeneralOracle.requestSource`, `FiscoOracleClient.oracleQuery`, `OracleCore.query` |
| `QueryExternally` | `OracleCore.query` called by anybody, with any callback address, nonce and expiry |
| `Fulfillable`, `FulfillRequest` | `fulfillRequest` with `onlyOwner`, `isValidRequest`, the hash comparison and the deletions |
| `AcceptsCallback`, `Callback` | `onlyOracleCoreInvoke`, `callback`, `__callback` |
| `CheckRequestId` | `checkRequestId` |
| `TransferOwnership` | `Ownable.transferOwnership` |

Abstractions: keccak256 is injective, so a request id is the pair (consumer, nonce)
and a commitment the pair (callback, expiration); the bytes of a result, the proof,
`timesAmount`, the return type and the events other than `OracleRequest` are left out.
A consumer in `Reverting` may fail in its callback for reasons of its own.
A consumer asks one core, the one it was constructed with.

Run **oracle_core** (two cores, a consumer of each, one that may revert; foreign queries
with the shortest and the longest expiry, the latter at the limit of uint256):

- `ConsumerConsistent`: the entries of one request in `pendingRequests`, `validIds`,
  `rawResultMap` and `requestCount` agree, though two contracts write them.
- `CommitmentAnnounced`: `commitments` and `timeoutMap` agree, and an event told the
  service the very parameters that will be required, with a deadline not yet past.
- `OngoingIsAnswerable`: until the deadline that its core announced last, an open request of a
  consumer that does not revert can be answered: a fulfilment with what that event says passes
  every check of core and consumer. Foreign queries, fulfilments and transfers of ownership cannot take that away.
  A foreign query can bring the deadline forward, or put it off; as the comparison with the request's own
  event says (`EXPIRY_TIME` after its block), without one it is where the consumer was told.
  A consumer that reverts in its callback loses its request (`OracleCore.sol:102`): the commitment is deleted, the
  request stays open. That is what the code does, and no text of the repository promises otherwise.
- `AnsweredInTime`: an answer arrives only before a deadline its core announced.
- `ImplementsOneShot`: the contracts refine `OneShotRequests`.

Bounds: two requests of a consumer give a past, a present and a future nonce; three events
a request, a re-query and one more; three blocks a deadline met exactly, missed and not
reached. `CHECK_DEADLOCK FALSE`: a bounded behaviour ends when all bounds are reached.

## 4. EventWorker

`EventWorker` extends `OracleCore` by the processes of the service. Its variables are the
table (`reqHistory`), and for each service the block its subscription has reached
(`cursor`, 0 while it is down), the pool's `queue`, and for each thread its program counter
(`pc`), the event in work (`current`), the rest of its batch (`batch`) and what
`processSingleLog` has in `reqStatus` and `result` (`outcome`).

| definition | code |
|---|---|
| `Start` | `Bcos3EventCallback.registerEventListener`, `DBReqHistoryService.getLatestRecord` |
| `PushLogs`, `Submit` | `onReceiveLog`, `@Async("eventWorkerAsync")`, the pool of `EventWorkerThreadPoolConfig` |
| `TakeFromQueue`, `KeepAliveEnds` | the threads of `ThreadPoolExecutor` |
| `Begin`, `Rest`, `NextEvent` | the loop of `processBatchLogs` |
| `Find`, `Save` | `findByReqId`, `save` and the unique `req_id` |
| `Fetch` | `processLog` up to the chain: the source answers or fails, the empty URL |
| `Check`, `Fulfill` | `OracleCoreWorker.fulfill`: `checkRequestId`, `fulfillRequest`, the receipt |
| `Finish`, `Update` | the catch clauses, the finally block, `updateReqHistory` |
| `Crash` | the process dies: queue and threads are lost, table and chain stay |

Each step is one database statement, call, transaction or HTTP exchange; any other thread,
service or transaction may come between two steps, and so may a crash. `fulfillRequest`
may be executed with or without a receipt that arrives, revert, or not reach the chain. A
transaction that is executed after the client gave it up is modelled as executed just before.
The services share one database, which is assumed reliable, and may share an account; nobody else
holds the account of a core's owner, or answers for it. A row's time of creation has seconds: rows of
one tick are tied, and any of them may be the newest. A pool without a queue hands a batch to a thread that waits
(`SynchronousQueue`), to a new one, or rejects it.
The state of the contracts changes only by `OracleCore`'s actions, so that `SystemSpec`
implements `OracleCore!Spec` (theorem `SystemImplementsOracleCore`).

Runs:

- **two_services**: two processes, one account, one table, two threads each, a queue of one,
  a crash at any step, a foreign query that duplicates an event. `ExclusiveProcessing`: at
  most one thread is between save and update of a request, and its row is there. A comment at
  `OracleCoreWorker.java:250` (and the plans in the repository's README, which names several active services as
  work to come) says that services running side by side would still ask a source twice. The code does not
  bear it out where they share one table: the row is saved before the source is asked, and `req_id` is UNIQUE.
  With a database each, which is not modelled, they would. What does go wrong side by side is **duplicate_update**.
  `DeliveredIsRecorded`: a delivered answer has a row that does not blame source or chain
  and tells no other result. Two events give batches of one and of two and a duplicate, as
  many as there are services to race for them; one crash lets an event be seen again.
- **one_service**: one process with a pool without a queue, three requests with empty and
  oversized queries, a crash. `FinishedRecordsStay`: a finished row is not written again.
- **settled**: `AwaitedRequestsAreSettled`: every request of a block that will still be
  pushed to a listening service leads to a finished row which tells the truth. The
  bounds give the pool room for every batch, no crash, and an expiration no
  behaviour reaches: the code promises nothing when a batch is rejected (AbortPolicy),
  after a crash, or when a request expires.
- **duplicate_update** (finding): with two services `FinishedRecordsStay` fails. Comment and
  code say a processed request is not processed again; the loser of the race for the unique
  `req_id` gets UNEXPECTED_EXCEPTION_ERROR instead of REQ_ALREADY_EXISTS, and its finally block
  overwrites the winner's row.
- **undelivered_success** (finding): `SuccessMeansDelivered` fails. A request found expired by
  `checkRequestId` ends with status 0, SUCCESS, and a result that was never delivered.

Fairness (`Fairness`, used by **settled** only): blocks are sealed; the node pushes sealed blocks;
a free thread takes a waiting batch; a thread goes on, as HTTP exchanges have timeouts and
calls and transactions end in an answer or an exception. No fairness is assumed of starts, crashes,
requests, foreign queries, transfers of ownership or the end of idle threads. A step of a
thread is one weakly fair disjunction, so a failure may always be chosen.

Symmetry: threads and result values are interchangeable in the safety runs; the liveness run
uses none.

## 5. VRFCore

`VRFCore` models the three VRF cores, `VRFClient` and the consumer `RandomNumberSampleVRF`, as
`OracleCore` models theirs. A request id is the tuple (key, seed, sender, nonce) that is hashed
into it; the core is not part of it, so two cores of a group share their ids. The core takes the
nonce of an id from `nonces`, the client from `clientNonces`.

| definition | code |
|---|---|
| `RandomnessRequest` | `randomnessRequest` of a core, with its `assert` |
| `VrfQuery` | `VRFClient.vrfQuery` |
| `RequestRandomNumber` | `RandomNumberSampleVRF.requestRandomNumber` |
| `QueryExternally` | `vrfQuery`, which is public, called by anybody: the consumer does not file the id |
| `RequestExternally` | `randomnessRequest`, which is external, called by anybody with a client's address |
| `ProofHolds` | the checks of `getRandomnessFromProof` |
| `AcceptsCallback`, `Callback` | `onlyVRFCoreInvoke`, `callbackRandomness`, `__callbackRandomness` |
| `FulfillRandomnessRequest`, `ForgetRequest` | `fulfillRandomnessRequest`, which reverts when the callback fails |

Abstractions: a block and its hash are named by the height. A VRF is a function, so the value
proved is `Randomness(id, hash)`; a proof is the key holder's, made for any word: the hash of some
block, or the zero word. `VRFK1CoreWithBlockHash` takes the hash as a parameter and compares it with
nothing. `VRFK1Core` and `VRF25519Core` ask `blockhash` (`BlockHash`), which knows the last
`HashWindow` blocks (256 in the code, 1 in the runs), and is zero for the block itself and older ones; a proof
for zero holds as well. `Foreign` are the clients in whose name
others ask a core, or that others make ask another core; senders that are not client contracts
have nothing to call back. The cores' owner is left out, as no function but those of `Ownable`
asks for him, and so is `randomResult`, the copy of the last value.

Runs (`CHECK_DEADLOCK FALSE`: behaviours end at the bounds):

- **vrf_core**: a core of each kind, a client of each, one of them foreign; two seeds, two nonces,
  three blocks. `AssertionHolds`: the assertion of `randomnessRequest` never fails.
  `ClientConsistent`: `pendingRequests`, `validIds` and `resultMap` agree, and a nonce of a key is
  that of one request only. `RandomnessIsItsOwn`: the value received is of the very request, which its core
  announced once; where the core asks `blockhash`, the key's holder has the choice of the hash of the
  request's block and of zero, and none besides. Where the core is
  passed the hash he may choose any, although `VRFK1CoreWithBlockHash.sol:66-68` says that the seed is mixed "with the
  hash of the block containing this request": the parameter is compared with nothing.
  `OwnRequestsAreServable`: a client that is not foreign counts as its core counts, and its core
  knows all its open requests. For a foreign client neither holds: `VRFClient.sol:19` and 38 say that its nonces
  "must stay in sync" with the core's, but `randomnessRequest` takes the requester as a parameter (`_sender`), and
  `vrfQuery` the core, and one such call of somebody else ends the agreement, after which none of the client's
  requests can be answered. `ImplementsOneShot`: the VRF contracts refine `OneShotRequests`, in
  sync or not; a request is there one `vrfQuery` for the consumer's key.
Two nonces give a first request and one after it, which is where a wrong count shows; three
blocks a request answered in its block, in the next, and after the window; three events
(`MaxEvents`) let a client make both its requests and the other one, or others take some of them (27,827
states). One key is enough here, as nonces of keys do not meet; **vrf_worker** has two, the proofs any
number. Seeds are only hashed, hence the symmetry.

## 6. VRFWorker

`VRFWorker` extends `VRFCore` by one process of the service that listens to the VRF cores of a group.
`platform` says which generation it is: `VRFK1CoreWorker` and `VRF25519CoreWorker` of bcos3runner,
or `VRFContractEventCallback` and `VRFService` of bcos2runner. Both take an event through the same
steps; they differ in the source type of the rows they save (bcos3runner overwrites VRF by URL), and
so in where a listener resumes, and in whether the update reads thread-locals.

| definition | code |
|---|---|
| `Listen`, `IsLatestRecord` | `registerEventListener`/`init`, `getLatestRecord`: after the newest row of type VRF, or from the current block |
| `PushLogs`, `TakeFromQueue`, `Begin`, `NextEvent`, `Rest` | `onReceiveLog`, the pool, the loop over a batch |
| `Find`, `Save`, `NewRow` | `findByReqId`, `makeDBReqHistory`, `save` and the unique `req_id` |
| `Prove` | the block hash, the seed (`VRF_ACTUAL_SEED`), the native proof, each of which may fail |
| `Fulfillable`, `Fulfill` | `fulfillRandomnessRequest`: executed, with or without a receipt (`VRF_RANDOMNESS`); reverted; not sent |
| `Update`, `Updated` | `updateReqHistory`, with the thread-locals for a row of type VRF |
| `Crash` | the process dies; table and chain stay |

The pool's limits are those of `EventWorker` and are not repeated: all threads exist, no batch is
rejected. Requests for another key than the service's are fulfilled by the holder of that key
(`ChainStep`), as only he can make the proof; the service's key is held by the service alone. The service
asks the node for the hash of the request's block (`BlockHashOf`).

Run **vrf_worker** (`MCVRFWorker.cfg`): a service of generation 3 that listens to two cores, or of 2
with one; two clients of one core, of which one may be made to ask the other core, so that both announce one id;
a key of the service and one of somebody else; two threads and a crash.

- `ExclusiveProcessing`: at most one thread proves and writes back a request.
- `DeliveredIsRecorded`: a delivered request has a row, which does not blame the chain and tells no
  other proof. It may say UNEXPECTED: the receipt was lost, or a duplicate overwrote it. In generation 2 it
  may say UPLOAD_ERROR as well: a time-out may come as a receipt whose status `dealWithReceipt` takes for a failure.
- `ServiceRandomnessIsFixed`: the value a consumer received of the service is that of the hash of the block of the
  request's event, of which there is one (`RandomnessIsItsOwn`). The contracts do not see to it, the service does.
- `SuccessTellsRandomness`: a finished row that says SUCCESS tells the proof, the seed and the
  randomness the consumer received, although the thread-locals are never cleared.
  Rows of failed requests of generation 2 do get those of an earlier request; nothing says they do not.
- `PushedEventsAreKept`: until an event that was pushed has a row, it is in the queue or with a thread.
- `OwnRecordsStay`: after a crash the listener is pushed blocks again; still no finished row of a
  client nobody speaks for is written again.

Two events and three blocks let an id be announced twice in one block or in two, with a restart
before, between or after; each event is one batch or both are one. One nonce and one seed are enough,
as `VRFCore` is checked by itself with more of both.

## 7. ContractDeploy

`ContractDeploy` models how the services of generation 3 find or deploy the cores they listen to.
It shares no state with the other modules: they start where it ends, with an address that is known.
A place is a chain, a group and a type of core. Its variables are the table (`contractDeploy`), the
contracts that exist, in the order of their deployment (`contracts`), and for each service what it
does next (`stage`), its `worker` in hand, its configured `version`, the address it has yet to
record (`deployed`) and the addresses it uses (`coreAddress`).

| definition | code |
|---|---|
| `Start`, `NextWorker` | `Bcos3EventRunner.init`: the workers of all chains and groups, in turn |
| `Find` | the query of `contract_deploy` in `loadOrDeployContract` |
| `Deploy` | `deployContract`: the receipt may fail to arrive although the contract exists |
| `Save` | `save`, and the unique index over platform, chain, group, type and version |
| `Loaded` | the end of `initContract`: the address is set in the configuration |
| `Exit`, `Crash` | an exception ends in `Runtime.exit`; the process dies at any step |

`isContractAddressValid` loads a wrapper, which succeeds for every address that is not blank, and a
blank address is never recorded; so the branch that deletes a row is left out. Rows of another
platform are other rows. All types of cores are looked up by `oracleCoreVersion`
(`AbstractContractWorker.java:127`); `vrfCoreVersion` plays no part.

Run **contract_deploy** (three services, two places, two versions, four contracts;
`CHECK_DEADLOCK FALSE`, as no service can deploy when the bound is reached):

- `CoresAgree`: whoever deployed it, all services of a version use the one core that is recorded
  for a place, and it is a core of that place.
- `RecordedStays`: a recorded address is never changed, so consumers constructed with it are
  listened to after every restart.

Two services race for a row and the third arrives late; with two versions the third may also use
the row beside it; four contracts let one row cost two orphans. Contracts that lost the race, or whose service
died before `Save`, stay on the chain unrecorded: no property forbids them, and no code removes them.
Services and versions are interchangeable, hence the symmetry.

## 8. The assets and the contracts that use them

`BAC001` and `BAC002` model the assets with their roles and suspension (`Suspendable`). A
transaction is one action; `caller` is `msg.sender`, and a transaction that reverts is no step.
`BAC002` keeps the lists as the contract does: `SwapAndPop` is the removal that moves the
last element into the gap, with the positions left as the code leaves them. The auctions take an asset over by
`sendFrom`, as operators or approved, and `IsActive` is `isActive` of the struct. `Lottery` stands for four contracts:
with a pot (`withPot`) `LotteryBacOracle` and `LotteryBacUseVrf`, without it `LotteryOracle` and
`LotteryOracleUseVrf`; the oracle is `RandomOracle`, which promises what `OneShotRequests` does.
`CatBlindbox` is a `BAC002` that issues cats of species drawn from a pool.

`Market` puts them side by side: `app` is the one that is deployed, with the assets and the oracle it
uses, and the state of the others stays as it was at first. Roles and suspension change only when
the asset itself is `app`: all they do to the others is to make transactions revert. Beside the
fixed auction holders trade, approve, send and destroy (`HoldersNext`); beside the unfixed one, whose bids
make the state large, they only do what sellers and buyers need (`TradersNext`): the contract is the only
spender they approve,
there are no operators, and nobody sends the contract anything for nothing; those are in the proofs alone. Lotteries restrict
whom players approve to `Approved`. The proofs of the parts are about the whole specifications of the modules
(`FixedPriceSpec`, `UnfixedPriceSpec`, `LotterySpec`, `BoxSpec`, `Spec` of `BAC002`), with roles, operators
and all holders.

A recipient that is a contract is called by the assets (`onBAC001Received`, `BAC001.sol:239-247`), and may call
the sender in turn. That matters where the caller writes its state after it sent: in `bid`, which sends the
old deposit back (`AuctionUnfixedPrice.sol:69`) before it writes the new bid, and in `pickWinner` of the
lotteries with a pot (`LotteryBacOracle.sol:61`, `LotteryBacUseVrf.sol:60`). Both are modelled in two halves:
what comes before the
call (`BidCallsOut`, `PickWinnerCallsOut`), which leaves it on a stack (`pendingBids`, `pendingDraws`), and what
comes after (`BidReturns`, `PickWinnerReturns`). In between any call of users is possible, calls of the same
function too, to a depth of `MaxCalls`; the model also lets the oracle be asked and answered then,
which is more than a transaction can do. `Bid` and `PickWinner` are the whole, when nobody is called. All other
transactions write first and send last, so that a call from there is like one that follows: `executeSale` and
`cancelAution`
end the auction before they pay, and where they pay several, what the contract has yet to pay is not in question
as long as it holds what it owes.

Run **market** (each contract in turn, with the assets it uses):

- `BooksBalance`: the balances add up to the total, whoever sends, to himself too, issues or destroys.
- `EnumerationOK`: the lists, positions and counts of `BAC002` agree with the owners.
  `ApprovalsEndWithOwnership`: whenever an asset changes its owner, nobody is approved for it.
- `ActiveAssetIsHeld`: an asset on auction lies in the contract, although its seller's approvals, and a
  second auction of it, are there to take it away, and whatever bidders call in the middle of their bids.
- `WinnerPaysHisBid`: in a first auction the seller is paid what the winner deposited, and the winner is listed,
  again whatever is called in the middle.
- `DepositsAreHeld`: as long as auctions are first ones of their assets and nobody calls the contract in the middle of
  his bid, it can pay back all its active auctions owe. Without the second premise it fails: a deposit that is sent
  back is still on record while its bidder has control, so that another bid from there, or the auction's end, pays it
  once more, at the expense of other auctions, although "other bidders get eth back" (`AuctionUnfixedPrice.sol:91`).
- `DrawnOnce`: as long as no winner calls the contract while it is sent the pot, each lottery is decided
  once, by a request of its own that was answered, although without a pot `pickWinner` does not look at the state.
  Without that premise it fails: state and request are written after the pot was sent, so that a `pickWinner` from
  there passes all checks and the round gets a second winner, where `LotteryBacOracle.sol:19` speaks of one.
  `PotStays`: nothing but a draw takes from the pot, whatever is called from where.
- `SpeciesDrawnOnce`: no species of cat is drawn twice and none is lost, though a request may be used again.

Findings, each a run of its own:

- **second_auction**: without the first premise of `DepositsAreHeld` bidders are not paid back (`HighestBidderIsRefunded`): in a second
  auction of an asset the map of bids still holds the first one's, and who bid then is not listed.
- **highest_bid**: the comment that the highest bidder gets the asset (`HighestBidWins`). A second
  bid is not listed, so that the next bidder exceeds only the first.

Bounds: the deployer, who holds the supply, a user and the contract: a seller and a bidder, or a sender and
somebody approved. Two assets, species or tokens give a list whose last element is
removed, or another. Two auctions may be one after the other of one asset, or of both at once; two lotteries
and two requests let an answer of the first meet the second; `Numbers` selects either player, or either species.
One call that waits (`MaxCalls`) is enough for another to come in between. Time 1 closes an auction. States
per contract: BAC001 233,280, BAC002 77,312, fixed price 47,682,
unfixed price 289,314, lotteries 97,794, blind box 79,316. `CHECK_DEADLOCK FALSE`: with all numbers
used up no transaction may be left.

## 9. Proofs

Each proof module is about the modules it is listed with in section 2. All theorems hold for every value of the
constants that satisfies the named assumptions of those modules, and for behaviours cut off at the bounds
(`MaxRequests`, `MaxTime`, `MaxNonce` and the like), which are constants of any value.

**EventWorkerProofs, the contracts** (`ConstantsAssumption`, `NoneAssumption`): `TypeCorrect`,
`ConsumerIsConsistent`, `CommitmentsAreAnnounced`, `OngoingStaysAnswerable`, `AnswersComeInTime`
and `Refinement` (every step of OracleCore is a step of OneShotRequests or a stutter). The inductive
invariant (`Invariance`) is the conjunction of the named invariants: commitments are matched to events by
`CommitmentAnnounced`, and an answer is only accepted where `ConsumerConsistent` says both guards hold,
which is why it is needed for the refinement. `OngoingIsAnswerable` needs both: the event that was
emitted last for a request is the one whose deadline the core keeps.

**EventWorkerProofs, the service** (also `ServiceAssumption`, `NoResultAssumption`), for any number of
services, threads and crashes: `SystemTypeCorrect`; `SystemImplementsOracleCore`, which
carries the theorems about the contracts over to the composition; `ProcessingIsExclusive`;
`DeliveriesAreRecorded`; `FinishedRecordsAreKept`. There are three inductive invariants:

- `WorkerInv`: types, and what each thread's program counter says of its event.
- `OwnerInv`: each request has at most one owner, the thread that saved its row, until it has written its
  outcome. While there is an owner, the row exists, it says SUCCESS (as saved) or UNEXPECTED, it has no result,
  and nobody answers the request before the owner does; afterwards the row agrees with what the consumer has.
  A duplicate that lost the race is not an owner: it can overwrite the row, but only with UNEXPECTED and no
  result, which is why `DeliveredIsRecorded` allows that status beside SUCCESS.
- `RecordInv`: an event is of a nonce its consumer has used, and of no other event's request (`FreshEvents`); it
  is in the hand of one thread or in one batch of the queue, and then of a block the listener has passed
  (`HandedOnce`), also after a restart, when the listener may go back but nothing is in hand; and a thread that
  is to save finds no row, one that is to update finds its own, without a result (`OpenRows`).

`FinishedRecordsAreKept` has two hypotheses, `ServicesApart` (a core has one service) and `OnlyConsumersQuery` (nobody
calls `query()` in a consumer's name). They say where duplicates come from, and each is needed: run
**duplicate_update** is what happens without the first.

**VRFWorkerProofs, the contracts** (`VRFAssumption`, `VRFNoneAssumption`), for any number of cores,
clients, keys and seeds: `VRFTypeCorrect`, `AssertionNeverFails`, `ClientIsConsistent`,
`RandomnessStaysOwn`, `OwnRequestsStayServable` and `VRFRefinement`. The invariants are inductive
once `EventsTell` is added: a request that a core keeps was announced for its block, an announced
one has a nonce below the core's count, and none is announced twice. The assertion follows from
the second part, the uniqueness of the event a value answers from the third. The refinement needs
`ClientConsistent`: its last part says that the answer to a nonce is the answer to one request.

**VRFWorkerProofs, the service** (also `WorkerAssumption`, `WorkerNoneAssumption`), for either generation and any
number of cores, threads, requests and crashes: `WorkerImplementsVRFCore`, `WorkerTypeCorrect`,
`ProofsAreExclusive`, `DeliveriesAreRecorded`, `RandomnessIsFixed`, `SuccessIsTold`, `NoPushedEventIsLost` and
`OwnRecordsAreFinal`.
Every action of a thread is first shown to have an effect without nested branches (`Saves`, `Fulfills`, ...).
The inductive invariant `WorkerInv` adds to the properties what makes each of them inductive:

- `Tells`: what is in a thread's hands fits its program counter (`ThreadTells`), and a row is new, or tells what
  the consumer was given, or tells of a failure (`RowTells`). The thread-locals are right when it
  matters because a thread that goes to `update` with SUCCESS has set them on its way.
- `Delivery`: a value for the service's key is delivered only while its request is processed, and in
  generation 3 a request whose
  row blames the chain, or soon will, has none and will never be processed again.
- `Resume`: a cursor does not pass the block being built, so rows and events in hand are of
  closed blocks, and an event that comes into being is not one the listener has passed.
- `EventsOnce`, `OwnCore`, `OwnRows`: no event is twice in hand at a time, and a request of a client nobody
  speaks for has only one event, so that nobody else writes the row of a thread that works on it.

**ContractDeployProofs** (`DeployAssumption`), for any number of services, places, workers
and versions: `DeployTypeCorrect`, `CoresAlwaysAgree` and `RecordedForEver`. The invariant `Inv` adds
that rows name contracts of their place (`RowsAgree`), and so does what a service is about to record
(`SaveAgrees`). Every step keeps rows and contracts that exist (`Grows`), which is why the services
that do not step stay right (`OthersKept`).

**BAC001Proofs** (`PartiesAssumption`, `TermsAssumption`), for any finite set of accounts and any
amounts: `FungibleTypes`, `BooksAlwaysBalance`, `AdditionsDoNotOverflow` and `ContractsAreNotRobbed`
(what users do takes nothing from a contract that approved nobody, which auctions and lotteries rest
on). The books are a sum over a function, a fold over a finite set. What a fold does when one value
changes cannot be shown by citing an induction theorem, as these take operators; it is shown by a
least counterexample instead: were the sum wrong for a set, there would be a set of least
cardinality for which it is, and the fold's own equation makes it wrong for that set without an
element. `SumExcept`, for one value that changes, and the lemmas about sums of two functions and of
comparable functions are what the other modules use.

**BAC002Proofs** (`PartiesAssumption`, `AssetsAssumption`), for any number of accounts and assets:
`AssetTypes`, `ListsEnumerate` and `ApprovalsEnd`. The inductive invariant `IInv` splits
`EnumerationOK` into the lists of owners (`OwnersListed`) and that of all assets (`AllListed`), as
each has a lemma about `SwapAndPop`: the last element moves to the place of the one removed, and its
new position is written. The module also proves `BlindBoxImplementsBAC002`, `BlindBoxTypes` and
`EachSpeciesIsDrawnOnce` under `BoxAssumption` (the pool holds each species once, and there are ids
for as many assets) and `OracleAssumption`: `Shared` says that pool and cats together hold every
species once, so that the next cat has an id as long as the pool is not empty.

**LotteryProofs**: `LotteryTypes`, `EachLotteryIsDrawnOnce`, `PotIsKept`, `LotteryBooksBalance` and
`OracleAnswersOnce`, which says that `RandomOracle` is a `OneShotRequests`, as are the two oracles
proved above. `DrawInv` says which requests were used: without a pot `pickWinner` may be called in
any state, but a closed lottery has no players, and the division by their number reverts. It holds as long as
no call came in while one waited (`drawReentered`): the one that waits is then for the request of the lottery
of now. `PotInv`
says that the contract is no user and has given no allowance, so that no `sendFrom` takes from it.

**AuctionProofs**: of the unfixed auction `AuctionedAssetIsHeld`, `FirstAuctionIsPaid`,
`AuctionsAreTyped`, `DepositsAreCovered` and `AuctionBooksBalance`; of the fixed one
`AssetForSaleIsHeld`, `SalesAreTyped` and `SaleBooksBalance`. An asset in the contract's hands has
no approval and the contract has no operators (`HeldInv`), so that only the contract sends it on;
`AuctionInv` adds that in a first auction the listed bidders are those with a bid, also while bids wait. `DepositsInv`
adds the books and that time does not run back: what an auction owes is the sum of its bids, a bid
changes it by what the bidder pays or is given back (while one waits, the contract is short by what it sent
back), an auction that ends pays out what it owed, and
the debts of the others are untouched because the contract's balance only falls by its own
transactions.

**MarketProofs** (also `MarketAssumption`): the market runs one application, with instances of its
own of assets and oracle. `EachRunsAsSpecified`: seen by the application that is deployed, a
behaviour of the market is one of that application's own specification, whose theorems then hold of
it; `OthersAreIdle`: whatever is not used stays as it was at first, where every property holds. From
these two, case by case over `app`, follow the properties that run **market** checks of the
composition: `BooksBalanceForAll`, `ListsEnumerateForAll`, `AuctionsHoldForAll`,
`DepositsAreHeldForAll`, `DrawsHoldForAll`, `PotStaysForAll` and `AllVariablesAreTyped`. Where an
application's contract itself sends assets (an auction that ends, a prize), the lists of `BAC002`
and the books are shown again from the lemmas about its transactions, as the market's assets then do
more than users ask for.

Only model-checked: `AwaitedRequestsAreSettled`. Liveness under fairness is out of the prover's
reach. All other properties of the passing runs are stated by a theorem.

## 10. Not modelled

- **OracleRegisterCenter**: a registry nothing on the way of a request reads.
- **OracleCore of v2**: a variant that requires a new id in `query` and refuses an answer at the deadline itself.
- **URL half of bcos2runner**: the sequence `EventWorker` has of the newer runner, without the pool.
- **Curve and VRF arithmetic**: 256-bit field arithmetic and native libraries are out of TLC's reach; a
  proof is a value that determines what it proves.
- **Conversion of results, data sources, dapp client**: functions and queries that change nothing; an
  exception in them is a failure of `EventWorker`'s `Fetch`. `setReturnType` and the bytes of
  results are left out for the same reason.
- **batchSendFrom, URIs, names and descriptions** of the assets: a batch is a sequence of `sendFrom`
  in one transaction, the rest is text. Contracts that refuse an asset sent to them are left out; what
  contracts call when they are sent one is modelled where it matters (section 8).
- Failures of the database (an update that fails is logged and leaves the row as it was saved), services with
  a database each, error texts, and the times of rows
  beyond their order.
- Owners of a core's account, or holders of the service's VRF key, beside the services.
- **REST controllers, key store, configuration, generated wrappers**: no state a property is about.
