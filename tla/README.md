# SustainableFashionChain: specifications, model checking and proofs

TLA+ modules of the parts of SustainableFashionChain that hold its promises:
cotton is verified on Hyperledger Fabric, attested on Ethereum, tokenized as COT
one token per kilogram, and finished products get NFTs that are eventually
recycled. A bridge process carries requests and receipts between the two ledgers.
Paths below are relative to `src/`.

    tlc -config MCBridgeCot.cfg MCVerifiedBridge      # a run (see the table of runs)
    tlapm VerifiedBridgePromises.tla                   # proofs (see section 5)

## 1. Inventory

| Component | State | Operations | Talks to |
|---|---|---|---|
| `CottonReserveRegistry.sol` | a reserve per batch, two totals | `attestReserve`, `consume`, `deactivateReserve` | called by the attestor and by `CotToken` |
| `CotToken.sol` | supply, batch records, processed events and Fabric transactions | `mintBatch`, `mintVerifiedBatch`, `burn` | calls the registry in the same transaction |
| `ProductNFT.sol` | token counter, product data, product-to-token map, event logs | `mintProduct`, `recycleProduct`, transfer | minted by the bridge, recycled by owners or holders of BRIDGE_ROLE |
| `CircularRewards.sol` | reward configuration, history, a COT balance | `addRewardConfig`, `updateRewardConfig`, `issueReward` | calls `ProductNFT` and `CotToken` in the same transaction |
| chaincode `supplychain/index.js` | one key space of batches, tokenization requests and products; chaincode events | 13 transactions | called by the applications and the bridge, announces by events |
| bridge `bridging/bridge.js`, `verified-relay.js` | in memory only: queue, batch in progress, event cursor, nonce counter | event listeners, timer, batch loop | reads events of both ledgers, sends mints, acknowledges on Fabric |
| `bridging/attest-reserve.js` | none | reads a batch on Fabric, attests it on Ethereum | run by the certifier |
| treasury agent `agent/` | none; an append-only audit file | decide, simulate, revalidate, execute | reads the chain and Fabric, trades on `DemoCotMarket` |
| `DemoCotMarket.sol`, `DemoPriceFeed.sol` | balances, one price round | `buy`, `sell`, `setPrice` | the agent's venue |
| RabbitMQ queue and `notificationWorker.js` | connection, channel, broker's queues, copies being handled or waiting for a retry timer | publish, consume, retry, dead-letter, reconnect | in-process notification service, mail |
| `notification-service.js` | connected clients with their channels, a history of 50 | connect, subscribe, close, broadcast | WebSocket clients |
| user accounts `models/User.js`, `authController.js` | a MongoDB document per user | register, login, refresh, logout, change, reset | MongoDB, mail |
| response cache `middleware/cache.js`, `cacheService.js` | entries in Redis | look up, store, clear | Redis |
| `analyticsService.js` | four cached metrics under one date, the cache time | get, combine, clear, set | both ledgers |
| REST gateway `api-gateway.js`, `fabric-client.js` | one connection per request | one query or transaction per request | chaincode |
| web and mobile application `app.js`, `mobile-api.js` | one shared connection; one per mobile request | pages, scans, start, stop | chaincode |
| `iotIntegration.js` | devices, readings and references on the ledger | register, submit, status, calibration, query | chaincode's records |
| sharding, certification tables, zero-knowledge service, scripts | see `PROJECT.json` | | |

What is hard here, and where each hazard bites, is listed in `PROJECT.json`
("hazards", with line numbers). In short: the bridge keeps nothing on disk and
must find all outstanding work by reading both ledgers again; every request to a
ledger can be answered late or never; a mint and its acknowledgment are on
different ledgers; the contracts and the chaincode accept calls in any order from
several parties; and what makes replays harmless is spread over all of them.

What makes each part correct:

* registry and token: tokens never outnumber claims, nor claims attested
  kilograms, globally and per batch; an event mints once; provenance is fixed;
* chaincode: keys are never reused, cotton moves only forward, one request per
  batch and one announcement per approval, acknowledgments are final;
* product NFT and rewards: one token per product, one log per recycling, recycling
  paid once, COT conserved;
* bridge: nothing is minted or acknowledged twice, nothing is lost, everything that
  can be completed is;
* accounts: no session is lost by overlapping saves, and failed logins lock, no
  fewer than the limit;
* queue and notifications: a message is handled or dead-lettered, whatever fails in
  between, and an open client gets each notification in order and once, unless a client before it
  makes the broadcast throw;
* caches: nothing is served much longer than its time; REST writes: the answer tells
  what became of the transaction; every connection opened is accounted for;
* device readings: the three records of a reading agree, and the analysis with the alerts;
* treasury agent and market: a trade settles inside the limits of the state it
  settles in, for the terms that were recorded before it was signed.

## 2. Modules

| Module | Models | Role |
|---|---|---|
| `BackedClaims` | | abstract: capacity, claims, supply |
| `CotReserve` | `CottonReserveRegistry.sol`, `CotToken.sol` | implements `BackedClaims` |
| `CotReserveProofs` | | lemmas on sums of functions over finite sets, theorems about `CotReserve` |
| `SupplyChain` | `supplychain/index.js` | |
| `SupplyChainProofs` | | theorems about `SupplyChain` |
| `ProductNFT` | `ProductNFT.sol` | |
| `ProductNFTProofs` | | theorems about `ProductNFT` |
| `CircularRewards` | `CircularRewards.sol`, COT balances | extends `ProductNFT` |
| `CircularRewardsProofs` | | theorems about `CircularRewards`, extends `ProductNFTProofs` and, for the sums, `CotReserveProofs` |
| `RelayPromise` | | abstract: approve, mint once, acknowledge with that receipt |
| `WalletPool` | the Ethereum node's pool and the ethers `NonceManager` (external) | |
| `VerifiedBridge` | `bridge.js`, `verified-relay.js`, `attest-reserve.js` | composes `SupplyChain`, `CotReserve`, `ProductNFT`, `WalletPool`; implements `RelayPromise` twice |
| `VerifiedBridgeProofs` | | invariants of `VerifiedBridge`, from those of its components |
| `VerifiedBridgePromises` | | its refinements of `RelayPromise` and `NoActionLost`, extends `VerifiedBridgeProofs` |
| `DemoCotMarket` | `DemoCotMarket.sol`, `DemoPriceFeed.sol` | with everybody who moves them but the agent |
| `TradePolicy` | `policy/engine.py`, `execution/transaction.py`, `EthCallSimulator` | extends `DemoCotMarket` |
| `AgentExecution` | `cli.py`, `pipeline.py`, `execution/executor.py`, `data/ethereum.py`, `audit.py` | extends `TradePolicy` |
| `AgentExecutionProofs` | | theorems about `AgentExecution`, its policy and the market; extends `Services` too, where the market also runs |
| `UserAccounts` | `User.js`, `authController.js` over Mongoose (external) | |
| `MessageQueue` | `config/queue.js`, `queueService.js`, `notificationWorker.js` over RabbitMQ (external) | |
| `NotificationService` | `notification-service.js` | |
| `AnalyticsCache` | `analyticsService.js` | |
| `ResponseCache` | `middleware/cache.js`, `cacheService.js` over Redis (external) | |
| `LedgerGateway` | `api-gateway.js`, `fabric-client.js`, the calls of `frontend/src/services/api.js` | composes `SupplyChain` with Fabric's endorsement and commit |
| `LedgerReaders` | the connections of `app.js` and `mobile-api.js` | |
| `IoTDevices` | `iotIntegration.js` | |
| `Services` | | extends `UserAccounts` and `TradePolicy` and instantiates the other services; one of them at a time |
| `ServicesProofs` | | theorems about `Services`; instantiates `SupplyChainProofs` |
| `MC...` | | constants' symmetry and constraints of the runs |

Definitions whose comment begins with "Variant" are the definition below them with
a plausible bug. They are part of no specification; they document which mistake
each property would expose (`PROJECT.json`, "mutants").

**Chaincode and contracts.** An action is one committed transaction. Fabric
validates a transaction against the versions it read and drops it if they changed,
and an Ethereum call reverts as a whole, so each function is one atomic step, and a
call that throws is no step. Checks of roles are the choice of who may take the
action. Hashes, ids and addresses are model values. A chaincode event stands at its
index, which also plays its Fabric transaction id. `lastUpdated` is kept as whether
it is set, histories and timestamps are left out. Solidity's checked arithmetic is
kept: results outside `0 .. MaxUint` revert.

**Bridge.** `process` is "down", "starting" (after the live `ProductRecycled`
subscription, before the history is read) or "running". `pendingActions` is the
queue of the code, `batch` the spliced part that is being processed, `step` where
its first action is: before the check of what is already done, before sending,
waiting for the receipt, or before the acknowledgment. Each arrow between two
awaits of the code is a step of its own, so that blocks, other members, owners and
live events can come in between. Members use the chaincode at any time, also its
generic `updateStatus`, with each status and `recyclingTx` metadata of `MemberUpdates`
(a receipt can be written on a generic product that way, not on one with lineage);
`transferCustody` and `addCertification` change nothing the bridge reads and are left to
`SupplyChain`. `Fail` appends the action to the queue as the
catch clause does. An acknowledgment may get no answer and then is lost or commits
later, at any time (`unanswered`). `Crash` stands for a kill, a failed stream and
`stop()`: everything in memory goes, transactions in the node's pool stay. `stop()`
in the code waits for the batch in progress first, which is one of the
interleavings.

The reconciliation of an action that was done before (the logs, receipt and terms
it compares) is not modelled as a guard: `AcknowledgmentsAccepted` states that in
every reachable state those comparisons succeed.

**Wallet.** The `NonceManager` asks the node for the nonce once and counts by itself
from there, before the gas estimate. The node includes transactions in nonce order,
and may keep or refuse one ahead of the account.

**Treasury agent.** A run's `phase` is the await it stands at: "new", "observed" (the
state is read), "authorized" (decided, simulated, recorded), "refreshed" (read
again), "validated" (recorded again and signed), "sent", "waiting" (for the
receipt). Reading is one step because all Ethereum reads name one block. The book
holds what a read returns: the price round, the account's balances and allowances,
the pool, and whether Fabric and the registry agree. Between any two steps the
owner of the feed sets any price with any time, others trade, the account is drawn
on, the clock advances, blocks include what is pending; a run is killed (`Kill`), or
an exception ends it and is recorded (`Raise`). Amounts are integers scaled down, the
arithmetic is exact: quotes and bounds round as in the code, in each direction,
and both sides of each limit are within the values of the runs. There is one clock
for blocks and the agent's machine, and the node refuses a nonce that is in use
(the code never raises the gas price of one).

**User accounts.** A request loads the document, awaits (a hash, a mail, a save) and
saves; `call` holds what it loaded. Mongoose writes the modified paths only, and
checks the version when an array is replaced, which is why `failures` can be
overwritten and `tokens` cannot. `disturbed` records what excuses a missing lock:
two logins that overlapped, or a right password. Handlers that need a session throw
at once, because `authenticateToken` (`middleware/auth.js`) leaves the decoded token
in `req.user`.

**Message queue.** A copy of a message is at the broker (`queue`), with the worker
(`tasks`: handled, or waiting for its retry timer; `own` while its channel lives), or
in the dead letter queue. `link` is the worker's channel. What comes back when a
channel dies, and what ends the process (an exception in a timer, an acknowledgment
on a channel that did not deliver), follow amqplib and RabbitMQ. After a
reconnection nothing consumes: `link` is "deaf", and the run's liveness property
says so.

**Notifications.** Handlers run to their end, so a connection and a broadcast do not
interleave; sockets leave OPEN before their close event. Clients are numbered in the
order of their connection, which is the order in which `broadcast` walks the map. A
`subscribe` message with something else than an array is stored all the same
(`SubscribeMalformed`): a broadcast on a channel then throws at that client and the later
ones are not reached (`Throws`, `Reached`). `behind` records who was ever connected
behind such a client.

**Caches.** A value is represented by the time of the oldest read in it. Analytics
calls overlap between a read and its store; a cached response is stored after its
handler read, perhaps after a clear.

**REST gateway and readers.** A request's `step` is the await it stands at, and
`fate` what Fabric does with its transaction, which is endorsed on the state of that
moment and committed if what it read is unchanged, perhaps after the handler gave
up. `Others` are the other clients of the chaincode. Which refusals
`sendLedgerError` lists (`Listed`) decides between a client error and
"unavailable". `LedgerReaders` counts connections: the shared one of the pages, which
overlapping pages may open more than once, and those of mobile requests.

**Devices.** An action is one committed transaction. A reading's id is made of the
device and a peer's clock, and `productId` may be the key of any record; both are
kept, since they decide what the three records of a reading still say. The queries and
the analysis name readings by the positions of their references in the record, since
two references may lead to the same stored reading.

## 3. Runs

`PROJECT.json` says what each run shows. Times are for two workers.

| Run | Module, cfg | Distinct states | Bounds |
|---|---|---|---|
| `cot_reserve` | `MCCotReserve` | 8 959 | 2 batches, 2 Fabric transactions, 2 provenances, uint 0..5: overflow, full batches and a replay under another batch or quantity all occur |
| `supply_chain` | `MCSupplyChain` | 27 245 | 3 keys, so that a batch can meet two requests; at most one product, since no function reads two; every choice of warehouse, certificate, receipt and token id, 3 events |
| `circular_rewards` | `MCCircularRewards` | 634 272 | 2 tokens and products, 2 owners and the bridge, 2 action types, 2 COT: a balance that runs dry, 2 history entries |
| `bridge_cot` | `MCVerifiedBridge`, `MCBridgeCot.cfg` | 311 336 | 2 batches of 2 kg, 2 requests for 1 or 2 kg (a replayed mint would find capacity), 2 crashes with or without an acknowledgment on its way, 5 transactions |
| `bridge_nft` | `MCVerifiedBridge`, `MCBridgeNft.cfg` | 230 367 | 2 products with or without lineage, a member's `updateStatus` to 3 statuses with or without a receipt, 1 crash, 1 unanswered acknowledgment |
| `agent_execution` | `MCAgentExecution` | 1 180 707 | 2 overlapping runs on one portfolio in which one purchase fits the exposure and two do not; an allowance for one sale, 3 prices (one invalid), a clock of 4, a deadline of 1 and an oracle age of 2, 1 move of others |
| `bridge_live` | `MCVerifiedBridge`, `MCBridgeLive.cfg` | 183 400 | a request for 1 kg and a product with or without lineage, a member's receipt on it, 1 crash, 1 unanswered acknowledgment, 4 transactions |
| `services` | `MCServices` (of `Services`) | 597 095 | one service at a time, see below |

`services` checks nine systems that share no state; `focus` chooses one in the
initial state and the others stand still, so that the states add up and do not
multiply. Their bounds:

| Instance | Bounds |
|---|---|
| accounts | 2 requests at a time, of every kind; a limit of 2 failures (5 in the code) and 2 attempts, 2 sessions: two saves of each path that can meet |
| queue | 2 messages, 1 malformed; 1 fault of connection, broker or worker, at any moment of every retry |
| notifications | 2 clients (one ahead of the other), 1 channel, subscriptions to it, to nothing and malformed; a history of 2 (50 in the code) and 3 notifications, so that it overflows |
| analytics | cache times of 1 and 2 ticks, reads of up to 1, 2 calls at a time, a clock of 3 |
| responses | 2 requests, a time to live of 1, a store late by up to 1, a clock of 3, past their sum |
| gateway | an admin's request at a time beside any number of transactions of others, 2 keys, 2 events; conflicts need one other writer |
| readers | 3 pages and 2 mobile requests at a time, 6 loads |
| iot | 2 devices, 1 product, 6 readings on both sides of the limits, 2 submitted, a clock of 1, so that ids collide |
| policy | 2 646 initial books and what moves and time make of them, amounts of 1 to 3, 5 valid prices |

Runs that find a disagreement between what the repository says and what it does
(the text of each is in `PROJECT.json`, "findings"):

| Run | Shows |
|---|---|
| `bridge_retry` | a mint tried before its reserve is attested uses up a nonce; its retry then waits for ever, and everything with it |
| `recycling_receipt_writers` | `recyclingTx` can be written through `updateStatus` metadata |
| `analytics_ttl` | product, tokenization and sustainability metrics are served long after the cache time, since batch metrics renew the date they share |
| `malformed_subscription` | a client that subscribes to something that is no array cuts the clients behind it off from every notification with a channel |

One disagreement has no run, since no other part of the system reads the list it is
about: `CircularRewards.sol:67` says "action type already exists", but existence is a
reward that is not zero, so a type whose reward was updated to zero (line 84) can be
added again and is listed twice. `CircularRewards` models it (`AddRewardConfig`).

Bounds that are no constants of the code: `MaxKg`, `MaxEvents`, `MaxSends`,
`MaxNonce`, `MaxCrashes`, `MaxFailures`, `MaxTokens`, `MaxHistory`, `MaxReward`,
`MaxCot`, `MaxTime`, `MaxMoves`, `MaxIssued`, `MaxAttempts`, `MaxFaults`, `MaxSent`,
`MaxCalls`, `MaxLoads`, `MaxReadings` (each is a guard of the action that would exceed it). Nonces at `MaxNonce`
are all ahead of any account the run can reach and need not be told apart.
Symmetry is used in runs without liveness properties only. Deadlock is not an
error where all bounds can be used up or all work can be done.

## 4. Fairness

`FairSpec` assumes: a stopped bridge is started again (a supervisor restarts it);
its event loop runs whatever is ready (subscription, history, live events, chaincode
events, one step of the batch); the Ethereum node includes what is next in nonce
order. Members, certifier and owners owe nothing, an unanswered acknowledgment may
never commit, and crashes are finite.

`CompletedOrNonceGap` and `NFTSettledOrNonceGap` (a mint is acknowledged, a recycling
recorded) hold under it: what was approved and attested is completed, or the wallet's
counter has run ahead of the account. Without the second disjunct the first one
fails, which is the run `bridge_retry`.

`MessageQueue` assumes weak fairness of the deliveries, handlers and due timers
(`Work`) and of nothing else: neither the worker nor the broker need start again.
`SettledOrSilent` then says that no message circulates for ever, which rests on the
retry count in the header. None of the other services promises that anything
happens without a request.

## 5. Proofs

What TLC checks on small instances, TLAPS proves for every value of the constants:
any number of batches, requests, products, users, transactions, restarts and lost
answers. `PROJECT.json` ("theorems") has a sentence on each result.

### Assumptions

Each is an `ASSUME`, and TLC evaluates it in a run. The services declare theirs as
definitions, since their constants come from `Services`, which assumes all of them at
once (`ServicesAssumption`), as `ComponentsAssumption` does for the bridge.

| Assumption | Says | Why |
|---|---|---|
| `ReserveAssumption` | `MaxUint` is natural, batches are finitely many, `Zero` (an unset hash or string) is no other value | a sum over the batches needs a finite set |
| `ChaincodeAssumption` | the bounds are natural, `Null` is no value and no record, the farm is no warehouse | `null` in the code is no key, hash or record; a batch moves from the farm to a warehouse |
| `ProductNFTAssumption`, `RewardsAssumption` | the bounds are natural and some reward is possible, users are finitely many, `Null` is no record, user or product, the rewards contract is no user, may recycle and knows the type for it | `issueReward` relies on BRIDGE_ROLE (`CircularRewards.sol:100`), and the constructor adds the type |
| `BridgeAssumption` | keys of batches, requests and products differ; the bounds are natural; `MaxNonce` exceeds what can be sent; `MaxKg <= MaxUint` | what a request asks for can be encoded for Ethereum |
| `ComponentsAssumption` | the three assumptions above of the constants the bridge instantiates them with; `MemberUpdates` have statuses of the chaincode and receipts of transactions there can be | the theorems of the components are used for it |
| `AccountsAssumption` | the limit of failures is positive, the bounds natural, `Null` is no document | |
| `QueueAssumption`, `ReadersAssumption` | the bounds are natural; pages and mobile requests in progress are finitely many, and there is a page | the bounds are the model's; the connections that can be open are counted by the pages |
| `ChannelsAssumption` | clients are numbered, the history holds something, and having no channel is no channel | the map is walked in the order of connection; 50 in the code; what the worker sends on names no channel |
| `TimesAssumption` (analytics) | cache times, the duration of a read and the clock are natural | |
| `TimesAssumption` (responses) | a time to live is at least 1 | Redis refuses to set an entry that expires at once; the invariant fails without it |
| `IoTAssumption` | devices and what they monitor have different keys, levels are integers, `Null` is no record | one key is one record: a device id that is also a product's could not be registered beside it |
| `MarketAssumption`, `PolicyAssumption` | units and limits are natural, the fee and the limits are at most the whole, the initial books are books | constants of the contract (`DemoCotMarket.sol:17`) and the schema of the policy file (`policy/engine.py:11`) |

### The contracts: `CotReserveProofs`

* `TypeCorrect` (`ReserveTypeOK`); `ReplaySafe` (`ReplayProtection`), `BooksStayEqual` (`BooksAgree`),
  `ProvenanceNeverReplaced` (`ProvenanceFixed`): each inductive beside the type.
* `Backing` (`GlobalBacking`) and `BatchesBacked` (`BatchBacking`) from `BackingInv`:
  `GlobalBacking` is not inductive, since a mint is checked against its batch only.
  What carries it is that `totalVerifiedKg - totalTokenizedKg` is the sum of what
  is left of each active batch (`SumIs(BatchSlack, ...)`), each term of which is a
  natural number.
* `TotalsStayExact` (`TotalsExact`): the totals are the sums, computed as the run
  computes them, by a fold over the set of batches.
* `GlobalCheckNeverRejects`: the contract's closing check of the global invariant
  follows whenever the registry accepted the mint.
* `IssuanceIsBacked` and `Refinement` (`ImplementsBackedClaims`), by cases on the
  action from the invariants above.

The module begins with the lemmas on sums, which `CircularRewardsProofs` uses too. `SumIs` is a relation (there is a table of
partial sums), so that most of them need no induction; that the fold
`MapThenSumSet` of a finite set is such a sum follows from well-foundedness of
proper inclusion, in the form that asks for a minimal element.

### The chaincode: `SupplyChainProofs`

Two inductive invariants. `CottonInv` is about batches and requests: what
`RequestsFaithful` says, the stages a batch can be in (without them a second
verification or a completion from another stage could not be ruled out), and
`ApprovalsAnnounced`, which also says that a key that is no approved request has no
announcement, so that the first one is the only one. `NFTInv` says the same of
products and their NFT requests. They give `TypeCorrect`, `RequestsAreFaithful`
(`RequestsFaithful`), `NFTStateIsFaithful` (`NFTStateAgrees`) and the action properties
`CottonOnlyMovesOn` (`CottonLifecycle`) and `AcknowledgmentsAreFinal`
(`AcknowledgmentsFinal`).

### NFT and rewards: `ProductNFTProofs`, `CircularRewardsProofs`

`TokensInv` numbers the tokens: `1 .. tokenIdCounter` are minted, the transfer log has
exactly their mints in that order, no product names a later one, and a token has one
recycling event or none. `TokensAreFaithful` (`TokensFaithful`) follows. The lemmas do not ask who
calls: `RewardsImplementNFT` shows that with `issueReward` the token still keeps its own
specification, which carries `TokensFaithful` over, and `RewardsInv` adds that the balances
sum to `MaxCot` (without it a transfer could not be shown to stay within it) and that a
token's rewards for recycling match its log one to one. Hence `RewardsTypeCorrect`, `RecyclingsPaidOnce`
(`RecyclingPaidOnce`) and `RewardsPaidToOwner` (`PaidToOwner`).

### The bridge: `VerifiedBridgeProofs`, `VerifiedBridgePromises`

`LedgersKeepTheirSpecs`: in the composition the chaincode and both contracts take only
steps of their own specifications, so that the theorems above hold of it
(they are used through `INSTANCE`). On top of them:

* `BridgeInv`: the queue, the batch, what was sent and what may still commit are about
  announcements and tokens that exist; what is at the step before the acknowledgment has
  its receipt (`AckReady`), and stays so, since the ledgers only grow; a receipt of
  success is one of a mint (`MintsDone`). With it `BridgeTypeCorrect` (`TypeOK`).
* `MintsInv`: a successful transaction of an action is the only one, since the contracts
  refuse what is done, and what is done was done by one. With it `NothingMintedTwice`
  (`MintedOnce`).
* `ReservesInv`: what is attested or claimed of a batch is what Fabric says of it
  (`TokensBackedByCotton`, for `BackedByVerifiedCotton`). It needs that a batch with a
  reserve cannot be verified again and that its one request fixes what can be minted.
* `ProductsInv`: a token was asked for by the one announcement of its product, with
  its terms, and Fabric knows no other token of it; a receipt on a product with lineage
  is that of its token's recycling, since `updateStatus` refuses such a product, while a
  generic product may show any (`ProductsAndTokensAgree`, for `ProductsMatchTokens`).
* `CompletionsInv`: a completion on Fabric names the mint of that request.

Together (`AllInv`) they give `AcknowledgmentsAreAccepted` (`AcknowledgmentsAccepted`), and
the two refinements of `RelayPromise`: `BridgeKeepsTokenizationPromise` and
`BridgeKeepsNFTPromise`. In both, a step of the composition is an approval, a mint or
an acknowledgment of the promise, or leaves its variables as they are; that an
acknowledgment carries the promised receipt is `AckReady`, and that it is the only
one is `MintsInv`.

`NoActionIsLost` (`NoActionLost`) adds `QueueInv`: what the process still owes it
holds, it holds no request twice, and none that it has not read. The last part is
what makes a new announcement new to the queue; and nothing has been read of the
chaincode before the process runs, so that the history of recyclings is all it owes
at that moment. What leaves the queue does so through an acknowledgment that settles
it (`SubmitSettles`), for good (`SettledStays`). The queue and the batch are one
sequence in this argument (`Held`): a splice leaves it as it is, a failure rotates it,
an acknowledgment drops its head and events append to it.

The proof found a mistake in an earlier form of this property: without
parentheses `UNION A \cup B` is `UNION (A \cup B)`, so the recyclings were not in
`Received`. The formula is corrected, and the run that has recyclings now checks it.

### The services: `ServicesProofs`

A step of `Services` is a step of one part that leaves the variables of the others
(`OneStepsTheOthersStay`), so the conjunction of the parts' invariants, `ServicesInv`,
is inductive when each is. It gives every invariant the run `services` checks but the
policy's (see the next section), for any number of requests, messages, clients, devices
and any limits. Part by part:

* accounts, for any number of overlapping requests. `SessionsInv` says what each
  request in progress knows: if the document still has the version it loaded, it also
  has that list of tokens, which is all the versioned save of Mongoose checks. Hence
  `SessionsAreKept` (`SessionsKept`). `LockInv` compares every loaded count of failures
  with the failed logins: none exceeds them, and while nothing has disturbed the count
  they are equal and at most one comparison is under way. Hence `LockFollowsFailures`
  (`LockCountsFailures`).
* queue. `NoMessageLost` and `OnlyHopelessDeadLettered` are inductive only with
  `CountsBacked`: the count in a copy's header is backed by that many handlings, one
  more while it waits for its timer; without it a copy might be dead-lettered that was
  never tried. The bags are reasoned about by their domains, except where two of them
  are joined (`Joined`): only which copies there are matters, not how many. Hence
  `MessagesStayAccounted` (`MessagesAccounted`).
* notifications. `NotificationsInv`: the history is the newest notifications, newest
  first; every client with a throwing one before it is among those `behind`; and what a
  client that never narrowed its channels and is not behind received ends with the
  newest, has no gap, and is at least as long as the history. Hence
  `NoNotificationIsMissed` (`ClientsMissNothing`); without its exception for `behind` the
  property fails, which is the run `malformed_subscription`.
* caches. `AnalyticsInv`: the shared date is at most one read younger than the batch
  metrics under it (this is false of the other three metrics, the finding of
  `analytics_ttl`), and a call is never older than a read. `ResponsesInv`: a response
  that waits to be stored is no older than the slowest store, and an entry that is
  there has not expired. Hence `CachesStayFresh` (`CachesFresh`).
* REST router. `GatewayInv` lists what step, fate and answer of a request go together
  (`RequestOK`): an answer of success only with a query or a commit, of a client error
  only where nothing was ordered, and an ordered transaction only behind
  "unavailable". It also says which requests hold a gateway. Hence
  `AnswersStayTruthful` (`AnswersTruthful`) and the first half of `GatewaysStayClosed`.
* pages and mobile requests. `PagesBounded` counts the shared connections that are open
  together with those about to be opened, against the pages and the loads, in each phase
  of the server; the second half of `GatewaysStayClosed` (`GatewaysClosed`).
* devices. `IoTInv`: references lead to stored readings of that device, type and time;
  the stored reading fits its device; a device's counter is the number of references to
  its readings, a record's warnings the number of its abnormal ones. Two references may lead
  to one reading, which is why the invariant counts positions. Hence
  `ReadingsStayAccounted` (`ReadingsAccounted`).

`ServicesTypeCorrect` (`ServicesTypeOK`) follows from the same invariants. For the
ledger behind the router the chaincode's own proof is used (`Chain`, an instance of
`SupplyChainProofs`): each transaction the router or another client commits is a step
of `SupplyChain` (`ApplyIsStep`, `RouterSteps`), so `CottonInv` is kept, with the type
it contains.

### The treasury agent: `AgentExecutionProofs`

That the policy approves nothing the contract rejects, `ApprovedTradesAreAccepted`
(`ApprovedIsAccepted`), is about integers: the contract rounds a purchase up and a sale
down, the policy floors the change of the balance. `PredictedCost` shows both are the
same number, `SlippageWithinBound` that a cost within the slippage is within the bound
of the order, which is rounded too. What it needs of the state is only that the book is
one (`BookInv`), so it is stated of the market among the services and of the agent's.

For any number of runs that overlap on one account. `AgentInv` says what a run knows in
each phase, that an order that was signed stands in the audit file with a price that
justifies its bound (`Recorded`, `Justified`), and that a transaction outlives its run:
once the wait for the receipt ended, the deadline has passed. From it

* `TradesAreAsValidated` (`TradesAsValidated`): what settles was recorded, settles
  before its deadline and within the slippage of the recorded price, to the rounding of
  one unit;
* `AgentStaysWithinPolicy` (`TradesWithinPolicy`): what bounds the size and the exposure at
  settlement is the contract's own check, evaluated on the book of that block, whatever
  else was approved; `PaidIsQuote` shows that the change of the balance is the quote it
  checks;
* `AgentTypeCorrect` and `AgentTradesAreAccepted` (`ApprovedIsAccepted` in every state of the
  agent's market).

### What stays with TLC

Every invariant and action property of a passing run is the statement of a theorem.
Liveness (`CompletedOrNonceGap`, `NFTSettledOrNonceGap`, `SettledOrSilent`) needs
fairness and ENABLED, which are out of the prover's reach, and stays with TLC; so do the
four runs that find a disagreement, which are counterexamples. No theorem is about
induction over data: sums and counts are stated as relations or cardinalities, and
what a fold computes is proved from well-foundedness.

## 6. Not modelled

Chain reorganisations (inclusion is final), two bridge processes at once, other
minters and deactivations while the bridge runs, a change of the bridge's key,
number formatting (quantities are whole kilograms), identities and roles beyond who
may call, queries that change nothing, and the components marked `not_modelled` in `PROJECT.json` with
the reason.

What the services leave out, beyond that: in the accounts, other accounts (so also the
race of two registrations on one name where the index is missing), passwords,
verification of addresses and API keys, which no other request reads back; in the
queue, the four queues without consumers, an orderly close, and notifications
published when there is no channel (`publish` returns FALSE); in the response cache,
how keys are made and that error responses are stored like any other; in the gateway,
validation of the input and the issue of tokens; in the mobile application, its users,
an array in memory, and estimates computed for display; in the analytics, what the
numbers mean and the opening of connections; in the device module, averages and
totals, chemicals named like a member of `Object.prototype` (whose limit is
not a number), and `updateStatus` metadata over the readings (the contract does not
include the device functions). MongoDB sharding, the certification tables, the oracle
checks, the
zero-knowledge service and the agent's proposers keep no state that another step
reads, or drive an external system whose behaviour the repository does not fix.

## 7. Plan

1. done: `CotReserve` with `BackedClaims` and its proofs; `SupplyChain`;
   `ProductNFT`, `CircularRewards`; `VerifiedBridge` with `RelayPromise`.
2. done: `DemoCotMarket`, `TradePolicy` and `AgentExecution`.
3. done: the services around the ledger, each a module, together `Services`.
4. done: proofs about `CotReserve`, `SupplyChain`, `ProductNFT`, `CircularRewards`,
   `VerifiedBridge`, `Services` and `AgentExecution`.
5. possible next: a market with several agents' accounts; the queues that have no consumer
   yet, once the repository adds one.
