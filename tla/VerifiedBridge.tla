--------------------------- MODULE VerifiedBridge ---------------------------
(***************************************************************************)
(* The bridge process between the Fabric chaincode (SupplyChain) and the   *)
(* Ethereum contracts (CotReserve, ProductNFT), composed with both.  It    *)
(* mints COT for approved tokenization requests and NFTs for products,     *)
(* records recycled NFTs on Fabric, and acknowledges with the receipts.    *)
(* The process keeps everything in memory and may stop at any point; it    *)
(* then reads both ledgers' events again from the first one.  A request to *)
(* a ledger and its answer are separate steps where something can happen   *)
(* in between.  "Variant" definitions are buggy forms of the definition    *)
(* that follows them and no part of the specification.                     *)
(***************************************************************************)
EXTENDS Integers, Sequences, FiniteSets, SequencesExt

CONSTANTS
  BatchIds, RequestIds, ProductIds,  \* keys of the Fabric ledger
  Farm, Warehouses, Certs, MaxKg,    \* as in SupplyChain
  MaxUint,                           \* as in CotReserve
  Users, Uris, MaxTokens,            \* NFT recipients, metadata; as in ProductNFT
  MemberUpdates,                     \* [status, recyclingTx] of updateStatus calls
  BatchSize,                         \* config.batchSize
  MaxEvents,                         \* bound: chaincode events
  MaxSends, MaxNonce,                \* bounds of WalletPool
  MaxCrashes, MaxFailures,           \* bounds: crashes, unanswered submissions
  Null

ASSUME BridgeAssumption ==
  /\ BatchIds \cap RequestIds = {} /\ (BatchIds \cup RequestIds) \cap ProductIds = {}
  /\ BatchSize \in Nat \ {0}
  /\ {MaxEvents, MaxTokens, MaxSends, MaxNonce, MaxCrashes, MaxFailures} \subseteq Nat
  /\ MaxNonce > MaxSends
  /\ MaxKg <= MaxUint  \* a larger quantity cannot be encoded for Ethereum

VARIABLES
  ledger, events,                                      \* Fabric
  reserves, totalVerifiedKg, totalTokenizedKg, totalSupply, batchData,
  allBatchIds, processedEvents, processedFabricTransactions,  \* registry, COT
  tokenIdCounter, productData, fabricToTokenId, owner, transferLog,
  recycledLog,                                         \* ProductNFT
  txs, accountNonce, nextNonce,                        \* the bridge's wallet
  process,        \* "down", "starting" or "running"
  heard, cursor,  \* ProductRecycled and chaincode events received so far
  pendingActions, \* the queue
  batch,          \* the spliced part of the queue that is being processed
  step,           \* how far the head of batch has got
  receipt,        \* the hash it is to acknowledge
  unanswered,     \* acknowledgments given up that may still commit
  crashes, failures

fabricVars == <<ledger, events>>
cotVars == <<reserves, totalVerifiedKg, totalTokenizedKg, totalSupply, batchData,
             allBatchIds, processedEvents, processedFabricTransactions>>
nftVars == <<tokenIdCounter, productData, fabricToTokenId, owner, transferLog,
             recycledLog>>
chainVars == <<fabricVars, cotVars, nftVars>>
walletVars == <<txs, accountNonce, nextNonce>>
inputVars == <<process, heard, cursor>>
workVars == <<batch, step, receipt>>
faultVars == <<unanswered, crashes, failures>>
vars == <<chainVars, walletVars, inputVars, pendingActions, workVars, faultVars>>

\* Hashes of the wallet's transactions, then of those that recycled a token.
RecyclingTx(i) == MaxSends + i

MintTerms == [recipient : Users, uri : Uris]

Fabric == INSTANCE SupplyChain WITH
  Keys <- BatchIds \cup RequestIds \cup ProductIds,
  EthTxs <- 1 .. MaxSends + MaxTokens, NftIds <- 1 .. MaxTokens

COT == INSTANCE CotReserve WITH
  Batches <- BatchIds, FabricTxs <- 1 .. MaxEvents,
  Provenances <- Certs \X (1 .. MaxEvents), Zero <- Null

NFT == INSTANCE ProductNFT WITH Terms <- MintTerms, BridgeRole <- {}

Wallet == INSTANCE WalletPool

\* What the components assume, of the constants they are given here.
ASSUME ComponentsAssumption ==
  /\ Fabric!ChaincodeAssumption /\ COT!ReserveAssumption /\ NFT!ProductNFTAssumption
  /\ MemberUpdates \subseteq [status : Fabric!Statuses,
                             recyclingTx : (1 .. MaxSends + MaxTokens) \cup {Null}]

\* A queued action: its type and the event or the token it is about.
Tokenization(i) == [type |-> "tokenization", ref |-> i]
NFTMinting(i) == [type |-> "nftMinting", ref |-> i]
Recycling(id) == [type |-> "recycling", ref |-> id]

Event(a) == events[a.ref]

-----------------------------------------------------------------------------
(* Everybody else                                                          *)

\* Variant: the state of the batch is not looked at.
AttestableEarly(b) == Fabric!IsBatch(b)

\* VERIFIED_FABRIC_BATCH_REQUIRED
Attestable(b) ==
  /\ Fabric!IsBatch(b)
  /\ ledger[b].rwaStatus \in {"VERIFIED", "TOKENIZED"}
  /\ ledger[b].certificationHash # Null

\* The certifier's tool attest-reserve.js.
Attest(b) ==
  /\ Attestable(b)
  /\ COT!AttestReserve(b, ledger[b].quantity,
       <<ledger[b].certificationHash, ledger[b].verificationTx>>)
  /\ UNCHANGED <<fabricVars, nftVars, walletVars, inputVars, pendingActions, workVars,
                 faultVars>>

\* Transactions of the channel's members.  Those left out, transferCustody and
\* addCertification, write fields that only they and the creating calls touch.
Members ==
  /\ \/ \E b \in BatchIds, q \in 1 .. MaxKg : Fabric!RegisterCottonBatch(b, q)
     \/ \E b \in BatchIds, w \in Warehouses : Fabric!StoreCottonBatch(b, w)
     \/ \E b \in BatchIds, c \in Certs : Fabric!VerifyCottonBatch(b, c)
     \/ \E r \in RequestIds, b \in BatchIds, q \in 1 .. MaxKg, w \in Warehouses :
          Fabric!RequestTokenization(r, b, q, w)
     \/ \E r \in RequestIds : Fabric!ApproveTokenizationRequest(r)
     \/ \E p \in ProductIds :
          \/ Fabric!CreateFinishedProduct(p, BatchIds)
          \/ Fabric!RegisterProduct(p, Farm)
          \/ \E u \in MemberUpdates : Fabric!UpdateStatus(p, u.status, u.recyclingTx)
          \/ \E t \in MintTerms : Fabric!RequestNFTMinting(p, t)
  /\ UNCHANGED <<cotVars, nftVars, walletVars, inputVars, pendingActions, workVars,
                 faultVars>>

\* Owners of product NFTs trade and recycle them.
Owners ==
  /\ \E id \in 1 .. MaxTokens, u \in Users :
       NFT!TransferNFT(id, u) \/ NFT!RecycleProduct(id, u)
  /\ UNCHANGED <<fabricVars, cotVars, walletVars, inputVars, pendingActions, workVars,
                 faultVars>>

\* What the contracts require of the bridge's mint; CotToken's other requirements
\* follow from these in every state it reaches.
MintAccepted(a) ==
  \/ /\ a.type = "tokenization"
     /\ COT!NotReplayed(a.ref, Event(a).batchId, Event(a).quantity)
     /\ reserves[Event(a).batchId].active
     /\ COT!WithinVerified(Event(a).batchId, Event(a).quantity)
  \/ a.type = "nftMinting" /\ NFT!NotUsed(Event(a).productId)

\* mintVerifiedBatch and mintProduct
Mint(a) ==
  \/ /\ a.type = "tokenization"
     /\ COT!MintVerifiedBatch(a.ref, Event(a).batchId, Event(a).quantity,
                              Event(a).warehouse)
     /\ UNCHANGED nftVars
  \/ /\ a.type = "nftMinting"
     /\ NFT!MintProduct(Event(a).terms.recipient, Event(a).productId, Event(a).terms)
     /\ UNCHANGED cotVars

\* An included transaction mints, or fails and changes nothing.
Include(t) ==
  /\ \/ Wallet!Include(t, "mined") /\ Mint(txs[t].action)
     \/ /\ Wallet!Include(t, "reverted")
        /\ ~MintAccepted(txs[t].action)
        /\ UNCHANGED <<cotVars, nftVars>>
  /\ UNCHANGED <<fabricVars, inputVars, pendingActions, workVars, faultVars>>

-----------------------------------------------------------------------------
(* Start, event streams and queue                                          *)

\* Live ProductRecycled notifications begin before the past ones are read.
Subscribe ==
  /\ process = "down"
  /\ process' = "starting"
  /\ heard' = Len(recycledLog)
  /\ UNCHANGED <<chainVars, walletVars, cursor, pendingActions, workVars, faultVars>>

\* Variant: the new stream starts at the end of the ledger.
FromLatest == Len(events)

\* startBlock: 0n
FromGenesis == 0

\* Past ProductRecycled events are queued, and the chaincode events are read
\* from the first one.
Reconcile ==
  /\ process = "starting"
  /\ process' = "running"
  /\ pendingActions' = pendingActions
       \o [i \in DOMAIN recycledLog |-> Recycling(recycledLog[i].tokenId)]
  /\ cursor' = FromGenesis
  /\ UNCHANGED <<chainVars, walletVars, heard, workVars, faultVars>>

HearRecycled ==
  /\ process # "down"
  /\ heard < Len(recycledLog)
  /\ heard' = heard + 1
  /\ pendingActions' = Append(pendingActions, Recycling(recycledLog[heard'].tokenId))
  /\ UNCHANGED <<chainVars, walletVars, process, cursor, workVars, faultVars>>

\* The actions that a chaincode event asks for.
Requested(i) ==
  IF events[i].name = "TokenizationRequested" THEN <<Tokenization(i)>>
  ELSE IF events[i].name = "NFTMintingRequested" THEN <<NFTMinting(i)>>
  ELSE <<>>

ReadEvent ==
  /\ process = "running"
  /\ cursor < Len(events)
  /\ cursor' = cursor + 1
  /\ pendingActions' = pendingActions \o Requested(cursor')
  /\ UNCHANGED <<chainVars, walletVars, process, heard, workVars, faultVars>>

\* Variant: the splice takes one action more than batchSize.
SpliceOneMore == IF Len(pendingActions) <= BatchSize THEN Len(pendingActions)
                                                     ELSE BatchSize + 1

\* How many actions splice(0, batchSize) removes.
Spliced == IF Len(pendingActions) <= BatchSize THEN Len(pendingActions) ELSE BatchSize

\* By the timer once the process runs, or by a full queue; one batch at a time.
ProcessBatch ==
  /\ process = "running" \/ Len(pendingActions) >= BatchSize
  /\ step = "idle"
  /\ pendingActions # <<>>
  /\ batch' = SubSeq(pendingActions, 1, Spliced)
  /\ pendingActions' = SubSeq(pendingActions, Spliced + 1, Len(pendingActions))
  /\ step' = "check"
  /\ UNCHANGED <<chainVars, walletVars, inputVars, receipt, faultVars>>

-----------------------------------------------------------------------------
(* The action at the head of the batch                                     *)

Action == Head(batch)

\* The loop goes on with the rest of the batch.
Advance ==
  /\ batch' = Tail(batch)
  /\ step' = IF Len(batch) = 1 THEN "idle" ELSE "check"
  /\ receipt' = 0

\* The action is done and forgotten.
Succeed == Advance /\ UNCHANGED pendingActions

\* Variant: a failed action is forgotten as well.
FailAndForget == Advance /\ UNCHANGED pendingActions

\* The action failed: it goes to the end of the queue.
Fail == Advance /\ pendingActions' = Append(pendingActions, Action)

\* Goes on with the acknowledgment of a transaction, or with a mint.
AckNext(hash) == step' = "ack" /\ receipt' = hash /\ UNCHANGED <<batch, pendingActions>>
SendNext == step' = "send" /\ UNCHANGED <<batch, receipt, pendingActions>>

\* An event already processed has its receipt looked up in the logs.
CheckTokenization ==
  /\ step = "check" /\ Action.type = "tokenization"
  /\ LET id == COT!EventIdFor(Action.ref, Event(Action).batchId, Event(Action).quantity)
     IN  \/ /\ id \in processedEvents
            /\ \E t \in DOMAIN txs : /\ txs[t].status = "mined" /\ txs[t].action = Action
                                     /\ AckNext(t)
         \/ id \notin processedEvents /\ SendNext
  /\ UNCHANGED <<chainVars, walletVars, inputVars, faultVars>>

\* The event of a product without lineage lacks arguments of mintProduct, which
\* then throws before anything is sent.
CheckNFTMinting ==
  /\ step = "check" /\ Action.type = "nftMinting"
  /\ \/ fabricToTokenId[Event(Action).productId] # 0 /\ AckNext(0)
     \/ /\ fabricToTokenId[Event(Action).productId] = 0
        /\ IF Event(Action).complete THEN SendNext ELSE Fail
  /\ UNCHANGED <<chainVars, walletVars, inputVars, faultVars>>

CheckRecycling ==
  /\ step = "check" /\ Action.type = "recycling"
  /\ \E i \in DOMAIN recycledLog :
       recycledLog[i].tokenId = Action.ref /\ AckNext(RecyclingTx(i))
  /\ UNCHANGED <<chainVars, walletVars, inputVars, faultVars>>

\* Variant: the transaction is acknowledged without waiting for it.
SentUnconfirmed == AckNext(Len(txs'))

\* The relay waits for the transaction it has sent.
Sent ==
  /\ step' = "wait"
  /\ receipt' = Len(txs')
  /\ UNCHANGED <<batch, pendingActions>>

SendMint ==
  /\ step = "send"
  /\ \/ ~MintAccepted(Action) /\ Wallet!EstimateFails /\ Fail
     \/ MintAccepted(Action) /\ Wallet!Refused /\ Fail
     \/ MintAccepted(Action) /\ Wallet!Expired /\ Fail
     \/ MintAccepted(Action) /\ Wallet!Broadcast(Action) /\ Sent
  /\ UNCHANGED <<chainVars, inputVars, faultVars>>

\* tx.wait: the receipt of a failed transaction is thrown.
AwaitReceipt ==
  /\ step = "wait"
  /\ \/ txs[receipt].status = "mined" /\ AckNext(receipt)
     \/ txs[receipt].status = "reverted" /\ Fail
  /\ UNCHANGED <<chainVars, walletVars, inputVars, faultVars>>

\* completeTokenization, mintNFT or recordRecycling.
Submit(a, hash) ==
  \/ a.type = "tokenization" /\ Fabric!CompleteTokenization(Event(a).requestId, hash)
  \/ /\ a.type = "nftMinting"
     /\ Fabric!MintNFT(Event(a).productId, fabricToTokenId[Event(a).productId])
  \/ /\ a.type = "recycling"
     /\ Fabric!RecordRecycling(productData[a.ref].fabricProductId, a.ref, hash)

\* When the chaincode takes it.
Accepted(a, hash) ==
  \/ /\ a.type = "tokenization"
     /\ Fabric!AlreadyCompleted(Event(a).requestId, hash)
          \/ Fabric!Completable(Event(a).requestId)
  \/ /\ a.type = "nftMinting"
     /\ \/ Fabric!AcceptsNFT(Event(a).productId)
        \/ ledger[Event(a).productId].nftTokenId = fabricToTokenId[Event(a).productId]
  \/ /\ a.type = "recycling"
     /\ LET p == productData[a.ref].fabricProductId
        IN  /\ ledger[p].nftTokenId = a.ref
            /\ ledger[p].recyclingTx = hash \/ Fabric!Recyclable(p)

\* It commits and the answer arrives, or the chaincode throws.
Acknowledge ==
  /\ step = "ack"
  /\ \/ Submit(Action, receipt) /\ Succeed
     \/ ~Accepted(Action, receipt) /\ Fail /\ UNCHANGED fabricVars
  /\ UNCHANGED <<cotVars, nftVars, walletVars, inputVars, faultVars>>

Acknowledgment == [action |-> Action, hash |-> receipt]

\* No answer: the submission is lost, or it is on its way and commits later.
AcknowledgeUnanswered ==
  /\ step = "ack"
  /\ failures < MaxFailures
  /\ failures' = failures + 1
  /\ unanswered' \in {unanswered, unanswered \cup {Acknowledgment}}
  /\ Fail
  /\ UNCHANGED <<chainVars, walletVars, inputVars, crashes>>

CommitUnanswered(u) ==
  /\ u \in unanswered
  /\ Submit(u.action, u.hash)
  /\ unanswered' = unanswered \ {u}
  /\ UNCHANGED <<cotVars, nftVars, walletVars, inputVars, pendingActions, workVars,
                 crashes, failures>>

\* The process ends, in the worst case with an acknowledgment on its way.
Crash ==
  /\ process # "down"
  /\ crashes < MaxCrashes
  /\ crashes' = crashes + 1
  /\ \/ UNCHANGED unanswered
     \/ step = "ack" /\ unanswered' = unanswered \cup {Acknowledgment}
  /\ process' = "down" /\ heard' = 0 /\ cursor' = 0
  /\ pendingActions' = <<>> /\ batch' = <<>> /\ step' = "idle" /\ receipt' = 0
  /\ nextNonce' = Null
  /\ UNCHANGED <<chainVars, txs, accountNonce, failures>>

-----------------------------------------------------------------------------

Init ==
  /\ Fabric!Init /\ COT!ReserveInit /\ NFT!Init /\ Wallet!Init
  /\ process = "down" /\ heard = 0 /\ cursor = 0
  /\ pendingActions = <<>> /\ batch = <<>> /\ step = "idle" /\ receipt = 0
  /\ unanswered = {} /\ crashes = 0 /\ failures = 0

Process ==
  \/ ProcessBatch
  \/ CheckTokenization \/ CheckNFTMinting \/ CheckRecycling
  \/ SendMint \/ AwaitReceipt
  \/ Acknowledge \/ AcknowledgeUnanswered

Receive == Subscribe \/ Reconcile \/ HearRecycled \/ ReadEvent

Next ==
  \/ Members
  \/ Owners
  \/ \E b \in BatchIds : Attest(b)
  \/ \E t \in DOMAIN txs : Include(t)
  \/ Receive
  \/ Process
  \/ \E u \in unanswered : CommitUnanswered(u)
  \/ Crash

Spec == Init /\ [][Next]_vars

\* The event loop runs what is ready, nodes include what can be included, and a
\* stopped process is started again.  Members, the certifier, owners and a
\* submission without an answer owe nothing.
Fairness ==
  /\ WF_vars(Subscribe) /\ WF_vars(Reconcile)
  /\ WF_vars(HearRecycled) /\ WF_vars(ReadEvent)
  /\ WF_vars(Process)
  /\ WF_vars(\E t \in DOMAIN txs : Include(t))

FairSpec == Spec /\ Fairness

-----------------------------------------------------------------------------
(* Properties                                                              *)

Actions ==
  [type : {"tokenization", "nftMinting"}, ref : DOMAIN events]
    \cup [type : {"recycling"}, ref : 1 .. tokenIdCounter]

Hashes == 0 .. MaxSends + MaxTokens

TypeOK ==
  /\ Fabric!TypeOK /\ COT!ReserveTypeOK /\ NFT!TypeOK /\ Wallet!TypeOK(Actions)
  /\ process \in {"down", "starting", "running"}
  /\ heard \in 0 .. Len(recycledLog) /\ cursor \in 0 .. Len(events)
  /\ pendingActions \in Seq(Actions)
  /\ batch \in Seq(Actions) /\ Len(batch) <= BatchSize
  /\ step \in {"idle", "check", "send", "wait", "ack"}
  /\ (step = "idle") <=> (batch = <<>>)
  /\ receipt \in Hashes
  /\ unanswered \subseteq [action : Actions, hash : Hashes]
  /\ crashes \in 0 .. MaxCrashes /\ failures \in 0 .. MaxFailures

Approvals == {i \in DOMAIN events : events[i].name = "TokenizationRequested"}

\* The transactions that minted for an action.
MintsOf(a) == {t \in DOMAIN txs : txs[t].status = "mined" /\ txs[t].action = a}

\* However often the process restarts, nothing is minted twice, and what the
\* contracts have minted is exactly what the bridge's transactions did.
MintedOnce ==
  /\ \A a \in Actions : Cardinality(MintsOf(a)) <= 1
  /\ processedEvents = {COT!EventIdFor(i, events[i].batchId, events[i].quantity) :
                          i \in {j \in Approvals : MintsOf(Tokenization(j)) # {}}}
  /\ tokenIdCounter = Cardinality({i \in DOMAIN events : MintsOf(NFTMinting(i)) # {}})

\* Tokens stand for cotton that Fabric holds: what is attested of a batch is its
\* verified quantity under its own certification, and what is minted is what an
\* approved request asked for.
BackedByVerifiedCotton ==
  \A b \in BatchIds :
    /\ reserves[b].active =>
         /\ Fabric!IsBatch(b)
         /\ ledger[b].rwaStatus \in {"VERIFIED", "TOKENIZED"}
         /\ reserves[b].verifiedKg = ledger[b].quantity
         /\ reserves[b].provenance
              = <<ledger[b].certificationHash, ledger[b].verificationTx>>
    /\ reserves[b].tokenizedKg > 0 =>
         LET r == ledger[ledger[b].pending]
         IN  /\ r.status \in {"APPROVED", "COMPLETED"}
             /\ reserves[b].tokenizedKg = r.quantity

\* A product's record and its NFT tell the same story: a token is of a product
\* with lineage that asked for it, Fabric knows no other token of it, and a
\* recycling that it shows of a product with lineage is the token's, by the
\* transaction it names.  A generic product may show any receipt: members can
\* write one as metadata.
ProductsMatchTokens ==
  /\ \A id \in 1 .. tokenIdCounter :
       LET p == productData[id].fabricProductId
       IN  /\ Fabric!Has(p, {"manufactured"})
           /\ ledger[p].status # "FINISHED"
           /\ ledger[p].nftTokenId \in {Null, id}
  /\ \A p \in ProductIds : Fabric!IsProduct(p) =>
       /\ ledger[p].nftTokenId # Null => ledger[p].nftTokenId = fabricToTokenId[p]
       /\ ledger[p].kind = "manufactured" /\ ledger[p].recyclingTx # Null =>
            \E i \in DOMAIN recycledLog :
              /\ ledger[p].recyclingTx = RecyclingTx(i)
              /\ recycledLog[i].tokenId = fabricToTokenId[p]

\* What a chaincode event asked for is settled on Fabric.
Settled(a) ==
  \/ a.type = "tokenization" /\ ledger[Event(a).requestId].status = "COMPLETED"
  \/ a.type = "nftMinting" /\ ledger[Event(a).productId].nftTokenId # Null
  \/ /\ a.type = "recycling"
     /\ ledger[productData[a.ref].fabricProductId].recyclingTx # Null

Received ==
  (UNION {Range(Requested(i)) : i \in 1 .. cursor})
    \cup {Recycling(recycledLog[i].tokenId) : i \in 1 .. heard}

\* While the process runs, whatever it has received and Fabric does not show as
\* settled is in the queue or in the batch, and no mint is there twice.
NoActionLost ==
  LET held == batch \o pendingActions
  IN  /\ process = "running" =>
           \A a \in Received : Settled(a) \/ a \in Range(held)
      /\ \A i, j \in DOMAIN held :
           held[i] = held[j] /\ held[i].type # "recycling" => i = j

\* What the bridge is about to acknowledge, or gave up acknowledging, is the
\* confirmed mint of exactly that request, with the terms the event asked for, or
\* the one recycling of that token; and a mint the chaincode will always take.
AcknowledgmentsAccepted ==
  LET Sound(a, hash) ==
        \/ /\ a.type = "tokenization"
           /\ MintsOf(a) = {hash}
           /\ Accepted(a, hash)
        \/ /\ a.type = "nftMinting"
           /\ LET id == fabricToTokenId[Event(a).productId]
              IN  /\ id # 0
                  /\ productData[id].terms = Event(a).terms
                  /\ {i \in DOMAIN transferLog :
                        transferLog[i] = [to |-> Event(a).terms.recipient,
                                          tokenId |-> id]} = {id}
           /\ Accepted(a, hash)
        \/ /\ a.type = "recycling"
           /\ productData[a.ref].recycled
           /\ {i \in DOMAIN recycledLog : recycledLog[i].tokenId = a.ref}
                = {hash - MaxSends}
  IN  /\ step = "ack" => Sound(Action, receipt)
      /\ \A u \in unanswered : Sound(u.action, u.hash)

IsApproved(r) == Fabric!IsRequest(r) /\ ledger[r].status \in {"APPROVED", "COMPLETED"}

\* Composed, the ledgers and the process do what the relay promises of requests,
\* where the receipt is the hash of the transaction that minted.
TokenizationPromise == INSTANCE RelayPromise WITH
  Requests <- RequestIds,
  Receipts <- 1 .. MaxSends,
  approved <- {r \in RequestIds : IsApproved(r)},
  mints <- [r \in RequestIds |->
              {t \in DOMAIN txs :
                 /\ txs[t].status = "mined"
                 /\ txs[t].action.type = "tokenization"
                 /\ Event(txs[t].action).requestId = r}],
  acknowledged <- [r \in RequestIds |->
                     IF Fabric!IsRequest(r) THEN ledger[r].ethTx ELSE Null]

ImplementsTokenizationPromise == TokenizationPromise!Spec

\* The same promise of products with lineage, where the receipt is the token id.
NFTPromise == INSTANCE RelayPromise WITH
  Requests <- ProductIds,
  Receipts <- 1 .. MaxTokens,
  approved <- {p \in ProductIds : /\ Fabric!Has(p, {"manufactured"})
                                  /\ ledger[p].status # "FINISHED"},
  mints <- [p \in ProductIds |->
              {id \in 1 .. tokenIdCounter : productData[id].fabricProductId = p}],
  acknowledged <- [p \in ProductIds |->
                     IF Fabric!IsProduct(p) THEN ledger[p].nftTokenId ELSE Null]

ImplementsNFTPromise == NFTPromise!Spec

\* Approved on Fabric, and the reserve is attested on Ethereum.
Relayable(r) == IsApproved(r) /\ reserves[ledger[r].batchId].active

Completed(r) == Fabric!IsRequest(r) /\ ledger[r].status = "COMPLETED"

\* Through crashes and lost answers, an approved request with an attested
\* reserve is completed, unless the signer has run ahead of its account.
CompletedOrNonceGap ==
  \A r \in RequestIds : Relayable(r) ~> (Completed(r) \/ Wallet!NonceGap)

\* A product with lineage that asked for its NFT gets it, with the same proviso,
\* however many actions that cannot succeed share the queue.
NFTAcknowledgedOrNonceGap ==
  \A p \in ProductIds :
    (Fabric!Has(p, {"manufactured"}) /\ ledger[p].status = "NFT_MINT_PENDING")
      ~> (\/ Wallet!NonceGap
          \/ Fabric!IsProduct(p) /\ ledger[p].nftTokenId # Null)

\* A recycled NFT is recorded on Fabric, even when it is recycled before Fabric
\* knows the token.
RecyclingRecordedOrNonceGap ==
  \A id \in 1 .. MaxTokens :
    (NFT!Minted(id) /\ productData[id].recycled)
      ~> (\/ Wallet!NonceGap
          \/ \E p \in ProductIds : /\ fabricToTokenId[p] = id
                                   /\ ledger[p].status = "RECYCLING_INITIATED")

\* What is asked of the bridge for an NFT is in the end done: it is minted and
\* acknowledged, and its recycling recorded.
NFTSettledOrNonceGap == NFTAcknowledgedOrNonceGap /\ RecyclingRecordedOrNonceGap

\* "queued actions retry after failures, and committed events are replayed on
\* restart": an approved request with an attested reserve is completed.
QueuedActionsRetry == \A r \in RequestIds : Relayable(r) ~> Completed(r)
=============================================================================
