------------------------- MODULE VerifiedBridgeProofs -------------------------
(***************************************************************************)
(* Proofs about the bridge composed with both ledgers, for all constants.  *)
(* The chaincode and the contracts take part with their own steps only, so *)
(* what is proved of each alone holds here.  On top of that, whatever is   *)
(* queued, sent or unanswered is about an announcement or a token that     *)
(* exists; what is at the acknowledgment has its receipt, and goes on      *)
(* having it since neither ledger takes anything back; and the contracts'  *)
(* own checks leave at most one successful transaction for an action.      *)
(***************************************************************************)
EXTENDS VerifiedBridge, FiniteSetTheorems, SequenceTheorems, NaturalsInduction,
        WellFoundedInduction, TLAPS

Keys == BatchIds \cup RequestIds \cup ProductIds
EthTxs == 1 .. MaxSends + MaxTokens
NftIds == 1 .. MaxTokens

\* The components again, with what is proved of them.
Chaincode == INSTANCE SupplyChainProofs
Issuance == INSTANCE CotReserveProofs WITH
  Batches <- BatchIds, FabricTxs <- 1 .. MaxEvents,
  Provenances <- Certs \X (1 .. MaxEvents), Zero <- Null
Tokens == INSTANCE ProductNFTProofs WITH Terms <- MintTerms, BridgeRole <- {}

-----------------------------------------------------------------------------
(* The components are the ones that the bridge is composed with            *)

LEMMA SameRecords ==
  /\ \A k : /\ Fabric!IsBatch(k) <=> Chaincode!IsBatch(k)
            /\ Fabric!IsRequest(k) <=> Chaincode!IsRequest(k)
            /\ Fabric!IsProduct(k) <=> Chaincode!IsProduct(k)
            /\ Fabric!Exists(k) <=> Chaincode!Exists(k)
  /\ Fabric!TypeOK <=> Chaincode!TypeOK
  /\ Fabric!Init <=> Chaincode!Init
  /\ Fabric!vars = Chaincode!vars
  /\ Fabric!ChaincodeAssumption <=> Chaincode!ChaincodeAssumption
BY DEF Keys, EthTxs, NftIds, Fabric!IsBatch, Fabric!IsRequest, Fabric!IsProduct,
       Fabric!Has, Fabric!Exists, Fabric!TypeOK, Fabric!Records, Fabric!Batches,
       Fabric!Requests, Fabric!Products, Fabric!Statuses, Fabric!Holders, Fabric!Events,
       Fabric!Init, Fabric!vars, Fabric!ChaincodeAssumption, Chaincode!IsBatch,
       Chaincode!IsRequest, Chaincode!IsProduct, Chaincode!Has, Chaincode!Exists,
       Chaincode!TypeOK, Chaincode!Records, Chaincode!Batches, Chaincode!Requests,
       Chaincode!Products, Chaincode!Statuses, Chaincode!Holders, Chaincode!Events,
       Chaincode!Init, Chaincode!vars, Chaincode!ChaincodeAssumption

LEMMA SameTransactions ==
  Fabric!Next <=> Chaincode!Next
BY DEF Keys, EthTxs, NftIds, Fabric!Next, Fabric!MemberNext, Fabric!BridgeNext,
       Fabric!IsBatch, Fabric!IsRequest, Fabric!IsProduct, Fabric!Has, Fabric!Exists,
       Fabric!Statuses, Fabric!Holders, Fabric!vars, Fabric!RegisterProduct,
       Fabric!TransferCustody, Fabric!UpdateStatus, Fabric!AddCertification,
       Fabric!RegisterCottonBatch, Fabric!VerifyCottonBatch, Fabric!StoreCottonBatch,
       Fabric!RequestTokenization, Fabric!ApproveTokenizationRequest,
       Fabric!CreateFinishedProduct, Fabric!RequestNFTMinting,
       Fabric!CompleteTokenization, Fabric!MintNFT, Fabric!RecordRecycling,
       Fabric!Vacant, Fabric!Put, Fabric!Emit, Fabric!Updatable, Fabric!Verifiable,
       Fabric!OpenForRequest, Fabric!Approvable, Fabric!AlreadyCompleted,
       Fabric!Completable, Fabric!AcceptsNFT, Fabric!Recyclable, Chaincode!Next,
       Chaincode!MemberNext, Chaincode!BridgeNext, Chaincode!IsBatch,
       Chaincode!IsRequest, Chaincode!IsProduct, Chaincode!Has, Chaincode!Exists,
       Chaincode!Statuses, Chaincode!Holders, Chaincode!vars, Chaincode!RegisterProduct,
       Chaincode!TransferCustody, Chaincode!UpdateStatus, Chaincode!AddCertification,
       Chaincode!RegisterCottonBatch, Chaincode!VerifyCottonBatch,
       Chaincode!StoreCottonBatch, Chaincode!RequestTokenization,
       Chaincode!ApproveTokenizationRequest, Chaincode!CreateFinishedProduct,
       Chaincode!RequestNFTMinting, Chaincode!CompleteTokenization, Chaincode!MintNFT,
       Chaincode!RecordRecycling, Chaincode!Vacant, Chaincode!Put, Chaincode!Emit,
       Chaincode!Updatable, Chaincode!Verifiable, Chaincode!OpenForRequest,
       Chaincode!Approvable, Chaincode!AlreadyCompleted, Chaincode!Completable,
       Chaincode!AcceptsNFT, Chaincode!Recyclable

LEMMA SameCot ==
  /\ COT!ReserveInit <=> Issuance!ReserveInit
  /\ COT!ReserveNext <=> Issuance!ReserveNext
  /\ COT!ReserveTypeOK <=> Issuance!ReserveTypeOK
  /\ COT!vars = Issuance!vars
  /\ COT!ReserveAssumption <=> Issuance!ReserveAssumption
BY DEF COT!IsFiniteSet, Issuance!IsFiniteSet, COT!ReserveInit, COT!ReserveNext,
       COT!ReserveTypeOK, COT!vars,
       COT!ReserveAssumption, COT!Uint, COT!EventIds, COT!registryVars, COT!replayVars,
       COT!tokenVars, COT!Reserve, COT!BatchData, COT!Checked, COT!Counted,
       COT!AmendedTotal, COT!SameProvenance, COT!CoversIssuance, COT!AttestReserve,
       COT!WithinVerified, COT!Consume, COT!NoClaims, COT!DeactivateReserve,
       COT!MintSupply, COT!MintBatch, COT!EventIdFor, COT!NotReplayed, COT!ListBatch,
       COT!BookMint, COT!MintVerifiedBatch, COT!Burn, Issuance!ReserveInit,
       Issuance!ReserveNext,
       Issuance!ReserveTypeOK, Issuance!vars, Issuance!ReserveAssumption, Issuance!Uint,
       Issuance!EventIds, Issuance!registryVars, Issuance!replayVars,
       Issuance!tokenVars, Issuance!Reserve, Issuance!BatchData, Issuance!Checked,
       Issuance!Counted, Issuance!AmendedTotal, Issuance!SameProvenance,
       Issuance!CoversIssuance, Issuance!AttestReserve, Issuance!WithinVerified,
       Issuance!Consume, Issuance!NoClaims, Issuance!DeactivateReserve,
       Issuance!MintSupply, Issuance!MintBatch, Issuance!EventIdFor,
       Issuance!NotReplayed, Issuance!ListBatch, Issuance!BookMint,
       Issuance!MintVerifiedBatch, Issuance!Burn

LEMMA SameNFT ==
  /\ NFT!Init <=> Tokens!Init
  /\ NFT!Next <=> Tokens!Next
  /\ NFT!TypeOK <=> Tokens!TypeOK
  /\ NFT!nftVars = Tokens!nftVars
  /\ NFT!ProductNFTAssumption <=> Tokens!ProductNFTAssumption
BY DEF NFT!Init, NFT!Next, NFT!TypeOK, NFT!nftVars, NFT!ProductNFTAssumption,
       NFT!TokenIds, NFT!ProductData, NFT!Minted, NFT!NotUsed, NFT!NewTokenId,
       NFT!MintProduct, NFT!NotRecycled, NFT!RecycleProduct, NFT!TransferNFT,
       Tokens!Init, Tokens!Next, Tokens!TypeOK, Tokens!nftVars,
       Tokens!ProductNFTAssumption, Tokens!TokenIds, Tokens!ProductData, Tokens!Minted,
       Tokens!NotUsed, Tokens!NewTokenId, Tokens!MintProduct, Tokens!NotRecycled,
       Tokens!RecycleProduct, Tokens!TransferNFT

-----------------------------------------------------------------------------
(* The invariant                                                           *)

Mintings == {i \in DOMAIN events : events[i].name = "NFTMintingRequested"}

\* What the bridge can be asked to do.
Asked ==
  {Tokenization(i) : i \in Approvals} \cup {NFTMinting(i) : i \in Mintings}
    \cup {Recycling(id) : id \in 1 .. tokenIdCounter}

\* The three kinds of records have keys of their own.
KeysApart ==
  \A k \in Keys :
    /\ Fabric!IsBatch(k) => k \in BatchIds
    /\ Fabric!IsRequest(k) => k \in RequestIds
    /\ Fabric!IsProduct(k) => k \in ProductIds

\* A request for an NFT says of its product what the ledger does.
MintingsFit ==
  \A i \in Mintings :
    LET p == events[i].productId
    IN  Fabric!IsProduct(p) /\ (events[i].complete <=> ledger[p].kind = "manufactured")

\* Each component's own invariant, and how the bridge's members use Fabric.
LedgersInv ==
  /\ Chaincode!CottonInv /\ Chaincode!NFTInv
  /\ Issuance!ReserveTypeOK /\ Issuance!BackingInv
  /\ Tokens!TokensInv
  /\ Len(events) <= MaxEvents
  /\ KeysApart /\ MintingsFit

\* The bridge sends mints only, and of products those with lineage.
Sendable(a) == a.type = "tokenization" \/ (a.type = "nftMinting" /\ Event(a).complete)

\* The bridge acknowledges what has happened on Ethereum, with its receipt.
AckReady(a, hash) ==
  \/ /\ a.type = "tokenization"
     /\ hash \in DOMAIN txs /\ txs[hash].status = "mined" /\ txs[hash].action = a
  \/ a.type = "nftMinting" /\ fabricToTokenId[Event(a).productId] # 0
  \/ /\ a.type = "recycling"
     /\ \E i \in DOMAIN recycledLog : /\ hash = RecyclingTx(i)
                                      /\ recycledLog[i].tokenId = a.ref

Included == {t \in DOMAIN txs : txs[t].status # "pending"}

Sends == [nonce : 0 .. MaxNonce, action : {a \in Asked : Sendable(a)},
          status : {"pending", "mined", "reverted"}]

\* The account's nonce counts the transactions that were included.
WalletInv ==
  /\ txs \in Seq(Sends) /\ Len(txs) <= MaxSends
  /\ accountNonce = Cardinality(Included)
  /\ nextNonce \in (0 .. MaxNonce) \cup {Null}

InputsInv ==
  /\ process \in {"down", "starting", "running"}
  /\ heard \in 0 .. Len(recycledLog) /\ cursor \in 0 .. Len(events)
  /\ crashes \in 0 .. MaxCrashes /\ failures \in 0 .. MaxFailures

WorkInv ==
  /\ pendingActions \in Seq(Asked)
  /\ batch \in Seq(Asked) /\ Len(batch) <= BatchSize
  /\ step \in {"idle", "check", "send", "wait", "ack"}
  /\ (step = "idle") <=> (batch = <<>>)
  /\ receipt \in Hashes

\* What the step of the head of the batch says.
HeadInv ==
  /\ step \in {"send", "wait"} => Sendable(Action)
  /\ step = "wait" => receipt \in DOMAIN txs /\ txs[receipt].action = Action
  /\ step = "ack" => AckReady(Action, receipt)

UnansweredInv ==
  \A u \in unanswered :
    /\ u \in [action : Asked, hash : Hashes]
    /\ AckReady(u.action, u.hash)

EventId(i) == COT!EventIdFor(i, events[i].batchId, events[i].quantity)

\* The contracts have minted for an action.
Done(a) ==
  \/ a.type = "tokenization" /\ EventId(a.ref) \in processedEvents
  \/ a.type = "nftMinting" /\ fabricToTokenId[Event(a).productId] # 0

\* A receipt of success is one of a mint.
MintsDone == \A t \in DOMAIN txs : txs[t].status = "mined" => Done(txs[t].action)

\* The inductive invariant behind TypeOK.
BridgeInv ==
  /\ LedgersInv /\ WalletInv /\ InputsInv /\ WorkInv /\ HeadInv /\ UnansweredInv
  /\ MintsDone

-----------------------------------------------------------------------------
(* What the invariant says of an action                                    *)

LEMMA EventFacts ==
  ASSUME LedgersInv
  PROVE  /\ DOMAIN events \subseteq 1 .. MaxEvents
         /\ \A i \in Approvals :
              /\ events[i].requestId \in RequestIds /\ events[i].batchId \in BatchIds
              /\ events[i].quantity \in 1 .. MaxKg /\ events[i].warehouse \in Warehouses
         /\ \A i \in Mintings :
              /\ events[i].productId \in ProductIds /\ events[i].terms \in MintTerms
              /\ events[i].complete \in BOOLEAN
<1>1. events \in Seq(Chaincode!Events)
  BY DEF LedgersInv, Chaincode!CottonInv, Chaincode!TypeOK
<1>2. DOMAIN events \subseteq 1 .. MaxEvents
  BY <1>1, LenProperties, BridgeAssumption DEF LedgersInv
<1>3. \A i \in DOMAIN events : events[i] \in Chaincode!Events
  BY <1>1, ElementOfSeq, LenProperties
<1>4. ASSUME NEW i \in Approvals
      PROVE  /\ events[i].requestId \in RequestIds /\ events[i].batchId \in BatchIds
             /\ events[i].quantity \in 1 .. MaxKg /\ events[i].warehouse \in Warehouses
  <2>1. /\ events[i].requestId \in Keys /\ events[i].batchId \in Keys
        /\ events[i].quantity \in 1 .. MaxKg /\ events[i].warehouse \in Warehouses
    BY <1>3 DEF Approvals, Chaincode!Events
  <2>2. i \in Chaincode!ApprovalsOf(events[i].requestId)
    BY DEF Approvals, Chaincode!ApprovalsOf
  <2>3. /\ Chaincode!Approved(events[i].requestId)
        /\ events[i].batchId = ledger[events[i].requestId].batchId
    BY <2>1, <2>2 DEF LedgersInv, Chaincode!CottonInv, Chaincode!ApprovalsAnnounced
  <2>4. Chaincode!IsRequest(events[i].requestId) /\ Chaincode!IsBatch(events[i].batchId)
    BY <2>1, <2>3 DEF Chaincode!Approved, LedgersInv, Chaincode!CottonInv,
                      Chaincode!RequestsBacked
  <2>5. QED BY <2>1, <2>4, SameRecords DEF LedgersInv, KeysApart
<1>5. ASSUME NEW i \in Mintings
      PROVE  /\ events[i].productId \in ProductIds /\ events[i].terms \in MintTerms
             /\ events[i].complete \in BOOLEAN
  <2>1. /\ events[i].productId \in Keys /\ events[i].terms \in MintTerms
        /\ events[i].complete \in BOOLEAN
    BY <1>3 DEF Mintings, Chaincode!Events
  <2>2. QED BY <2>1 DEF LedgersInv, MintingsFit, KeysApart
<1>6. QED BY <1>2, <1>4, <1>5

\* The three kinds of actions.
LEMMA AskedKinds ==
  ASSUME NEW a \in Asked
  PROVE  \/ a = Tokenization(a.ref) /\ a.type = "tokenization" /\ a.ref \in Approvals
         \/ a = NFTMinting(a.ref) /\ a.type = "nftMinting" /\ a.ref \in Mintings
         \/ a = Recycling(a.ref) /\ a.type = "recycling" /\ a.ref \in 1 .. tokenIdCounter
BY DEF Asked, Tokenization, NFTMinting, Recycling

LEMMA TokenFacts ==
  ASSUME LedgersInv
  PROVE  /\ tokenIdCounter \in 0 .. MaxTokens
         /\ \A p \in ProductIds : fabricToTokenId[p] \in 0 .. tokenIdCounter
         /\ \A id \in 1 .. tokenIdCounter : productData[id].fabricProductId \in ProductIds
         /\ Len(recycledLog) <= MaxTokens /\ DOMAIN recycledLog = 1 .. Len(recycledLog)
         /\ Len(recycledLog) \in Nat
         /\ \A i \in DOMAIN recycledLog : recycledLog[i].tokenId \in 1 .. tokenIdCounter
<1>1. Tokens!TokensInv /\ Tokens!ProductNFTAssumption /\ MaxTokens \in Nat
  BY SameNFT, ComponentsAssumption, BridgeAssumption DEF LedgersInv
<1>2. /\ tokenIdCounter \in 0 .. MaxTokens
      /\ \A p \in ProductIds : fabricToTokenId[p] \in 0 .. tokenIdCounter
  BY <1>1 DEF Tokens!TokensInv, Tokens!TypeOK, Tokens!TokensNumbered
<1>3. \A id \in 1 .. tokenIdCounter : productData[id].fabricProductId \in ProductIds
  BY <1>1, <1>2 DEF Tokens!TokensInv, Tokens!TypeOK, Tokens!TokensNumbered,
                    Tokens!TokenIds, Tokens!ProductData
<1>4. /\ Len(recycledLog) <= MaxTokens /\ DOMAIN recycledLog = 1 .. Len(recycledLog)
      /\ Len(recycledLog) \in Nat
  BY <1>1, Tokens!RecyclingsBounded, LenProperties DEF Tokens!TokensInv, Tokens!TypeOK
<1>5. \A i \in DOMAIN recycledLog : recycledLog[i].tokenId \in 1 .. tokenIdCounter
  <2> SUFFICES ASSUME NEW i \in DOMAIN recycledLog
               PROVE  recycledLog[i].tokenId \in 1 .. tokenIdCounter
    OBVIOUS
  <2>1. recycledLog[i].tokenId \in Tokens!TokenIds
    <3>1. recycledLog[i] \in [tokenId : Tokens!TokenIds, recycler : Users \cup {}]
      BY <1>1, <1>4, ElementOfSeq DEF Tokens!TokensInv, Tokens!TypeOK
    <3>2. QED BY <3>1
  <2>2. i \in Tokens!RecyclingsOf(recycledLog[i].tokenId)
    BY DEF Tokens!RecyclingsOf
  <2>3. Tokens!Minted(recycledLog[i].tokenId)
    BY <1>1, <2>1, <2>2 DEF Tokens!TokensInv, Tokens!RecyclingsLogged
  <2>4. QED BY <1>1, <1>2, <2>1, <2>3 DEF Tokens!TokensInv, Tokens!TokensNumbered, Tokens!TokenIds
<1>6. QED BY <1>2, <1>3, <1>4, <1>5

-----------------------------------------------------------------------------
(* A step of the bridge is a step of each ledger, or leaves it as it is    *)

\* Who writes what.
LEMMA Frames ==
  ASSUME [Next]_vars
  PROVE  /\ \/ UNCHANGED fabricVars
            \/ Members \/ Acknowledge \/ \E u \in unanswered : CommitUnanswered(u)
         /\ \/ UNCHANGED cotVars
            \/ (\E b \in BatchIds : Attest(b)) \/ \E t \in DOMAIN txs : Include(t)
         /\ UNCHANGED nftVars \/ Owners \/ \E t \in DOMAIN txs : Include(t)
         /\ \/ UNCHANGED walletVars
            \/ SendMint \/ Crash \/ \E t \in DOMAIN txs : Include(t)
         /\ UNCHANGED inputVars \/ Receive \/ Crash
         /\ UNCHANGED <<pendingActions, workVars>> \/ Receive \/ Process \/ Crash
         /\ \/ UNCHANGED faultVars
            \/ AcknowledgeUnanswered \/ Crash \/ \E u \in unanswered : CommitUnanswered(u)
<1>1. CASE UNCHANGED vars
  BY <1>1 DEF vars, chainVars, inputVars, workVars, faultVars, walletVars, fabricVars,
              cotVars, nftVars
<1>2. CASE Members
  BY <1>2 DEF Members
<1>3. CASE Owners
  BY <1>3 DEF Owners
<1>4. CASE \E b \in BatchIds : Attest(b)
  BY <1>4 DEF Attest
<1>5. CASE \E t \in DOMAIN txs : Include(t)
  BY <1>5 DEF Include
<1>6. CASE Receive
  BY <1>6 DEF Receive, Subscribe, Reconcile, HearRecycled, ReadEvent, chainVars
<1>7. CASE Process
  BY <1>7 DEF Process, ProcessBatch, CheckTokenization, CheckNFTMinting, CheckRecycling,
              SendMint, AwaitReceipt, Acknowledge, AcknowledgeUnanswered, chainVars,
              faultVars
<1>8. CASE \E u \in unanswered : CommitUnanswered(u)
  BY <1>8 DEF CommitUnanswered
<1>9. CASE Crash
  BY <1>9 DEF Crash, chainVars
<1>10. QED BY <1>1, <1>2, <1>3, <1>4, <1>5, <1>6, <1>7, <1>8, <1>9 DEF Next

LEMMA MembersStep == ASSUME Members PROVE Fabric!Next
<1>1. Farm \in Fabric!Holders /\ "FINISHED" \in Fabric!Statuses
  BY DEF Fabric!Holders, Fabric!Statuses
<1>2. BatchIds \subseteq Keys /\ RequestIds \subseteq Keys /\ ProductIds \subseteq Keys
  BY DEF Keys
<1>3. ASSUME NEW p \in ProductIds, NEW u \in MemberUpdates,
             Fabric!UpdateStatus(p, u.status, u.recyclingTx)
      PROVE  Fabric!MemberNext
  <2>1. u.status \in Fabric!Statuses /\ u.recyclingTx \in EthTxs \cup {Null} /\ p \in Keys
    BY <1>2, ComponentsAssumption DEF EthTxs
  <2>2. QED BY <1>3, <2>1 DEF Fabric!MemberNext, EthTxs, Keys
<1>4. Fabric!MemberNext
  BY <1>1, <1>2, <1>3 DEF Members, Fabric!MemberNext, Keys
<1>5. QED BY <1>4 DEF Fabric!Next

\* An acknowledgment that is ready is one that the chaincode's own steps have.
LEMMA SubmitStep ==
  ASSUME LedgersInv, WalletInv, NEW a \in Asked, NEW hash \in Hashes, AckReady(a, hash),
         Submit(a, hash)
  PROVE  Fabric!Next
<1>1. CASE a.type = "tokenization"
  <2>1. Event(a).requestId \in Keys
    BY <1>1, AskedKinds, EventFacts DEF Event, Keys
  <2>2. hash \in EthTxs
    BY <1>1, TokenFacts, LenProperties, BridgeAssumption DEF AckReady, WalletInv, EthTxs
  <2>3. Fabric!CompleteTokenization(Event(a).requestId, hash)
    BY <1>1 DEF Submit
  <2>4. Fabric!BridgeNext
    BY <2>1, <2>2, <2>3 DEF Fabric!BridgeNext, Keys, EthTxs
  <2>5. QED BY <2>4 DEF Fabric!Next
<1>2. CASE a.type = "nftMinting"
  <2>1. Event(a).productId \in ProductIds
    BY <1>2, AskedKinds, EventFacts DEF Event
  <2>2. fabricToTokenId[Event(a).productId] \in NftIds
    <3>1. fabricToTokenId[Event(a).productId] # 0
      BY <1>2 DEF AckReady
    <3>2. QED BY <2>1, <3>1, TokenFacts, BridgeAssumption DEF NftIds
  <2>3. Fabric!MintNFT(Event(a).productId, fabricToTokenId[Event(a).productId])
    BY <1>2 DEF Submit
  <2>4. Fabric!BridgeNext
    BY <2>1, <2>2, <2>3 DEF Fabric!BridgeNext, NftIds
  <2>5. QED BY <2>4 DEF Fabric!Next
<1>3. CASE a.type = "recycling"
  <2>1. a.ref \in 1 .. tokenIdCounter
    BY <1>3, AskedKinds
  <2>2. productData[a.ref].fabricProductId \in ProductIds /\ a.ref \in NftIds
    BY <2>1, TokenFacts, BridgeAssumption DEF NftIds
  <2>3. hash \in EthTxs
    BY <1>3, TokenFacts, BridgeAssumption DEF AckReady, RecyclingTx, EthTxs
  <2>4. Fabric!RecordRecycling(productData[a.ref].fabricProductId, a.ref, hash)
    BY <1>3 DEF Submit
  <2>5. Fabric!BridgeNext
    BY <2>2, <2>3, <2>4 DEF Fabric!BridgeNext, NftIds, EthTxs
  <2>6. QED BY <2>5 DEF Fabric!Next
<1>4. QED BY <1>1, <1>2, <1>3, AskedKinds

\* The head of a batch that is being processed is an action.
LEMMA HeadFacts ==
  ASSUME WorkInv, step # "idle"
  PROVE  Action \in Asked /\ Len(batch) >= 1 /\ Len(batch) \in Nat /\ Tail(batch) \in Seq(Asked)
<1>1. batch \in Seq(Asked) /\ batch # <<>>
  BY DEF WorkInv
<1>2. QED BY <1>1, HeadTailProperties, EmptySeq, LenProperties DEF Action

LEMMA FabricStep == BridgeInv /\ [Next]_vars => [Fabric!Next]_(Fabric!vars)
<1> SUFFICES ASSUME BridgeInv, [Next]_vars PROVE [Fabric!Next]_(Fabric!vars)
  OBVIOUS
<1>1. CASE UNCHANGED fabricVars
  BY <1>1 DEF fabricVars, Fabric!vars
<1>2. CASE Members
  BY <1>2, MembersStep
<1>3. CASE Acknowledge
  <2>1. step = "ack" /\ Action \in Asked /\ receipt \in Hashes /\ AckReady(Action, receipt)
    BY <1>3, HeadFacts DEF Acknowledge, BridgeInv, WorkInv, HeadInv
  <2>2. CASE Submit(Action, receipt)
    BY <2>1, <2>2, SubmitStep DEF BridgeInv
  <2>3. QED BY <1>1, <1>3, <2>2 DEF Acknowledge
<1>4. ASSUME NEW u \in unanswered, CommitUnanswered(u)
      PROVE  [Fabric!Next]_(Fabric!vars)
  <2>1. u.action \in Asked /\ u.hash \in Hashes /\ AckReady(u.action, u.hash)
    BY DEF BridgeInv, UnansweredInv
  <2>2. QED BY <1>4, <2>1, SubmitStep DEF BridgeInv, CommitUnanswered
<1>5. QED BY <1>1, <1>2, <1>3, <1>4, Frames

\* A mint of the bridge is one that the contracts' own steps have.
LEMMA MintStep ==
  ASSUME LedgersInv, NEW a \in Asked, Sendable(a), Mint(a)
  PROVE  [COT!ReserveNext]_(COT!vars) /\ [NFT!Next]_(NFT!nftVars)
<1>1. CASE a.type = "tokenization"
  <2>1. /\ a.ref \in 1 .. MaxEvents /\ Event(a).batchId \in BatchIds
        /\ Event(a).quantity \in COT!Uint /\ Event(a).warehouse \in Warehouses
    BY <1>1, AskedKinds, EventFacts, BridgeAssumption, ComponentsAssumption
       DEF Event, Approvals, COT!Uint, COT!ReserveAssumption, Fabric!ChaincodeAssumption
  <2>2. COT!ReserveNext /\ UNCHANGED nftVars
    BY <1>1, <2>1 DEF Mint, COT!ReserveNext
  <2>3. QED BY <2>2 DEF nftVars, NFT!nftVars
<1>2. CASE a.type = "nftMinting"
  <2>1. Event(a).productId \in ProductIds /\ Event(a).terms \in MintTerms
        /\ Event(a).terms.recipient \in Users
    BY <1>2, AskedKinds, EventFacts DEF Event, MintTerms
  <2>2. NFT!Next /\ UNCHANGED cotVars
    BY <1>2, <2>1 DEF Mint, NFT!Next
  <2>3. QED BY <2>2 DEF cotVars, COT!vars, COT!registryVars, COT!tokenVars
<1>3. QED BY <1>1, <1>2 DEF Sendable

LEMMA IncludeStep ==
  ASSUME BridgeInv, NEW t \in DOMAIN txs, Include(t)
  PROVE  [COT!ReserveNext]_(COT!vars) /\ [NFT!Next]_(NFT!nftVars)
<1>1. CASE Mint(txs[t].action)
  <2>1. txs[t] \in Sends
    BY ElementOfSeq, LenProperties DEF BridgeInv, WalletInv
  <2>2. txs[t].action \in Asked /\ Sendable(txs[t].action)
    BY <2>1 DEF Sends
  <2>3. QED BY <1>1, <2>2, MintStep DEF BridgeInv
<1>2. CASE UNCHANGED <<cotVars, nftVars>>
  BY <1>2 DEF nftVars, NFT!nftVars, cotVars, COT!vars, COT!registryVars, COT!tokenVars
<1>3. QED BY <1>1, <1>2 DEF Include

LEMMA CotStep == BridgeInv /\ [Next]_vars => [COT!ReserveNext]_(COT!vars)
<1> SUFFICES ASSUME BridgeInv, [Next]_vars PROVE [COT!ReserveNext]_(COT!vars)
  OBVIOUS
<1>1. CASE UNCHANGED cotVars
  BY <1>1 DEF cotVars, COT!vars, COT!registryVars, COT!tokenVars
<1>2. ASSUME NEW b \in BatchIds, Attest(b)
      PROVE  [COT!ReserveNext]_(COT!vars)
  <2>1. Chaincode!IsBatch(b) /\ ledger[b].certificationHash # Null /\ b \in Keys
    BY <1>2, SameRecords DEF Attest, Attestable, Keys
  <2>2. ledger[b] \in Chaincode!Batches /\ Chaincode!TypeOK
    BY <2>1, ComponentsAssumption, SameRecords, Chaincode!KindsOfRecords
       DEF BridgeInv, LedgersInv, Chaincode!CottonInv
  <2>3. ledger[b].verificationTx # 0
    BY <2>1 DEF BridgeInv, LedgersInv, Chaincode!CottonInv, Chaincode!BatchStages
  <2>4. /\ ledger[b].quantity \in 1 .. MaxKg /\ ledger[b].certificationHash \in Certs
        /\ ledger[b].verificationTx \in 1 .. MaxEvents
    BY <2>1, <2>2, <2>3 DEF Chaincode!Batches
  <2>5. /\ ledger[b].quantity \in COT!Uint
        /\ <<ledger[b].certificationHash, ledger[b].verificationTx>>
             \in Certs \X (1 .. MaxEvents)
    BY <2>4, BridgeAssumption, ComponentsAssumption
       DEF COT!Uint, COT!ReserveAssumption, Fabric!ChaincodeAssumption
  <2>6. QED BY <1>2, <2>5 DEF Attest, COT!ReserveNext
<1>3. QED BY <1>1, <1>2, IncludeStep, Frames

LEMMA NFTStep == BridgeInv /\ [Next]_vars => [NFT!Next]_(NFT!nftVars)
<1> SUFFICES ASSUME BridgeInv, [Next]_vars PROVE [NFT!Next]_(NFT!nftVars)
  OBVIOUS
<1>1. CASE UNCHANGED nftVars
  BY <1>1 DEF nftVars, NFT!nftVars
<1>2. CASE Owners
  BY <1>2 DEF Owners, NFT!Next, NFT!TokenIds
<1>3. QED BY <1>1, <1>2, IncludeStep, Frames

-----------------------------------------------------------------------------
(* The ledgers' invariants, with the keys apart                            *)

\* A kind of record, under a key of that kind.
KindApart(k) ==
  /\ Fabric!IsBatch(k) => k \in BatchIds
  /\ Fabric!IsRequest(k) => k \in RequestIds
  /\ Fabric!IsProduct(k) => k \in ProductIds

\* Members give every kind of record keys of its own.
LEMMA MembersCreate ==
  ASSUME LedgersInv, Members, NEW k \in Keys, ~Fabric!Exists(k)
  PROVE  KindApart(k)'
<1> ledger \in [Keys -> Chaincode!Records \cup {Null}]
  BY DEF LedgersInv, Chaincode!CottonInv, Chaincode!TypeOK
<1> BatchIds \subseteq Keys /\ RequestIds \subseteq Keys /\ ProductIds \subseteq Keys
  BY DEF Keys
<1> USE DEF Fabric!IsBatch, Fabric!IsRequest, Fabric!IsProduct, Fabric!Has, Fabric!Exists,
            Fabric!Put, KindApart
<1>1. ASSUME NEW b \in BatchIds, NEW q \in 1 .. MaxKg, Fabric!RegisterCottonBatch(b, q)
      PROVE  KindApart(k)'
  BY <1>1 DEF Fabric!RegisterCottonBatch
<1>2. ASSUME NEW b \in BatchIds, NEW w \in Warehouses, Fabric!StoreCottonBatch(b, w)
      PROVE  KindApart(k)'
  BY <1>2 DEF Fabric!StoreCottonBatch
<1>3. ASSUME NEW b \in BatchIds, NEW c \in Certs, Fabric!VerifyCottonBatch(b, c)
      PROVE  KindApart(k)'
  BY <1>3 DEF Fabric!VerifyCottonBatch, Fabric!Verifiable
<1>4. ASSUME NEW r \in RequestIds, NEW b \in BatchIds, NEW q \in 1 .. MaxKg,
             NEW w \in Warehouses, Fabric!RequestTokenization(r, b, q, w)
      PROVE  KindApart(k)'
  <2>1. b # k
    BY <1>4 DEF Fabric!RequestTokenization, Fabric!OpenForRequest
  <2>2. CASE k = r
    <3>1. ledger'[k].kind = "request"
      BY <1>4, <2>1, <2>2 DEF Fabric!RequestTokenization
    <3>2. QED BY <2>2, <3>1
  <2>3. CASE k # r
    BY <1>4, <2>1, <2>3 DEF Fabric!RequestTokenization
  <2>4. QED BY <2>2, <2>3
<1>5. ASSUME NEW r \in RequestIds, Fabric!ApproveTokenizationRequest(r)
      PROVE  KindApart(k)'
  BY <1>5 DEF Fabric!ApproveTokenizationRequest, Fabric!Approvable
<1>6. ASSUME NEW p \in ProductIds, Fabric!CreateFinishedProduct(p, BatchIds)
      PROVE  KindApart(k)'
  BY <1>6 DEF Fabric!CreateFinishedProduct
<1>7. ASSUME NEW p \in ProductIds, Fabric!RegisterProduct(p, Farm)
      PROVE  KindApart(k)'
  BY <1>7 DEF Fabric!RegisterProduct
<1>8. ASSUME NEW p \in ProductIds, NEW u \in MemberUpdates,
             Fabric!UpdateStatus(p, u.status, u.recyclingTx)
      PROVE  KindApart(k)'
  BY <1>8 DEF Fabric!UpdateStatus, Fabric!Updatable
<1>9. ASSUME NEW p \in ProductIds, NEW t \in MintTerms, Fabric!RequestNFTMinting(p, t)
      PROVE  KindApart(k)'
  BY <1>9 DEF Fabric!RequestNFTMinting
<1>10. QED
  BY <1>1, <1>2, <1>3, <1>4, <1>5, <1>6, <1>7, <1>8, <1>9 DEF Members

\* Acknowledgments create no record.
LEMMA SubmitCreates ==
  ASSUME LedgersInv, NEW a \in Asked, NEW hash, Submit(a, hash),
         NEW k \in Keys, ~Fabric!Exists(k)
  PROVE  ledger'[k] = ledger[k]
<1> ledger \in [Keys -> Chaincode!Records \cup {Null}]
  BY DEF LedgersInv, Chaincode!CottonInv, Chaincode!TypeOK
<1>1. ASSUME NEW r \in Keys, Fabric!CompleteTokenization(r, hash)
      PROVE  ledger'[k] = ledger[k]
  <2>1. CASE UNCHANGED Fabric!vars
    BY <2>1 DEF Fabric!vars
  <2>2. CASE Fabric!Completable(r)
    <3>1. Fabric!IsRequest(r) /\ Chaincode!IsRequest(r)
      BY <2>2, SameRecords DEF Fabric!Completable
    <3>2. Chaincode!IsBatch(ledger[r].batchId)
      BY <3>1 DEF LedgersInv, Chaincode!CottonInv, Chaincode!RequestsBacked
    <3>3. Fabric!Exists(ledger[r].batchId) /\ Fabric!Exists(r)
      BY <3>1, <3>2, SameRecords DEF Fabric!IsBatch, Fabric!IsRequest, Fabric!Has
    <3>4. ledger[r].batchId # k /\ r # k
      BY <3>3
    <3>5. QED BY <1>1, <3>4 DEF Fabric!CompleteTokenization, Fabric!vars
  <2>3. QED BY <1>1, <2>1, <2>2 DEF Fabric!CompleteTokenization
<1>2. ASSUME NEW p, NEW id, Fabric!MintNFT(p, id)
      PROVE  ledger'[k] = ledger[k]
  BY <1>2 DEF Fabric!MintNFT, Fabric!AcceptsNFT, Fabric!IsProduct, Fabric!Has,
              Fabric!Exists, Fabric!Put, Fabric!vars
<1>3. ASSUME NEW p, NEW id, Fabric!RecordRecycling(p, id, hash)
      PROVE  ledger'[k] = ledger[k]
  BY <1>3 DEF Fabric!RecordRecycling, Fabric!IsProduct, Fabric!Has,
              Fabric!Exists, Fabric!Put, Fabric!vars
<1>4. a.type = "tokenization" => Event(a).requestId \in Keys
  BY AskedKinds, EventFacts DEF Event, Keys
<1>5. QED BY <1>1, <1>2, <1>3, <1>4 DEF Submit

\* The chaincode's records and events after a step of the bridge.
LedgerStays ==
  /\ \A k \in Keys : Chaincode!CottonMovesOn(k) /\ Chaincode!AcknowledgmentsStay(k)
  /\ Len(events) <= Len(events') /\ Len(events') <= MaxEvents
  /\ \A i \in DOMAIN events : i \in DOMAIN events' /\ events'[i] = events[i]
  /\ \A i \in DOMAIN events' \ DOMAIN events :
       events'[i].name = "NFTMintingRequested" =>
         /\ events'[i].productId \in Keys /\ Fabric!IsProduct(events'[i].productId)
         /\ events'[i].complete <=> ledger[events'[i].productId].kind = "manufactured"

LEMMA StepKeepsLedger ==
  ASSUME BridgeInv, [Next]_vars
  PROVE  LedgerStays
<1>1. /\ [Chaincode!Next]_(Chaincode!vars) /\ Chaincode!ChaincodeAssumption
      /\ Chaincode!CottonInv /\ Chaincode!TypeOK /\ Len(events) <= MaxEvents
      /\ Len(events) \in Nat /\ DOMAIN events = 1 .. Len(events)
  <2>1. [Chaincode!Next]_(Chaincode!vars)
    BY FabricStep, SameTransactions DEF Fabric!vars, Chaincode!vars
  <2>2. QED
    BY <2>1, SameRecords, ComponentsAssumption, LenProperties
       DEF BridgeInv, LedgersInv, Chaincode!CottonInv, Chaincode!TypeOK
<1>2. \A k \in Keys : Chaincode!CottonMovesOn(k) /\ Chaincode!AcknowledgmentsStay(k)
  BY <1>1, Chaincode!StepKeepsRecords
<1>3. UNCHANGED events \/ \E e : Chaincode!Announces(e)
  BY <1>1, Chaincode!StepEvents
<1>4. CASE UNCHANGED events
  BY <1>1, <1>2, <1>4 DEF LedgerStays
<1>5. ASSUME NEW e, Chaincode!Announces(e)
      PROVE  LedgerStays
  <2>1. e \in Chaincode!Events /\ Chaincode!Emit(e)
    BY <1>5 DEF Chaincode!Announces
  <2>2. /\ Len(events') = Len(events) + 1
        /\ Len(events') \in 0 .. MaxEvents
        /\ DOMAIN events' = DOMAIN events \cup {Len(events')}
        /\ events'[Len(events')] = e
        /\ \A i \in DOMAIN events : events'[i] = events[i]
    BY <1>1, <2>1, Chaincode!EmitEvent
  <2>3. e.name = "NFTMintingRequested" =>
          /\ e.productId \in Keys /\ Fabric!IsProduct(e.productId)
          /\ e.complete <=> ledger[e.productId].kind = "manufactured"
    BY <1>5, SameRecords DEF Chaincode!Announces
  <2>4. QED BY <1>1, <1>2, <2>2, <2>3 DEF LedgerStays
<1>6. QED BY <1>3, <1>4, <1>5

LEMMA KindsStay ==
  ASSUME LedgerStays, NEW k \in Keys, Fabric!Exists(k)
  PROVE  /\ Fabric!Exists(k)' /\ ledger'[k].kind = ledger[k].kind
         /\ Fabric!IsBatch(k)' <=> Fabric!IsBatch(k)
         /\ Fabric!IsRequest(k)' <=> Fabric!IsRequest(k)
         /\ Fabric!IsProduct(k)' <=> Fabric!IsProduct(k)
BY SameRecords DEF LedgerStays, Chaincode!CottonMovesOn, Fabric!IsBatch, Fabric!IsRequest,
                   Fabric!IsProduct, Fabric!Has, Fabric!Exists

LEMMA KeysStayApart ==
  ASSUME BridgeInv, [Next]_vars, LedgerStays
  PROVE  KeysApart'
<1> SUFFICES ASSUME NEW k \in Keys PROVE KindApart(k)'
  BY DEF KeysApart, KindApart, Keys
<1>1. CASE Fabric!Exists(k)
  BY <1>1, KindsStay DEF BridgeInv, LedgersInv, KeysApart, KindApart
<1>2. CASE ~Fabric!Exists(k) /\ ledger'[k] = ledger[k]
  BY <1>2 DEF KindApart, Fabric!IsBatch, Fabric!IsRequest, Fabric!IsProduct, Fabric!Has,
              Fabric!Exists
<1>3. CASE ~Fabric!Exists(k) /\ Members
  BY <1>3, MembersCreate DEF BridgeInv
<1>4. CASE ~Fabric!Exists(k) /\ Acknowledge
  <2>1. Action \in Asked
    BY <1>4, HeadFacts DEF Acknowledge, BridgeInv
  <2>2. ledger'[k] = ledger[k]
    BY <1>4, <2>1, SubmitCreates DEF Acknowledge, BridgeInv, fabricVars
  <2>3. QED BY <1>2, <1>4, <2>2
<1>5. ASSUME ~Fabric!Exists(k), NEW u \in unanswered, CommitUnanswered(u)
      PROVE  KindApart(k)'
  <2>1. u.action \in Asked
    BY DEF BridgeInv, UnansweredInv
  <2>2. ledger'[k] = ledger[k]
    BY <1>5, <2>1, SubmitCreates DEF CommitUnanswered, BridgeInv
  <2>3. QED BY <1>2, <1>5, <2>2
<1>6. QED BY <1>1, <1>2, <1>3, <1>4, <1>5, Frames DEF fabricVars

LEMMA NextLedgers == BridgeInv /\ [Next]_vars => LedgersInv'
<1> SUFFICES ASSUME BridgeInv, [Next]_vars PROVE LedgersInv'
  OBVIOUS
<1>1. Chaincode!CottonInv' /\ Chaincode!NFTInv'
  <2>1. [Chaincode!Next]_(Chaincode!vars) /\ Chaincode!ChaincodeAssumption
    BY FabricStep, SameTransactions, SameRecords, ComponentsAssumption
       DEF Fabric!vars, Chaincode!vars
  <2>2. QED BY <2>1, Chaincode!NextCottonInv, Chaincode!NextNFTInv DEF BridgeInv, LedgersInv
<1>2. Issuance!ReserveTypeOK' /\ Issuance!BackingInv'
  <2>1. [Issuance!ReserveNext]_(Issuance!vars) /\ Issuance!ReserveAssumption
    BY CotStep, SameCot, ComponentsAssumption
       DEF COT!vars, COT!registryVars, COT!tokenVars, Issuance!vars, Issuance!registryVars,
           Issuance!tokenVars
  <2>2. QED BY <2>1, Issuance!NextTypeOK, Issuance!NextBacking DEF BridgeInv, LedgersInv
<1>3. Tokens!TokensInv'
  <2>1. [Tokens!Next]_(Tokens!nftVars) /\ Tokens!ProductNFTAssumption
    BY NFTStep, SameNFT, ComponentsAssumption DEF NFT!nftVars, Tokens!nftVars
  <2>2. QED BY <2>1, Tokens!NextKeepsTokens DEF BridgeInv, LedgersInv
<1>4. LedgerStays
  BY StepKeepsLedger
<1>5. KeysApart'
  BY <1>4, KeysStayApart
<1>6. MintingsFit'
  <2> SUFFICES ASSUME NEW i \in Mintings', NEW p, p = events'[i].productId
               PROVE  Fabric!IsProduct(p)' /\ (events'[i].complete <=> ledger'[p].kind = "manufactured")
    BY DEF MintingsFit
  <2>1. CASE i \in DOMAIN events
    <3>1. i \in Mintings /\ events'[i] = events[i]
      BY <1>4, <2>1 DEF LedgerStays, Mintings
    <3>2. /\ p \in ProductIds /\ Fabric!IsProduct(p)
          /\ events[i].complete <=> ledger[p].kind = "manufactured"
      BY <3>1, EventFacts DEF BridgeInv, LedgersInv, MintingsFit
    <3>3. p \in Keys /\ Fabric!Exists(p)
      BY <3>2 DEF Keys, Fabric!IsProduct, Fabric!Has
    <3>4. QED BY <1>4, <3>1, <3>2, <3>3, KindsStay
  <2>2. CASE i \notin DOMAIN events
    <3>1. /\ p \in Keys /\ Fabric!IsProduct(p)
          /\ events'[i].complete <=> ledger[p].kind = "manufactured"
      BY <1>4, <2>2 DEF LedgerStays, Mintings
    <3>2. Fabric!Exists(p)
      BY <3>1 DEF Fabric!IsProduct, Fabric!Has
    <3>3. QED BY <1>4, <3>1, <3>2, KindsStay
  <2>3. QED BY <2>1, <2>2
<1>7. Len(events') <= MaxEvents
  BY <1>4 DEF LedgerStays
<1>8. QED BY <1>1, <1>2, <1>3, <1>5, <1>6, <1>7 DEF LedgersInv

-----------------------------------------------------------------------------
(* The wallet                                                              *)

LEMMA SendFacts ==
  ASSUME WalletInv
  PROVE  /\ Len(txs) \in Nat /\ DOMAIN txs = 1 .. Len(txs)
         /\ \A t \in DOMAIN txs :
              /\ txs[t] \in Sends /\ txs[t].nonce \in 0 .. MaxNonce
              /\ txs[t].action \in Asked /\ Sendable(txs[t].action)
              /\ txs[t].status \in {"pending", "mined", "reverted"}
<1>1. Len(txs) \in Nat /\ DOMAIN txs = 1 .. Len(txs)
  BY LenProperties DEF WalletInv
<1>2. \A t \in DOMAIN txs : txs[t] \in Sends
  BY <1>1, ElementOfSeq DEF WalletInv
<1>3. QED BY <1>1, <1>2 DEF Sends

\* What is included and what is pending add up to what was sent.
LEMMA PendingCount ==
  ASSUME WalletInv
  PROVE  /\ accountNonce \in Nat
         /\ IsFiniteSet(Wallet!Pending) /\ Cardinality(Wallet!Pending) \in Nat
         /\ IsFiniteSet(Included)
         /\ accountNonce + Cardinality(Wallet!Pending) = Len(txs)
<1>1. IsFiniteSet(DOMAIN txs) /\ Cardinality(DOMAIN txs) = Len(txs)
  <2> PICK n : n = Len(txs)
    OBVIOUS
  <2>1. n \in Nat /\ DOMAIN txs = 1 .. n /\ 1 \in Int /\ n \in Int
    BY SendFacts
  <2>2. IsFiniteSet(1 .. n) /\ Cardinality(1 .. n) = IF 1 > n THEN 0 ELSE n - 1 + 1
    BY <2>1, FS_Interval
  <2>3. (IF 1 > n THEN 0 ELSE n - 1 + 1) = n
    BY <2>1
  <2>4. QED BY <2>1, <2>2, <2>3
<1>2. IsFiniteSet(Included) /\ IsFiniteSet(Wallet!Pending)
  BY <1>1, FS_Subset DEF Included, Wallet!Pending
<1>3. Included \cup Wallet!Pending = DOMAIN txs /\ Included \cap Wallet!Pending = {}
  BY DEF Included, Wallet!Pending
<1>4. Cardinality(DOMAIN txs) = Cardinality(Included) + Cardinality(Wallet!Pending) - 0
  BY <1>2, <1>3, FS_Union, FS_EmptySet
<1>5. Cardinality(Included) \in Nat /\ Cardinality(Wallet!Pending) \in Nat
  BY <1>2, FS_CardinalityType
<1>6. accountNonce = Cardinality(Included)
  BY DEF WalletInv
<1>7. QED BY <1>1, <1>2, <1>4, <1>5, <1>6

LEMMA LeastNat ==
  ASSUME NEW S, S \subseteq Nat, S # {}
  PROVE  \E m \in S : \A n \in S : m <= n
<1>1. \A i, j \in Nat : ~(i < j) => j <= i
  OBVIOUS
<1> PICK R : R = OpToRel(<, Nat)
  OBVIOUS
<1>2. IsWellFoundedOn(R, Nat)
  BY NatLessThanWellFounded, Zenon
<1>3. PICK m \in S : \A n \in S : ~(<<n, m>> \in R)
  BY <1>2, WFMin
<1>4. \A n \in S : n < m => <<n, m>> \in R
  <2> SUFFICES ASSUME NEW n \in S, n < m PROVE <<n, m>> \in R
    OBVIOUS
  <2>1. n \in Nat /\ m \in Nat
    OBVIOUS
  <2>2. <<n, m>> \in OpToRel(<, Nat)
    BY <2>1, Zenon DEF OpToRel
  <2>3. QED BY <2>2, Zenon
<1>5. \A n \in S : ~(n < m)
  BY <1>3, <1>4
<1>6. \A n \in S : m <= n
  BY <1>5, <1>1
<1>7. QED BY <1>6

\* The node has a first free nonce, at most as far ahead of the account as
\* there are pending transactions.
LEMMA PendingNonceType ==
  ASSUME WalletInv
  PROVE  Wallet!PendingNonce \in 0 .. MaxSends
<1> PICK k : k = Cardinality(Wallet!Pending)
  OBVIOUS
<1> PICK a : a = accountNonce
  OBVIOUS
<1>1. /\ a \in Nat /\ k \in Nat /\ IsFiniteSet(Wallet!Pending)
      /\ a + k <= MaxSends /\ MaxSends \in Nat
  BY PendingCount, BridgeAssumption DEF WalletInv
<1>2. \A S : S \subseteq Wallet!TakenNonces => Cardinality(S) <= k
  <2>1. IsFiniteSet(Wallet!TakenNonces) /\ Cardinality(Wallet!TakenNonces) <= k
    <3> DEFINE f == [t \in Wallet!Pending |-> txs[t].nonce]
    <3>1. f \in Surjection(Wallet!Pending, Wallet!TakenNonces)
      BY DEF Surjection, Wallet!TakenNonces
    <3>2. QED BY <1>1, <3>1, FS_Surjection
  <2>2. SUFFICES ASSUME NEW S, S \subseteq Wallet!TakenNonces PROVE Cardinality(S) <= k
    OBVIOUS
  <2>3. /\ Cardinality(S) <= Cardinality(Wallet!TakenNonces)
        /\ Cardinality(S) \in Nat /\ Cardinality(Wallet!TakenNonces) \in Nat
    BY <2>1, <2>2, FS_Subset, FS_CardinalityType
  <2>4. QED BY <1>1, <2>1, <2>3
<1>3. ~(a .. a + k \subseteq Wallet!TakenNonces)
  <2>1. Cardinality(a .. a + k) = k + 1
    <3> PICK m : m = a + k
      OBVIOUS
    <3>1. m \in Int /\ a \in Int /\ a <= m /\ m - a = k
      BY <1>1
    <3>2. Cardinality(a .. m) = IF a > m THEN 0 ELSE m - a + 1
      BY <3>1, FS_Interval
    <3>3. QED BY <3>1, <3>2
  <2>2. QED BY <1>1, <1>2, <2>1
<1>4. PICK n \in a .. a + k : n \notin Wallet!TakenNonces /\ a .. n - 1 \subseteq Wallet!TakenNonces
  <2> DEFINE Free == {i \in a .. a + k : i \notin Wallet!TakenNonces}
  <2>1. Free # {} /\ Free \subseteq Nat
    BY <1>1, <1>3
  <2>2. PICK n \in Free : \A i \in Free : n <= i
    <3> HIDE DEF Free
    <3>1. QED BY <2>1, LeastNat
  <2>3. n \in a .. a + k /\ n \notin Wallet!TakenNonces
    BY <2>2
  <2>4. a .. n - 1 \subseteq Wallet!TakenNonces
    <3> SUFFICES ASSUME NEW i \in a .. n - 1, i \notin Wallet!TakenNonces PROVE FALSE
      OBVIOUS
    <3>1. i \in a .. a + k /\ ~(n <= i)
      BY <1>1, <2>3
    <3>2. QED BY <2>2, <3>1
  <2>5. QED BY <2>3, <2>4
<1>5. n \in a .. a + MaxSends
  BY <1>1
<1>6. PICK p : p = Wallet!PendingNonce
  OBVIOUS
<1>7. p \in a .. a + MaxSends /\ a .. p - 1 \subseteq Wallet!TakenNonces
  BY <1>4, <1>5, <1>6 DEF Wallet!PendingNonce
<1>8. p <= a + k
  <2> SUFFICES ASSUME a + k <= p - 1 PROVE FALSE
    BY <1>1, <1>7
  <2>1. a .. a + k \subseteq a .. p - 1
    BY <1>1, <1>7
  <2>2. QED BY <1>3, <1>7, <2>1
<1>9. QED BY <1>1, <1>6, <1>7, <1>8

LEMMA NonceType ==
  ASSUME WalletInv
  PROVE  Wallet!Nonce \in 0 .. MaxNonce /\ Wallet!NextAfter(Wallet!Nonce) \in 0 .. MaxNonce
<1>1. Wallet!Nonce \in 0 .. MaxNonce
  BY PendingNonceType, BridgeAssumption DEF WalletInv, Wallet!Nonce
<1>2. QED BY <1>1, BridgeAssumption DEF Wallet!NextAfter

-----------------------------------------------------------------------------
(* What has happened stays                                                 *)

\* Sent transactions keep their action, and their status once included.
SendsStay ==
  /\ Len(txs) <= Len(txs')
  /\ \A t \in DOMAIN txs :
       /\ t \in DOMAIN txs' /\ txs'[t].action = txs[t].action
       /\ txs[t].status # "pending" => txs'[t].status = txs[t].status

LEMMA StepKeepsSends ==
  ASSUME BridgeInv, [Next]_vars
  PROVE  SendsStay
<1> Len(txs) \in Nat /\ DOMAIN txs = 1 .. Len(txs) /\ txs \in Seq(Sends)
  BY SendFacts DEF BridgeInv, WalletInv
<1>1. CASE UNCHANGED txs
  BY <1>1 DEF SendsStay
<1>2. ASSUME NEW t \in DOMAIN txs, Include(t)
      PROVE  SendsStay
  <2>1. PICK s : Wallet!Include(t, s)
    BY <1>2 DEF Include
  <2>2. txs[t].status = "pending" /\ txs' = [txs EXCEPT ![t].status = s]
    BY <2>1 DEF Wallet!Include, Wallet!Pending
  <2>3. DOMAIN txs' = DOMAIN txs /\ Len(txs') = Len(txs)
    <3>1. DOMAIN txs' = 1 .. Len(txs)
      BY <2>2
    <3>2. QED BY <2>2, <3>1
  <2>4. /\ \A u \in DOMAIN txs \ {t} : txs'[u] = txs[u]
        /\ txs'[t] = [txs[t] EXCEPT !.status = s]
    BY <2>2
  <2>5. txs[t] \in Sends
    BY SendFacts DEF BridgeInv
  <2>6. txs'[t].action = txs[t].action
    BY <2>4, <2>5 DEF Sends
  <2>7. QED BY <2>2, <2>3, <2>4, <2>6 DEF SendsStay
<1>3. ASSUME NEW a, Wallet!Broadcast(a)
      PROVE  SendsStay
  BY <1>3, AppendProperties DEF Wallet!Broadcast, SendsStay
<1>4. CASE SendMint
  BY <1>1, <1>3, <1>4 DEF SendMint, Wallet!EstimateFails, Wallet!Refused, Wallet!Expired
<1>5. CASE Crash
  BY <1>1, <1>5 DEF Crash
<1>6. QED BY <1>1, <1>2, <1>4, <1>5, Frames DEF walletVars

LEMMA StepKeepsNFTs ==
  ASSUME BridgeInv, [Next]_vars
  PROVE  Tokens!TokensStay
<1>1. [Tokens!Next]_(Tokens!nftVars) /\ Tokens!ProductNFTAssumption /\ Tokens!TokensInv
  BY NFTStep, SameNFT, ComponentsAssumption
     DEF NFT!nftVars, Tokens!nftVars, BridgeInv, LedgersInv
<1>2. QED BY <1>1, Tokens!StepKeepsTokens

\* What was asked for stays asked for, may be sent if it might, and what was
\* ready to be acknowledged stays ready.
AskedStays ==
  /\ Asked \subseteq Asked'
  /\ \A a \in Asked : /\ a.type # "recycling" => events'[a.ref] = events[a.ref]
                      /\ Sendable(a) => Sendable(a)'
                      /\ \A hash \in Hashes : AckReady(a, hash) => AckReady(a, hash)'

LEMMA StepKeepsAsked ==
  ASSUME BridgeInv, [Next]_vars
  PROVE  AskedStays
<1>1. LedgerStays /\ Tokens!TokensStay /\ SendsStay /\ LedgersInv
  BY StepKeepsLedger, StepKeepsNFTs, StepKeepsSends DEF BridgeInv
<1>2. Approvals \subseteq Approvals' /\ Mintings \subseteq Mintings'
  BY <1>1 DEF LedgerStays, Approvals, Mintings
<1>3. tokenIdCounter \in Nat /\ tokenIdCounter' \in Nat /\ tokenIdCounter <= tokenIdCounter'
  <2>1. LedgersInv'
    BY NextLedgers
  <2>2. tokenIdCounter' \in 0 .. MaxTokens
    BY <2>1, SameNFT, ComponentsAssumption
       DEF LedgersInv, Tokens!TokensInv, Tokens!TypeOK
  <2>3. QED BY <1>1, <2>2, TokenFacts, BridgeAssumption DEF Tokens!TokensStay
<1>4. Asked \subseteq Asked'
  <2>1. 1 .. tokenIdCounter \subseteq 1 .. tokenIdCounter'
    BY <1>3
  <2>2. QED BY <1>2, <2>1 DEF Asked, Tokenization, NFTMinting, Recycling
<1>5. ASSUME NEW a \in Asked
      PROVE  /\ a.type # "recycling" => events'[a.ref] = events[a.ref]
             /\ Sendable(a) => Sendable(a)'
             /\ \A hash \in Hashes : AckReady(a, hash) => AckReady(a, hash)'
  <2>1. a.type # "recycling" => a.ref \in DOMAIN events /\ events'[a.ref] = events[a.ref]
    BY <1>1, AskedKinds DEF Approvals, Mintings, LedgerStays
  <2>2. Sendable(a) => Sendable(a)'
    BY <2>1 DEF Sendable, Event
  <2>3. ASSUME NEW hash \in Hashes, AckReady(a, hash)
        PROVE  AckReady(a, hash)'
    <3>1. CASE a.type = "tokenization"
      BY <1>1, <2>3, <3>1 DEF AckReady, SendsStay
    <3>2. CASE a.type = "nftMinting"
      <4> PICK p : p = Event(a).productId
        OBVIOUS
      <4>1. p \in ProductIds /\ Event(a)' = Event(a)
        BY <1>1, <2>1, <3>2, AskedKinds, EventFacts DEF Event
      <4>2. fabricToTokenId[p] # 0
        BY <2>3, <3>2 DEF AckReady
      <4>3. fabricToTokenId'[p] # 0
        BY <1>1, <4>1, <4>2 DEF Tokens!TokensStay
      <4>4. QED BY <3>2, <4>1, <4>3 DEF AckReady
    <3>3. CASE a.type = "recycling"
      BY <1>1, <2>3, <3>3 DEF AckReady, RecyclingTx, Tokens!TokensStay
    <3>4. QED BY <3>1, <3>2, <3>3, AskedKinds
  <2>4. QED BY <2>1, <2>2, <2>3
<1>6. QED BY <1>4, <1>5 DEF AskedStays

\* A queue of actions stays one.
LEMMA QueueStays ==
  ASSUME AskedStays, NEW q \in Seq(Asked)
  PROVE  q \in Seq(Asked)'
<1>1. Asked \subseteq Asked'
  BY DEF AskedStays
<1>2. QED BY <1>1, SeqMonotonic

-----------------------------------------------------------------------------
(* The wallet and the process                                              *)

LEMMA NextWallet ==
  ASSUME BridgeInv, [Next]_vars, AskedStays
  PROVE  WalletInv'
<1> /\ Len(txs) \in Nat /\ DOMAIN txs = 1 .. Len(txs)
    /\ txs \in Seq(Sends) /\ txs \in Seq(Sends') /\ Sends \subseteq Sends'
    /\ accountNonce = Cardinality(Included) /\ IsFiniteSet(Included)
    /\ nextNonce \in (0 .. MaxNonce) \cup {Null} /\ Len(txs) <= MaxSends
    /\ MaxSends \in Nat
  <2>1. WalletInv
    BY DEF BridgeInv
  <2>2. Sends \subseteq Sends'
    <3> SUFFICES ASSUME NEW s \in Sends PROVE s \in Sends'
      OBVIOUS
    <3>1. s.action \in Asked /\ Sendable(s.action)
      BY DEF Sends
    <3>2. s.action \in Asked' /\ Sendable(s.action)'
      BY <3>1 DEF AskedStays
    <3>3. QED BY <3>2 DEF Sends
  <2>3. txs \in Seq(Sends')
    BY <2>1, <2>2, SeqMonotonic DEF WalletInv
  <2>4. QED BY <2>1, <2>2, <2>3, SendFacts, PendingCount, BridgeAssumption DEF WalletInv
<1>1. CASE UNCHANGED walletVars
  BY <1>1 DEF walletVars, WalletInv, Included
<1>2. CASE Crash
  BY <1>2 DEF Crash, WalletInv, Included
<1>3. CASE UNCHANGED <<txs, accountNonce>> /\ nextNonce' \in (0 .. MaxNonce) \cup {Null}
  BY <1>3 DEF WalletInv, Included
<1>4. CASE Wallet!EstimateFails \/ Wallet!Refused \/ Wallet!Expired
  BY <1>3, <1>4, NonceType DEF Wallet!EstimateFails, Wallet!Refused, Wallet!Expired, BridgeInv
<1>5. ASSUME NEW a \in Asked, Sendable(a), Wallet!Broadcast(a)
      PROVE  WalletInv'
  <2> DEFINE send == [nonce |-> Wallet!Nonce, action |-> a, status |-> "pending"]
  <2>1. /\ Len(txs) < MaxSends /\ txs' = Append(txs, send) /\ accountNonce' = accountNonce
        /\ nextNonce' \in 0 .. MaxNonce
    BY <1>5, NonceType DEF Wallet!Broadcast, BridgeInv
  <2>2. send \in Sends /\ send.status = "pending"
    BY <1>5, NonceType DEF Sends, BridgeInv
  <2> HIDE DEF send
  <2>3. txs' \in Seq(Sends') /\ Len(txs') = Len(txs) + 1
    BY <2>1, <2>2, AppendProperties
  <2>4. Included' = Included
    <3>1. /\ DOMAIN txs' = DOMAIN txs \cup {Len(txs) + 1} /\ Len(txs) + 1 \notin DOMAIN txs
          /\ txs'[Len(txs) + 1] = send
          /\ \A t \in DOMAIN txs : txs'[t] = txs[t]
      BY <2>1, <2>2, <2>3, AppendProperties
    <3>2. QED BY <2>2, <3>1 DEF Included
  <2>5. Len(txs') <= MaxSends
    BY <2>1, <2>3
  <2>6. QED BY <2>1, <2>3, <2>4, <2>5 DEF WalletInv
<1>6. CASE SendMint
  <2>1. step = "send" /\ Action \in Asked /\ Sendable(Action)
    BY <1>6, HeadFacts DEF SendMint, BridgeInv, HeadInv
  <2>2. QED BY <1>4, <1>5, <1>6, <2>1 DEF SendMint
<1>7. ASSUME NEW t \in DOMAIN txs, NEW status \in {"mined", "reverted"}, Wallet!Include(t, status)
      PROVE  WalletInv'
  <2> DEFINE send == [txs[t] EXCEPT !.status = status]
  <2>1. /\ txs[t].status = "pending" /\ txs' = [txs EXCEPT ![t] = send]
        /\ accountNonce' = accountNonce + 1 /\ nextNonce' = nextNonce
    BY <1>7 DEF Wallet!Include, Wallet!Pending
  <2>2. send \in Sends /\ send.status = status
    <3>1. txs[t] \in Sends
      BY SendFacts DEF BridgeInv
    <3>2. QED BY <3>1 DEF Sends
  <2> HIDE DEF send
  <2>3. DOMAIN txs' = DOMAIN txs /\ txs'[t] = send /\ \A u \in DOMAIN txs \ {t} : txs'[u] = txs[u]
    BY <2>1
  <2>4. txs' \in Seq(Sends') /\ Len(txs') = Len(txs)
    BY <2>1, <2>2, ExceptSeq
  <2>5. Included' = Included \cup {t} /\ t \notin Included
    BY <2>1, <2>2, <2>3 DEF Included
  <2>6. Cardinality(Included') = accountNonce + 1
    BY <2>5, FS_AddElement
  <2>7. QED BY <2>1, <2>4, <2>6 DEF WalletInv
<1>8. QED BY <1>1, <1>2, <1>6, <1>7, Frames DEF Include
\* A transaction becomes a success only in its own inclusion, which mints.
LEMMA NewlyMined ==
  ASSUME BridgeInv, [Next]_vars, NEW t \in DOMAIN txs', txs'[t].status = "mined"
  PROVE  /\ t \in DOMAIN txs /\ txs'[t].action = txs[t].action
         /\ \/ txs[t].status = "mined"
            \/ Include(t) /\ txs[t].status = "pending" /\ Mint(txs[t].action)
<1> /\ Len(txs) \in Nat /\ DOMAIN txs = 1 .. Len(txs) /\ txs \in Seq(Sends)
    /\ \A u \in DOMAIN txs : txs[u] \in Sends
  BY SendFacts DEF BridgeInv, WalletInv
<1>1. CASE UNCHANGED txs
  BY <1>1
<1>2. CASE \E u \in DOMAIN txs : Include(u)
  <2>0. PICK u \in DOMAIN txs : Include(u)
    BY <1>2
  <2>1. PICK s : /\ Wallet!Include(u, s)
                 /\ s \in {"mined", "reverted"} /\ (s = "mined" => Mint(txs[u].action))
    BY <2>0 DEF Include
  <2>2. txs[u].status = "pending" /\ txs' = [txs EXCEPT ![u].status = s]
    BY <2>1 DEF Wallet!Include, Wallet!Pending
  <2>3. t \in DOMAIN txs /\ (t # u => txs'[t] = txs[t])
        /\ txs'[u].status = s /\ txs'[u].action = txs[u].action
    BY <2>2 DEF Sends
  <2>4. QED BY <2>0, <2>1, <2>2, <2>3
<1>3. CASE \E a \in Asked : Sendable(a) /\ Wallet!Broadcast(a)
  <2>0. PICK a \in Asked : Sendable(a) /\ Wallet!Broadcast(a)
    BY <1>3
  <2> DEFINE send == [nonce |-> Wallet!Nonce, action |-> a, status |-> "pending"]
  <2>1. txs' = Append(txs, send)
    BY <2>0 DEF Wallet!Broadcast
  <2>2. send \in Sends /\ send.status = "pending"
    BY <2>0, NonceType DEF Sends, BridgeInv
  <2> HIDE DEF send
  <2>3. /\ DOMAIN txs' = DOMAIN txs \cup {Len(txs) + 1} /\ txs'[Len(txs) + 1] = send
        /\ \A u \in DOMAIN txs : txs'[u] = txs[u]
    BY <2>1, <2>2, AppendProperties, LenProperties
  <2>4. QED BY <2>2, <2>3
<1>4. CASE SendMint
  <2>1. step = "send" /\ Action \in Asked /\ Sendable(Action)
    BY <1>4, HeadFacts DEF SendMint, BridgeInv, HeadInv
  <2>2. QED
    BY <1>1, <1>3, <1>4, <2>1 DEF SendMint, Wallet!EstimateFails, Wallet!Refused,
                                 Wallet!Expired
<1>5. CASE Crash
  BY <1>1, <1>5 DEF Crash
<1>6. QED BY <1>1, <1>2, <1>4, <1>5, Frames DEF walletVars

\* What a mint leaves behind.
LEMMA MintDoes ==
  ASSUME BridgeInv, NEW a \in Asked, Mint(a), UNCHANGED fabricVars
  PROVE  Done(a)'
<1>1. events' = events
  BY DEF fabricVars
<1>2. CASE a.type = "tokenization"
  BY <1>1, <1>2 DEF Mint, COT!MintVerifiedBatch, Done, EventId, Event
<1>3. CASE a.type = "nftMinting"
  <2> PICK p : p = Event(a).productId
    OBVIOUS
  <2>1. p \in ProductIds /\ fabricToTokenId \in [ProductIds -> 0 .. MaxTokens]
        /\ tokenIdCounter \in Nat
    BY SMTT(30), <1>3, AskedKinds, EventFacts, TokenFacts, BridgeAssumption
       DEF Event, BridgeInv, LedgersInv, Tokens!TokensInv, Tokens!TypeOK
  <2>2. fabricToTokenId' = [fabricToTokenId EXCEPT ![p] = tokenIdCounter + 1]
    BY <1>3 DEF Mint, NFT!MintProduct, NFT!NewTokenId
  <2>3. fabricToTokenId'[p] # 0
    BY <2>1, <2>2
  <2>4. QED BY <1>1, <1>3, <2>3 DEF Done, Event
<1>4. QED BY <1>2, <1>3 DEF Mint

\* It stays there.
LEMMA DoneStays ==
  ASSUME BridgeInv, [Next]_vars, AskedStays, NEW a \in Asked, Done(a)
  PROVE  Done(a)'
<1>1. CASE a.type = "tokenization"
  <2>1. events'[a.ref] = events[a.ref]
    BY <1>1 DEF AskedStays
  <2>2. processedEvents \subseteq processedEvents'
    <3>1. [Issuance!ReserveNext]_(Issuance!vars)
      BY CotStep, SameCot
         DEF COT!vars, COT!registryVars, COT!tokenVars, Issuance!vars,
             Issuance!registryVars, Issuance!tokenVars
    <3>2. Issuance!ReserveAssumption
      BY SameCot, ComponentsAssumption
    <3>3. QED BY <3>1, <3>2, Issuance!StepKeepsEvents
  <2>3. EventId(a.ref)' = EventId(a.ref)
    BY <2>1 DEF EventId, COT!EventIdFor
  <2>4. QED BY <1>1, <2>2, <2>3 DEF Done
<1>2. CASE a.type = "nftMinting"
  <2> PICK p : p = Event(a).productId
    OBVIOUS
  <2>1. p \in ProductIds /\ Event(a)' = Event(a)
    BY <1>2, AskedKinds, EventFacts DEF Event, AskedStays, BridgeInv
  <2>2. fabricToTokenId'[p] # 0
    BY <1>2, <2>1, StepKeepsNFTs DEF Done, Tokens!TokensStay
  <2>3. QED BY <1>2, <2>1, <2>2 DEF Done
<1>3. QED BY <1>1, <1>2 DEF Done

LEMMA NextMintsDone ==
  ASSUME BridgeInv, [Next]_vars, AskedStays
  PROVE  MintsDone'
<1> SUFFICES ASSUME NEW t \in DOMAIN txs', txs'[t].status = "mined",
                    NEW a, a = txs'[t].action
             PROVE  Done(a)'
  BY DEF MintsDone, Done, EventId, Event, COT!EventIdFor
<1>1. t \in DOMAIN txs /\ a = txs[t].action /\ a \in Asked
  BY NewlyMined, SendFacts DEF BridgeInv
<1>2. CASE txs[t].status = "mined"
  BY <1>1, <1>2, DoneStays DEF BridgeInv, MintsDone
<1>3. CASE Include(t) /\ Mint(txs[t].action)
  BY <1>1, <1>3, MintDoes DEF Include
<1>4. QED BY <1>2, <1>3, NewlyMined

LEMMA NextInputs ==
  ASSUME BridgeInv, [Next]_vars
  PROVE  InputsInv'
<1> /\ Len(recycledLog) \in Nat /\ Len(events) \in Nat
    /\ heard \in 0 .. Len(recycledLog) /\ cursor \in 0 .. Len(events)
    /\ process \in {"down", "starting", "running"}
    /\ crashes \in 0 .. MaxCrashes /\ failures \in 0 .. MaxFailures
    /\ MaxCrashes \in Nat /\ MaxFailures \in Nat
  <2>1. Len(events) \in Nat
    BY LenProperties DEF BridgeInv, LedgersInv, Chaincode!CottonInv, Chaincode!TypeOK
  <2>2. QED BY <2>1, TokenFacts, BridgeAssumption DEF BridgeInv, InputsInv
<1>1. heard' \in 0 .. Len(recycledLog) /\ cursor' \in 0 .. Len(events)
      /\ process' \in {"down", "starting", "running"}
  BY Frames DEF inputVars, Receive, Subscribe, Reconcile, FromGenesis, HearRecycled,
                ReadEvent, Crash
<1>2. crashes' \in 0 .. MaxCrashes /\ failures' \in 0 .. MaxFailures
  BY Frames DEF faultVars, AcknowledgeUnanswered, Crash, CommitUnanswered
<1>3. /\ Len(recycledLog) <= Len(recycledLog') /\ Len(events) <= Len(events')
      /\ Len(recycledLog') \in Nat /\ Len(events') \in Nat
  <2>1. Len(recycledLog) <= Len(recycledLog') /\ Len(events) <= Len(events')
    BY StepKeepsLedger, StepKeepsNFTs DEF LedgerStays, Tokens!TokensStay
  <2>2. events' \in Seq(Chaincode!Events)
    BY NextLedgers DEF LedgersInv, Chaincode!CottonInv, Chaincode!TypeOK, Chaincode!Events
  <2>3. recycledLog' \in Seq([tokenId : Tokens!TokenIds, recycler : Users \cup {}])
    BY NextLedgers DEF LedgersInv, Tokens!TokensInv, Tokens!TypeOK, Tokens!TokenIds
  <2>4. QED BY <2>1, <2>2, <2>3, LenProperties
<1>4. QED BY <1>1, <1>2, <1>3 DEF InputsInv
-----------------------------------------------------------------------------
(* The queue, the batch and its head                                       *)

\* The queue and the batch of actions that are asked for, before a step's new
\* events and tokens are counted in.
Work(queue, part, stage, hash) ==
  /\ queue \in Seq(Asked)
  /\ part \in Seq(Asked) /\ Len(part) <= BatchSize
  /\ stage \in {"idle", "check", "send", "wait", "ack"}
  /\ (stage = "idle") <=> (part = <<>>)
  /\ hash \in Hashes

\* What is received is something the bridge can be asked to do.
LEMMA ReceivedAsked ==
  ASSUME BridgeInv, Receive
  PROVE  pendingActions' \in Seq(Asked) /\ UNCHANGED workVars
<1> pendingActions \in Seq(Asked) /\ LedgersInv
  BY DEF BridgeInv, WorkInv
<1> \A id \in 1 .. tokenIdCounter : Recycling(id) \in Asked
  BY DEF Asked
<1>1. CASE Subscribe
  BY <1>1 DEF Subscribe
<1>2. CASE Reconcile
  <2> DEFINE past == [i \in DOMAIN recycledLog |-> Recycling(recycledLog[i].tokenId)]
  <2>1. pendingActions' = pendingActions \o past /\ UNCHANGED workVars
    BY <1>2 DEF Reconcile
  <2>2. \A i \in 1 .. Len(recycledLog) : Recycling(recycledLog[i].tokenId) \in Asked
    BY TokenFacts
  <2>3. past \in [1 .. Len(recycledLog) -> Asked]
    BY <2>2, TokenFacts
  <2>4. past \in Seq(Asked)
    BY <2>3, TokenFacts, SeqDef
  <2> HIDE DEF past
  <2>5. QED BY <2>1, <2>4, ConcatProperties
<1>3. CASE HearRecycled
  <2>1. /\ heard' \in DOMAIN recycledLog /\ UNCHANGED workVars
        /\ pendingActions' = Append(pendingActions, Recycling(recycledLog[heard'].tokenId))
    BY <1>3, TokenFacts DEF HearRecycled, BridgeInv, InputsInv
  <2>2. Recycling(recycledLog[heard'].tokenId) \in Asked
    BY <2>1, TokenFacts
  <2>3. QED BY <2>1, <2>2, AppendProperties
<1>4. CASE ReadEvent
  <2>1. /\ cursor' \in DOMAIN events /\ UNCHANGED workVars
        /\ pendingActions' = pendingActions \o Requested(cursor')
    <3>1. Len(events) \in Nat /\ DOMAIN events = 1 .. Len(events)
      BY LenProperties DEF LedgersInv, Chaincode!CottonInv, Chaincode!TypeOK
    <3>2. QED BY <1>4, <3>1 DEF ReadEvent, BridgeInv, InputsInv
  <2>2. \A i \in DOMAIN events : Requested(i) \in Seq(Asked)
    <3>1. <<>> \in Seq(Asked) /\ \A a \in Asked : <<a>> \in Seq(Asked)
      BY EmptySeq
    <3>2. /\ \A i \in Approvals : Tokenization(i) \in Asked
          /\ \A i \in Mintings : NFTMinting(i) \in Asked
      BY DEF Asked
    <3>3. QED BY <3>1, <3>2 DEF Requested, Approvals, Mintings
  <2>3. Requested(cursor') \in Seq(Asked)
    BY <2>1, <2>2
  <2>4. QED BY <2>1, <2>3, ConcatProperties
<1>5. QED BY <1>1, <1>2, <1>3, <1>4 DEF Receive

\* The rest of the batch, and of what becomes of its head.
LEMMA AdvanceWork ==
  ASSUME WorkInv, step # "idle", Advance,
         pendingActions' \in {pendingActions, Append(pendingActions, Action)}
  PROVE  Work(pendingActions', batch', step', receipt')
<1>1. /\ batch \in Seq(Asked) /\ batch # <<>> /\ Len(batch) <= BatchSize
      /\ Action \in Asked /\ Len(batch) \in Nat
  BY HeadFacts, LenProperties DEF WorkInv
<1>2. Tail(batch) \in Seq(Asked) /\ Len(Tail(batch)) = Len(batch) - 1
  BY <1>1, HeadTailProperties
<1>3. Len(Tail(batch)) = 0 <=> Tail(batch) = <<>>
  BY <1>2, EmptySeq
<1>4. pendingActions' \in Seq(Asked)
  BY <1>1, AppendProperties DEF WorkInv
<1>5. 0 \in Hashes
  BY BridgeAssumption DEF Hashes
<1>6. Len(Tail(batch)) <= BatchSize
  BY <1>1, <1>2, BridgeAssumption
<1>7. Len(batch) = 1 <=> Tail(batch) = <<>>
  BY <1>1, <1>2, <1>3
<1>8. QED BY <1>2, <1>4, <1>5, <1>6, <1>7 DEF Work, Advance

LEMMA SpliceWork ==
  ASSUME WorkInv, ProcessBatch
  PROVE  Work(pendingActions', batch', step', receipt')
<1> PICK n : n = Len(pendingActions)
  OBVIOUS
<1> PICK k : k = Spliced
  OBVIOUS
<1>1. /\ pendingActions \in Seq(Asked) /\ pendingActions # <<>> /\ n \in Nat /\ n >= 1
      /\ \A i \in 1 .. n : pendingActions[i] \in Asked
  BY EmptySeq, ElementOfSeq DEF WorkInv, ProcessBatch
<1>2. k \in 1 .. n /\ k <= BatchSize
  BY <1>1, BridgeAssumption DEF Spliced
<1>3. /\ batch' = SubSeq(pendingActions, 1, k)
      /\ pendingActions' = SubSeq(pendingActions, k + 1, n)
      /\ step' = "check" /\ receipt' = receipt
  BY DEF ProcessBatch
<1>4. batch' \in Seq(Asked) /\ Len(batch') = k
  <2>1. \A i \in 1 .. k : pendingActions[i] \in Asked
    BY <1>1, <1>2
  <2>2. 1 \in Int /\ k \in Int /\ 1 <= k /\ k - 1 + 1 = k
    BY <1>2
  <2>3. QED BY <1>3, <2>1, <2>2, SubSeqProperties
<1>5. pendingActions' \in Seq(Asked)
  <2>1. \A i \in k + 1 .. n : pendingActions[i] \in Asked
    BY <1>1, <1>2
  <2>2. k + 1 \in Int /\ n \in Int
    BY <1>1, <1>2
  <2>3. QED BY <1>3, <2>1, <2>2, SubSeqProperties
<1>6. batch' # <<>>
  BY <1>2, <1>4, EmptySeq
<1>7. QED BY <1>2, <1>3, <1>4, <1>5, <1>6 DEF Work, WorkInv

\* The head of the batch goes on, with what its next stage needs.
GoesOn(stage, hash) ==
  /\ step' = stage /\ receipt' = hash /\ hash \in Hashes
  /\ UNCHANGED <<batch, pendingActions>>

LEMMA GoesOnWork ==
  ASSUME WorkInv, step # "idle", NEW stage \in {"send", "wait", "ack"}, NEW hash,
         GoesOn(stage, hash)
  PROVE  Work(pendingActions', batch', step', receipt')
BY DEF WorkInv, Work, GoesOn

\* The stages of the process.
ProcessMoves ==
  \/ ProcessBatch
  \/ step # "idle" /\ Advance
       /\ pendingActions' \in {pendingActions, Append(pendingActions, Action)}
  \/ step = "check" /\ GoesOn("send", receipt) /\ Sendable(Action) /\ UNCHANGED chainVars
  \/ step = "send" /\ Wallet!Broadcast(Action) /\ GoesOn("wait", Len(txs'))
       /\ UNCHANGED chainVars
  \/ step # "idle" /\ GoesOn("ack", receipt') /\ AckReady(Action, receipt')
       /\ UNCHANGED chainVars /\ UNCHANGED walletVars

LEMMA ProcessStages ==
  ASSUME BridgeInv, Process
  PROVE  ProcessMoves
<1> USE DEF ProcessMoves
<1> receipt \in Hashes /\ WorkInv /\ LedgersInv /\ WalletInv /\ HeadInv /\ MaxSends \in Nat
    /\ MaxTokens \in Nat
  BY BridgeAssumption DEF BridgeInv, WorkInv
<1>1. CASE ProcessBatch
  BY <1>1
<1>2. CASE CheckTokenization
  <2>1. step = "check" /\ Action.type = "tokenization" /\ UNCHANGED <<chainVars, walletVars>>
    BY <1>2 DEF CheckTokenization
  <2>2. CASE SendNext
    BY <2>1, <2>2 DEF SendNext, GoesOn, Sendable
  <2>3. ASSUME NEW t \in DOMAIN txs, txs[t].status = "mined", txs[t].action = Action,
               AckNext(t)
        PROVE  ProcessMoves
    <3>1. t \in Hashes
      BY SendFacts DEF WalletInv, Hashes
    <3>2. AckReady(Action, t)
      BY <2>1, <2>3 DEF AckReady
    <3>3. QED BY <2>1, <2>3, <3>1, <3>2 DEF AckNext, GoesOn
  <2>4. QED BY <1>2, <2>2, <2>3 DEF CheckTokenization
<1>3. CASE CheckNFTMinting
  <2>1. step = "check" /\ Action.type = "nftMinting" /\ UNCHANGED <<chainVars, walletVars>>
    BY <1>3 DEF CheckNFTMinting
  <2>2. CASE SendNext /\ Event(Action).complete
    BY <2>1, <2>2 DEF SendNext, GoesOn, Sendable
  <2>3. CASE Fail
    BY <2>1, <2>3 DEF Fail
  <2>4. CASE fabricToTokenId[Event(Action).productId] # 0 /\ AckNext(0)
    <3>1. AckReady(Action, 0)
      BY <2>1, <2>4 DEF AckReady
    <3>2. QED BY <2>1, <2>4, <3>1 DEF AckNext, GoesOn, Hashes
  <2>5. QED BY <1>3, <2>2, <2>3, <2>4 DEF CheckNFTMinting
<1>4. CASE CheckRecycling
  <2>1. step = "check" /\ Action.type = "recycling" /\ UNCHANGED <<chainVars, walletVars>>
    BY <1>4 DEF CheckRecycling
  <2>2. PICK i \in DOMAIN recycledLog :
          recycledLog[i].tokenId = Action.ref /\ AckNext(RecyclingTx(i))
    BY <1>4 DEF CheckRecycling
  <2>3. AckReady(Action, RecyclingTx(i))
    BY <2>1, <2>2 DEF AckReady
  <2>4. RecyclingTx(i) \in Hashes
    BY TokenFacts DEF RecyclingTx, Hashes
  <2>5. QED BY <2>1, <2>2, <2>3, <2>4 DEF AckNext, GoesOn
<1>5. CASE SendMint
  <2>1. step = "send" /\ UNCHANGED chainVars
    BY <1>5 DEF SendMint
  <2>2. CASE Fail
    BY <2>1, <2>2 DEF Fail
  <2>3. CASE Wallet!Broadcast(Action) /\ Sent
    <3>1. Len(txs') = Len(txs) + 1 /\ Len(txs) < MaxSends /\ Len(txs) \in Nat
      <4>1. /\ txs' = Append(txs, [nonce |-> Wallet!Nonce, action |-> Action,
                                   status |-> "pending"])
            /\ Len(txs) < MaxSends
        BY <2>3 DEF Wallet!Broadcast
      <4>2. QED BY <4>1, SendFacts, AppendProperties DEF WalletInv
    <3>2. Len(txs') \in Hashes
      BY <3>1 DEF Hashes
    <3>3. QED BY <2>1, <2>3, <3>2 DEF Sent, GoesOn
  <2>4. QED BY <1>5, <2>2, <2>3 DEF SendMint
<1>6. CASE AwaitReceipt
  <2>1. /\ step = "wait" /\ UNCHANGED <<chainVars, walletVars>>
        /\ receipt \in DOMAIN txs /\ txs[receipt].action = Action /\ Sendable(Action)
    BY <1>6 DEF AwaitReceipt, HeadInv
  <2>2. CASE Fail
    BY <2>1, <2>2 DEF Fail
  <2>3. CASE txs[receipt].status = "mined" /\ AckNext(receipt)
    <3>1. Done(Action)
      BY <2>1, <2>3 DEF BridgeInv, MintsDone
    <3>2. AckReady(Action, receipt)
      BY <2>1, <2>3, <3>1 DEF AckReady, Done
    <3>3. QED BY <2>1, <2>3, <3>2 DEF AckNext, GoesOn
  <2>4. QED BY <1>6, <2>2, <2>3 DEF AwaitReceipt
<1>7. CASE Acknowledge
  BY <1>7 DEF Acknowledge, Succeed, Fail
<1>8. CASE AcknowledgeUnanswered
  BY <1>8 DEF AcknowledgeUnanswered, Fail
<1>9. QED BY <1>1, <1>2, <1>3, <1>4, <1>5, <1>6, <1>7, <1>8 DEF Process
LEMMA NextWork ==
  ASSUME BridgeInv, [Next]_vars, AskedStays
  PROVE  WorkInv'
<1> SUFFICES Work(pendingActions', batch', step', receipt')
  BY QueueStays DEF Work, WorkInv, Hashes
<1>1. CASE UNCHANGED <<pendingActions, workVars>>
  BY <1>1 DEF workVars, Work, BridgeInv, WorkInv
<1>2. CASE Receive
  BY <1>2, ReceivedAsked DEF workVars, Work, BridgeInv, WorkInv
<1>3. CASE Process
  BY <1>3, ProcessStages, SpliceWork, AdvanceWork, GoesOnWork DEF ProcessMoves, BridgeInv
<1>4. CASE Crash
  BY <1>4, EmptySeq, BridgeAssumption DEF Crash, Work, Hashes
<1>5. QED BY <1>1, <1>2, <1>3, <1>4, Frames

LEMMA NextHead ==
  ASSUME BridgeInv, [Next]_vars, AskedStays
  PROVE  HeadInv'
<1> WorkInv /\ HeadInv /\ SendsStay
  BY StepKeepsSends DEF BridgeInv
<1>1. CASE UNCHANGED workVars
  <2> SUFFICES ASSUME step # "idle" PROVE HeadInv'
    BY <1>1 DEF workVars, HeadInv
  <2> PICK a : a = Action
    OBVIOUS
  <2> PICK h : h = receipt
    OBVIOUS
  <2>1. a \in Asked /\ h \in Hashes /\ a = Action' /\ h = receipt' /\ step' = step
    BY <1>1, HeadFacts DEF workVars, Action, WorkInv
  <2>2. step \in {"send", "wait"} => Sendable(a)'
    BY <2>1 DEF HeadInv, AskedStays
  <2>3. step = "wait" => h \in DOMAIN txs' /\ txs'[h].action = a
    BY <2>1 DEF HeadInv, SendsStay
  <2>4. step = "ack" => AckReady(a, h)'
    BY <2>1 DEF HeadInv, AskedStays
  <2>5. QED BY <2>1, <2>2, <2>3, <2>4 DEF HeadInv
<1>2. CASE Process
  <2>1. CASE ProcessBatch \/ Advance
    BY <2>1 DEF ProcessBatch, Advance, HeadInv
  <2>2. ASSUME NEW stage, NEW hash, step # "idle", GoesOn(stage, hash)
        PROVE  Action' = Action /\ step' = stage /\ receipt' = hash /\ hash \in Hashes
    BY <2>2 DEF GoesOn, Action
  <2> PICK a : a = Action
    OBVIOUS
  <2>3. CASE step = "check" /\ GoesOn("send", receipt) /\ Sendable(Action)
    <3>1. a \in Asked /\ a = Action' /\ step' = "send"
      BY <2>2, <2>3, HeadFacts
    <3>2. Sendable(a)'
      BY <2>3, <3>1 DEF AskedStays
    <3>3. QED BY <3>1, <3>2 DEF HeadInv
  <2>4. CASE step = "send" /\ Wallet!Broadcast(Action) /\ GoesOn("wait", Len(txs'))
    <3>1. a \in Asked /\ a = Action' /\ step' = "wait" /\ receipt' = Len(txs')
      BY <2>2, <2>4, HeadFacts
    <3>2. Sendable(a)'
      BY <2>4, <3>1 DEF AskedStays, HeadInv
    <3>3. Len(txs') \in DOMAIN txs' /\ txs'[Len(txs')].action = a
      <4> DEFINE send == [nonce |-> Wallet!Nonce, action |-> a, status |-> "pending"]
      <4>1. txs' = Append(txs, send)
        BY <2>4 DEF Wallet!Broadcast
      <4>2. send \in Sends /\ send.action = a
        BY <2>4, <3>1, NonceType DEF Sends, HeadInv, BridgeInv
      <4> HIDE DEF send
      <4>3. txs \in Seq(Sends)
        BY DEF BridgeInv, WalletInv
      <4>4. txs' \in Seq(Sends) /\ Len(txs') = Len(txs) + 1 /\ txs'[Len(txs) + 1] = send
            /\ Len(txs) \in Nat
        BY <4>1, <4>2, <4>3, AppendProperties, LenProperties
      <4>5. QED BY <4>2, <4>4, LenProperties
    <3>4. QED BY <3>1, <3>2, <3>3 DEF HeadInv
  <2>5. CASE step # "idle" /\ GoesOn("ack", receipt') /\ AckReady(Action, receipt')
    <3> PICK h : h = receipt'
      OBVIOUS
    <3>1. a \in Asked /\ a = Action' /\ step' = "ack" /\ h \in Hashes
      BY <2>2, <2>5, HeadFacts
    <3>2. AckReady(a, h)'
      BY <2>5, <3>1 DEF AskedStays
    <3>3. QED BY <3>1, <3>2 DEF HeadInv
  <2>6. QED BY <1>2, <2>1, <2>3, <2>4, <2>5, ProcessStages DEF ProcessMoves
<1>3. CASE Receive
  BY <1>1, <1>3, ReceivedAsked
<1>4. CASE Crash
  BY <1>4 DEF Crash, HeadInv
<1>5. QED BY <1>1, <1>2, <1>3, <1>4, Frames

LEMMA NextUnanswered ==
  ASSUME BridgeInv, [Next]_vars, AskedStays
  PROVE  UnansweredInv'
<1>1. ASSUME NEW u \in unanswered'
      PROVE  u \in [action : Asked, hash : Hashes] /\ AckReady(u.action, u.hash)
  <2>1. CASE u \in unanswered
    BY <2>1 DEF BridgeInv, UnansweredInv
  <2>2. CASE u = Acknowledgment /\ step = "ack"
    <3>1. Action \in Asked /\ receipt \in Hashes /\ AckReady(Action, receipt)
      BY <2>2, HeadFacts DEF BridgeInv, WorkInv, HeadInv
    <3>2. QED BY <2>2, <3>1 DEF Acknowledgment
  <2>3. unanswered' \subseteq unanswered \/ (step = "ack" /\
          unanswered' \subseteq unanswered \cup {Acknowledgment})
    BY Frames DEF faultVars, AcknowledgeUnanswered, Crash, CommitUnanswered
  <2>4. QED BY <1>1, <2>1, <2>2, <2>3
<1>2. ASSUME NEW u \in unanswered'
      PROVE  /\ u \in [action : Asked', hash : Hashes]
             /\ AckReady(u.action, u.hash)'
  BY <1>1, <1>2 DEF AskedStays
<1>3. QED BY <1>2 DEF UnansweredInv, Hashes

LEMMA InitBridge == Init => BridgeInv
<1> SUFFICES ASSUME Init PROVE BridgeInv
  OBVIOUS
<1> USE DEF Init
<1>1. LedgersInv
  <2>1. Chaincode!CottonInv /\ Chaincode!NFTInv
    BY SameRecords, ComponentsAssumption, Chaincode!InitCottonInv, Chaincode!InitNFTInv
  <2>2. Issuance!ReserveTypeOK /\ Issuance!BackingInv
    BY SameCot, ComponentsAssumption, Issuance!InitTypeOK, Issuance!InitBacking
  <2>3. Tokens!TokensInv
    BY SameNFT, ComponentsAssumption, Tokens!InitTokens
  <2>4. ledger = [k \in Keys |-> Null] /\ events = <<>>
    BY DEF Fabric!Init, Keys
  <2>5. Len(events) <= MaxEvents
    BY <2>4, EmptySeq, BridgeAssumption
  <2>6. KeysApart /\ MintingsFit
    BY <2>4 DEF KeysApart, MintingsFit, Mintings, Fabric!IsBatch, Fabric!IsRequest,
                Fabric!IsProduct, Fabric!Has, Fabric!Exists
  <2>7. QED BY <2>1, <2>2, <2>3, <2>5, <2>6 DEF LedgersInv
<1>2. WalletInv /\ MintsDone
  <2>1. txs = <<>> /\ accountNonce = 0 /\ nextNonce = Null
    BY DEF Wallet!Init
  <2>2. Included = {} /\ Cardinality({}) = 0
    BY <2>1, FS_EmptySet DEF Included
  <2>3. txs \in Seq(Sends) /\ Len(txs) <= MaxSends
    BY <2>1, EmptySeq, BridgeAssumption
  <2>4. QED BY <2>1, <2>2, <2>3 DEF WalletInv, MintsDone
<1>3. InputsInv
  <2>1. heard = 0 /\ cursor = 0 /\ Len(events) \in Nat /\ Len(recycledLog) \in Nat
    BY <1>1, TokenFacts, EmptySeq DEF Fabric!Init
  <2>2. QED BY <2>1, BridgeAssumption DEF InputsInv
<1>4. WorkInv
  BY EmptySeq, BridgeAssumption DEF WorkInv, Hashes
<1>5. HeadInv /\ UnansweredInv
  BY DEF HeadInv, UnansweredInv
<1>6. QED BY <1>1, <1>2, <1>3, <1>4, <1>5 DEF BridgeInv

LEMMA NextBridge == BridgeInv /\ [Next]_vars => BridgeInv'
<1> SUFFICES ASSUME BridgeInv, [Next]_vars PROVE BridgeInv'
  OBVIOUS
<1>1. AskedStays
  BY StepKeepsAsked
<1>2. QED
  BY <1>1, NextLedgers, NextWallet, NextInputs, NextWork, NextHead, NextUnanswered,
     NextMintsDone
     DEF BridgeInv

LEMMA BridgeInvariant == Spec => []BridgeInv
BY InitBridge, NextBridge, PTL DEF Spec
LEMMA BridgeTypes == BridgeInv => TypeOK
<1> SUFFICES ASSUME BridgeInv PROVE TypeOK
  OBVIOUS
<1>1. Asked \subseteq Actions
  BY DEF Asked, Actions, Tokenization, NFTMinting, Recycling, Approvals, Mintings
<1>2. Fabric!TypeOK /\ COT!ReserveTypeOK /\ NFT!TypeOK
  BY SameRecords, SameCot, SameNFT
     DEF BridgeInv, LedgersInv, Chaincode!CottonInv, Tokens!TokensInv
<1>3. Wallet!TypeOK(Actions)
  <2> DEFINE AnySends == [nonce : 0 .. MaxNonce, action : Actions,
                          status : {"pending", "mined", "reverted"}]
  <2>1. Sends \subseteq AnySends
    BY <1>1 DEF Sends
  <2>2. txs \in Seq(AnySends)
    <3> HIDE DEF AnySends
    <3>1. QED BY <2>1, SeqMonotonic DEF BridgeInv, WalletInv
  <2>3. accountNonce \in 0 .. MaxSends
    BY PendingCount, BridgeAssumption DEF BridgeInv, WalletInv
  <2>4. QED BY <2>2, <2>3 DEF Wallet!TypeOK, BridgeInv, WalletInv
<1>4. pendingActions \in Seq(Actions) /\ batch \in Seq(Actions)
  BY <1>1, SeqMonotonic DEF BridgeInv, WorkInv
<1>5. unanswered \subseteq [action : Actions, hash : Hashes]
  BY <1>1 DEF BridgeInv, UnansweredInv
<1>6. QED BY <1>2, <1>3, <1>4, <1>5 DEF TypeOK, BridgeInv, InputsInv, WorkInv

\* The state is well-formed, whatever is lost or repeated: what is queued, sent
\* or unanswered is about events and tokens that there are.
THEOREM BridgeTypeCorrect == Spec => []TypeOK
BY BridgeInvariant, BridgeTypes, PTL

\* The bridge, the certifier and the members use each ledger as its own module
\* says, so what is proved of the ledgers holds under the bridge.
THEOREM LedgersKeepTheirSpecs == Spec => Fabric!Spec /\ COT!ReserveSpec /\ NFT!Spec
<1>1. Init => Fabric!Init /\ COT!ReserveInit /\ NFT!Init
  BY DEF Init
<1>2. BridgeInv /\ [Next]_vars =>
        [Fabric!Next]_(Fabric!vars) /\ [COT!ReserveNext]_(COT!vars) /\ [NFT!Next]_(NFT!nftVars)
  BY FabricStep, CotStep, NFTStep
<1>3. QED BY <1>1, <1>2, BridgeInvariant, PTL DEF Spec, Fabric!Spec, COT!ReserveSpec, NFT!Spec

-----------------------------------------------------------------------------
(* Nothing is minted twice                                                 *)

\* The requests for an NFT that have one.
MintedFor == {i \in DOMAIN events : MintsOf(NFTMinting(i)) # {}}

\* The inductive form of MintedOnce, on top of BridgeInv.
MintsInv ==
  /\ \A t, u \in DOMAIN txs :
       /\ txs[t].status = "mined" /\ txs[u].status = "mined"
       /\ txs[t].action = txs[u].action
       => t = u
  /\ \A e \in processedEvents :
       \E i \in Approvals : EventId(i) = e /\ MintsOf(Tokenization(i)) # {}
  /\ IsFiniteSet(MintedFor) /\ tokenIdCounter = Cardinality(MintedFor)

\* What has been minted before is not minted again.
LEMMA MintIsFirst ==
  ASSUME BridgeInv, NEW a, Mint(a)
  PROVE  MintsOf(a) = {} /\ ~Done(a)
<1>1. ~Done(a)
  BY DEF Mint, COT!MintVerifiedBatch, COT!NotReplayed, NFT!MintProduct, NFT!NotUsed, Done,
         EventId, Event
<1>2. QED BY <1>1 DEF MintsOf, BridgeInv, MintsDone

\* A step mints nothing, or what the one transaction it includes is for.
NoMint ==
  /\ \A a : MintsOf(a)' = MintsOf(a)
  /\ UNCHANGED <<processedEvents, tokenIdCounter>>

MintedBy(t, a) ==
  /\ t \in DOMAIN txs /\ a = txs[t].action /\ a \in Asked /\ Mint(a)
  /\ MintsOf(a) = {} /\ MintsOf(a)' = {t}
  /\ \A c : c # a => MintsOf(c)' = MintsOf(c)
  /\ UNCHANGED fabricVars

LEMMA MintsMove ==
  ASSUME BridgeInv, [Next]_vars
  PROVE  NoMint \/ \E t, a : MintedBy(t, a)
<1>1. ASSUME NEW t \in DOMAIN txs, Include(t), txs[t].status = "pending",
             Mint(txs[t].action), Wallet!Include(t, "mined"), NEW a, a = txs[t].action
      PROVE  MintedBy(t, a)
  <2>1. a \in Asked /\ MintsOf(a) = {} /\ UNCHANGED fabricVars /\ Mint(a)
    BY <1>1, MintIsFirst, SendFacts DEF BridgeInv, Include
  <2>2. /\ DOMAIN txs' = DOMAIN txs /\ txs'[t].status = "mined" /\ txs'[t].action = a
        /\ \A u \in DOMAIN txs : u # t => txs'[u] = txs[u]
    <3>1. txs' = [txs EXCEPT ![t].status = "mined"] /\ txs[t] \in Sends
      BY <1>1, SendFacts DEF Wallet!Include, BridgeInv
    <3>2. QED BY <1>1, <3>1 DEF Sends
  <2>3. MintsOf(a)' = {t} /\ \A c : c # a => MintsOf(c)' = MintsOf(c)
    BY <1>1, <2>1, <2>2 DEF MintsOf
  <2>4. QED BY <1>1, <2>1, <2>3 DEF MintedBy
<1>2. ASSUME NEW t \in DOMAIN txs, Include(t) PROVE NoMint \/ \E u, a : MintedBy(u, a)
  <2>1. CASE Wallet!Include(t, "mined") /\ Mint(txs[t].action)
    BY <1>1, <1>2, <2>1 DEF Wallet!Include, Wallet!Pending
  <2>2. CASE Wallet!Include(t, "reverted") /\ UNCHANGED <<cotVars, nftVars>>
    <3>1. /\ DOMAIN txs' = DOMAIN txs /\ txs'[t].status = "reverted"
          /\ txs[t].status = "pending"
          /\ \A u \in DOMAIN txs : u # t => txs'[u] = txs[u]
      <4>1. txs' = [txs EXCEPT ![t].status = "reverted"] /\ txs[t] \in Sends
        BY <2>2, SendFacts DEF Wallet!Include, BridgeInv
      <4>2. txs[t].status = "pending"
        BY <2>2 DEF Wallet!Include, Wallet!Pending
      <4>3. QED BY <4>1, <4>2 DEF Sends
    <3>2. \A a : MintsOf(a)' = MintsOf(a)
      BY <3>1 DEF MintsOf
    <3>3. QED BY <2>2, <3>2 DEF NoMint, cotVars, nftVars
  <2>3. QED BY <1>2, <2>1, <2>2 DEF Include
<1>3. ASSUME ~\E t \in DOMAIN txs : Include(t) PROVE NoMint
  <2>1. UNCHANGED processedEvents
    <3>1. CASE UNCHANGED cotVars
      BY <3>1 DEF cotVars
    <3>2. ASSUME NEW b \in BatchIds, Attest(b) PROVE UNCHANGED processedEvents
      BY <3>2 DEF Attest, COT!AttestReserve, COT!tokenVars
    <3>3. QED BY <1>3, <3>1, <3>2, Frames
  <2>2. UNCHANGED tokenIdCounter
    <3>1. CASE UNCHANGED nftVars
      BY <3>1 DEF nftVars
    <3>2. CASE Owners
      BY <3>2 DEF Owners, NFT!TransferNFT, NFT!RecycleProduct
    <3>3. QED BY <1>3, <3>1, <3>2, Frames
  <2>3. ASSUME NEW a PROVE MintsOf(a)' = MintsOf(a)
    <3>1. MintsOf(a)' \subseteq MintsOf(a)
      <4> SUFFICES ASSUME NEW t \in DOMAIN txs', txs'[t].status = "mined", txs'[t].action = a
                   PROVE  t \in DOMAIN txs /\ txs[t].status = "mined" /\ txs[t].action = a
        BY DEF MintsOf
      <4>1. QED BY <1>3, NewlyMined
    <3>2. MintsOf(a) \subseteq MintsOf(a)'
      BY StepKeepsSends DEF SendsStay, MintsOf
    <3>3. QED BY <3>1, <3>2
  <2>4. QED BY <2>1, <2>2, <2>3 DEF NoMint
<1>4. QED BY <1>2, <1>3
LEMMA InitMints == Init => MintsInv
<1> SUFFICES ASSUME Init PROVE MintsInv
  OBVIOUS
<1>1. events = <<>> /\ processedEvents = {} /\ tokenIdCounter = 0 /\ txs = <<>>
  BY DEF Init, Fabric!Init, COT!ReserveInit, NFT!Init, Wallet!Init
<1>2. MintedFor = {}
  BY <1>1 DEF MintedFor
<1>3. QED BY <1>1, <1>2, FS_EmptySet DEF MintsInv

LEMMA MintedForKept ==
  ASSUME BridgeInv, [Next]_vars
  PROVE  /\ DOMAIN events \subseteq DOMAIN events'
         /\ \A i \in DOMAIN events' \ DOMAIN events : MintsOf(NFTMinting(i)) = {}
<1>1. DOMAIN events \subseteq DOMAIN events'
  BY StepKeepsLedger DEF LedgerStays
<1>2. ASSUME NEW i, NEW t \in MintsOf(NFTMinting(i)) PROVE i \in DOMAIN events
  <2>1. txs[t].action \in Asked /\ txs[t].action = NFTMinting(i)
    BY <1>2, SendFacts DEF MintsOf, BridgeInv
  <2>2. QED BY <2>1, AskedKinds DEF NFTMinting, Mintings
<1>3. QED BY <1>1, <1>2

LEMMA NextMints == BridgeInv /\ MintsInv /\ [Next]_vars => MintsInv'
<1> SUFFICES ASSUME BridgeInv, MintsInv, [Next]_vars PROVE MintsInv'
  OBVIOUS
<1>1. SendsStay /\ \A i \in DOMAIN events : i \in DOMAIN events' /\ events'[i] = events[i]
  BY StepKeepsSends, StepKeepsLedger DEF LedgerStays
<1>2. ASSUME NEW t \in DOMAIN txs', NEW u \in DOMAIN txs', txs'[t].status = "mined",
             txs'[u].status = "mined", txs'[t].action = txs'[u].action
      PROVE  t = u
  <2> PICK a : a = txs'[t].action
    OBVIOUS
  <2>1. t \in MintsOf(a)' /\ u \in MintsOf(a)'
    BY <1>2 DEF MintsOf
  <2>2. CASE MintsOf(a)' = MintsOf(a)
    BY <2>1, <2>2 DEF MintsOf, MintsInv
  <2>3. ASSUME NEW v, MintsOf(a)' = {v}
        PROVE  t = u
    BY <2>1, <2>3
  <2>4. QED BY <2>2, <2>3, MintsMove DEF NoMint, MintedBy
<1>3. ASSUME NEW i \in Approvals, MintsOf(Tokenization(i)) # {}
      PROVE  i \in Approvals' /\ EventId(i)' = EventId(i) /\ MintsOf(Tokenization(i))' # {}
  <2>1. i \in Approvals' /\ EventId(i)' = EventId(i)
    BY <1>1 DEF Approvals, EventId, COT!EventIdFor
  <2>2. MintsOf(Tokenization(i))' # {}
    BY <1>1, <1>3 DEF SendsStay, MintsOf
  <2>3. QED BY <2>1, <2>2
<1>4. ASSUME NEW e \in processedEvents'
      PROVE  \E i \in Approvals' : EventId(i)' = e /\ MintsOf(Tokenization(i))' # {}
  <2>1. CASE e \in processedEvents
    BY <1>3, <2>1 DEF MintsInv
  <2>2. ASSUME e \notin processedEvents, NEW t, NEW a, MintedBy(t, a)
        PROVE  \E i \in Approvals' : EventId(i)' = e /\ MintsOf(Tokenization(i))' # {}
    <3>1. a \in Asked /\ Mint(a) /\ UNCHANGED fabricVars /\ MintsOf(a)' = {t}
      BY <2>2 DEF MintedBy
    <3>2. a.type = "tokenization"
      BY <2>2, <3>1 DEF Mint, cotVars
    <3>3. /\ a.ref \in Approvals /\ a = Tokenization(a.ref)
          /\ processedEvents' = processedEvents \cup {EventId(a.ref)}
      BY <3>1, <3>2, AskedKinds DEF Mint, COT!MintVerifiedBatch, EventId, Event
    <3> PICK i : i = a.ref
      OBVIOUS
    <3>4. i \in Approvals' /\ EventId(i)' = e
      BY <1>4, <2>2, <3>1, <3>3 DEF fabricVars, Approvals, EventId, COT!EventIdFor
    <3>5. MintsOf(Tokenization(i))' # {}
      BY <3>1, <3>3
    <3>6. QED BY <3>4, <3>5
  <2>3. QED BY <1>4, <2>1, <2>2, MintsMove DEF NoMint
<1>5. IsFiniteSet(MintedFor)' /\ tokenIdCounter' = Cardinality(MintedFor')
  <2>0. IsFiniteSet(MintedFor) /\ tokenIdCounter = Cardinality(MintedFor)
    BY DEF MintsInv
  <2>1. CASE NoMint
    <3>1. MintedFor' = MintedFor
      BY <2>1, MintedForKept DEF NoMint, MintedFor
    <3>2. QED BY <2>0, <2>1, <3>1 DEF NoMint
  <2>2. ASSUME NEW t, NEW a, MintedBy(t, a)
        PROVE  IsFiniteSet(MintedFor)' /\ tokenIdCounter' = Cardinality(MintedFor')
    <3>1. /\ a \in Asked /\ Mint(a) /\ events' = events /\ MintsOf(a)' = {t}
          /\ MintsOf(a) = {} /\ \A c : c # a => MintsOf(c)' = MintsOf(c)
      BY <2>2 DEF MintedBy, fabricVars
    <3>2. CASE a.type = "tokenization"
      <4>1. \A i : NFTMinting(i) # a
        BY <3>2 DEF NFTMinting
      <4>2. MintedFor' = MintedFor
        BY <3>1, <4>1 DEF MintedFor
      <4>3. tokenIdCounter' = tokenIdCounter
        BY <3>1, <3>2 DEF Mint, nftVars
      <4>4. QED BY <2>0, <4>2, <4>3
    <3>3. CASE a.type = "nftMinting"
      <4> PICK i : i = a.ref
        OBVIOUS
      <4>1. a = NFTMinting(i) /\ i \in DOMAIN events
        BY <3>1, <3>3, AskedKinds DEF Mintings
      <4>2. \A j : j # i => NFTMinting(j) # a
        BY <4>1 DEF NFTMinting
      <4>3. MintedFor' = MintedFor \cup {i} /\ i \notin MintedFor
        BY <3>1, <4>1, <4>2 DEF MintedFor
      <4>4. tokenIdCounter' = tokenIdCounter + 1
        BY <3>1, <3>3 DEF Mint, NFT!MintProduct
      <4>5. QED BY <2>0, <4>3, <4>4, FS_AddElement
    <3>4. QED BY <3>1, <3>2, <3>3 DEF Mint
  <2>3. QED BY <2>1, <2>2, MintsMove
<1>6. QED BY <1>2, <1>4, <1>5 DEF MintsInv

LEMMA MintsInvariant == Spec => [](BridgeInv /\ MintsInv)
BY InitBridge, InitMints, NextBridge, NextMints, PTL DEF Spec

\* Crashes, replays, lost answers and retries never make the bridge mint twice
\* for one request, and the contracts have minted exactly what its successful
\* transactions asked for.
THEOREM NothingMintedTwice == Spec => []MintedOnce
<1>1. BridgeInv /\ MintsInv => MintedOnce
  <2> SUFFICES ASSUME BridgeInv, MintsInv PROVE MintedOnce
    OBVIOUS
  <2>1. ASSUME NEW a \in Actions PROVE Cardinality(MintsOf(a)) <= 1
    <3>1. \A t, u \in MintsOf(a) : t = u
      BY DEF MintsInv, MintsOf
    <3>2. CASE MintsOf(a) = {}
      BY <3>2, FS_EmptySet
    <3>3. CASE MintsOf(a) # {}
      <4>1. PICK t : MintsOf(a) = {t}
        BY <3>1, <3>3
      <4>2. Cardinality({t}) = 1
        BY FS_Singleton
      <4>3. QED BY <4>1, <4>2
    <3>4. QED BY <3>2, <3>3
  <2>2. \A i \in Approvals : MintsOf(Tokenization(i)) # {} => EventId(i) \in processedEvents
    BY DEF BridgeInv, MintsDone, MintsOf, Done, Tokenization
  <2>3. processedEvents = {COT!EventIdFor(i, events[i].batchId, events[i].quantity) :
                             i \in {j \in Approvals : MintsOf(Tokenization(j)) # {}}}
    BY <2>2 DEF MintsInv, EventId
  <2>4. QED BY <2>1, <2>3 DEF MintedOnce, MintsInv, MintedFor
<1>2. QED BY <1>1, MintsInvariant, PTL
-----------------------------------------------------------------------------
(* Tokens stand for verified cotton                                        *)

\* An announced approval is the only one of its batch, and the batch is the one
\* that its request pledges.
LEMMA ApprovalFacts ==
  ASSUME LedgersInv, NEW i \in Approvals, NEW b, b = events[i].batchId
  PROVE  /\ b \in BatchIds /\ IsApproved(ledger[b].pending)
         /\ ledger[ledger[b].pending].quantity = events[i].quantity
         /\ \A j \in Approvals : events[j].batchId = b => j = i
<1> DEFINE r(j) == events[j].requestId
<1>1. ASSUME NEW j \in Approvals, events[j].batchId = b
      PROVE  /\ r(j) \in Keys /\ Chaincode!Approved(r(j)) /\ ledger[b].pending = r(j)
             /\ ledger[r(j)].quantity = events[j].quantity
             /\ Chaincode!ApprovalsOf(r(j)) = {j}
  <2> PICK k : k = r(j)
    OBVIOUS
  <2>1. k \in Keys /\ j \in Chaincode!ApprovalsOf(k)
    BY EventFacts DEF Keys, Chaincode!ApprovalsOf, Approvals
  <2>2. Chaincode!Approved(k)
    BY <2>1 DEF LedgersInv, Chaincode!CottonInv, Chaincode!ApprovalsAnnounced
  <2>3. PICK n \in DOMAIN events : /\ Chaincode!ApprovalsOf(k) = {n}
                                   /\ events[n].batchId = ledger[k].batchId
                                   /\ events[n].quantity = ledger[k].quantity
    BY <2>1, <2>2 DEF LedgersInv, Chaincode!CottonInv, Chaincode!ApprovalsAnnounced
  <2>4. n = j
    BY <2>1, <2>3
  <2>5. ledger[ledger[k].batchId].pending = k
    BY <2>1, <2>2 DEF LedgersInv, Chaincode!CottonInv, Chaincode!RequestsBacked,
                      Chaincode!Approved
  <2>6. QED BY <1>1, <2>1, <2>2, <2>3, <2>4, <2>5
<1>2. b \in BatchIds
  BY EventFacts
<1>3. /\ r(i) \in Keys /\ Chaincode!Approved(r(i)) /\ ledger[b].pending = r(i)
      /\ ledger[r(i)].quantity = events[i].quantity
      /\ Chaincode!ApprovalsOf(r(i)) = {i}
  BY <1>1
<1>4. ASSUME NEW j \in Approvals, events[j].batchId = b PROVE j = i
  <2>1. ledger[b].pending = r(j) /\ Chaincode!ApprovalsOf(r(j)) = {j}
    BY <1>1, <1>4
  <2>2. QED BY <1>3, <2>1
<1>5. IsApproved(r(i))
  <2>1. ledger[r(i)] \in Chaincode!Requests /\ Fabric!IsRequest(r(i))
    BY <1>3, SameRecords, ComponentsAssumption, Chaincode!KindsOfRecords
       DEF Chaincode!Approved, LedgersInv, Chaincode!CottonInv
  <2>2. ledger[r(i)].status \in {"PENDING", "APPROVED", "COMPLETED"}
    BY <2>1 DEF Chaincode!Requests
  <2>3. QED BY <1>3, <2>1, <2>2 DEF Chaincode!Approved, IsApproved
<1> HIDE DEF r
<1>6. QED BY <1>2, <1>3, <1>4, <1>5

\* A reserve is attested for a verified batch, with what Fabric says of it.
Attested(b) ==
  /\ Attestable(b)
  /\ reserves[b].verifiedKg = ledger[b].quantity
  /\ reserves[b].provenance = <<ledger[b].certificationHash, ledger[b].verificationTx>>

\* Claims are issued for the one approval of the batch that was processed.
Claimed(b) ==
  \E i \in Approvals : /\ events[i].batchId = b /\ EventId(i) \in processedEvents
                       /\ reserves[b].tokenizedKg = events[i].quantity

\* The inductive form of BackedByVerifiedCotton, on top of BridgeInv.
ReservesInv ==
  \A b \in BatchIds : /\ reserves[b].active => Attested(b)
                      /\ reserves[b].tokenizedKg > 0 => Claimed(b)

LEMMA InitReserves == Init => ReservesInv
BY DEF Init, COT!ReserveInit, ReservesInv

\* What Fabric says of a batch with a reserve, it goes on saying.
LEMMA AttestedStays ==
  ASSUME BridgeInv, [Next]_vars, NEW b \in BatchIds, Attested(b),
         reserves'[b].verifiedKg = reserves[b].verifiedKg,
         reserves'[b].provenance = reserves[b].provenance
  PROVE  Attested(b)'
<1>1. /\ Fabric!IsBatch(b) /\ Chaincode!IsBatch(b) /\ Fabric!Exists(b) /\ Chaincode!Exists(b)
      /\ ledger[b].rwaStatus \in {"VERIFIED", "TOKENIZED"} /\ ledger[b].certificationHash # Null
      /\ b \in Keys
  BY SameRecords DEF Attested, Attestable, Keys, Fabric!IsBatch, Fabric!Has
<1>2. LedgerStays
  BY StepKeepsLedger
<1>3. /\ ledger'[b].quantity = ledger[b].quantity
      /\ ledger'[b].certificationHash = ledger[b].certificationHash
      /\ ledger'[b].verificationTx = ledger[b].verificationTx
      /\ ledger'[b].rwaStatus \in {"VERIFIED", "TOKENIZED"}
  BY <1>1, <1>2 DEF LedgerStays, Chaincode!CottonMovesOn
<1>4. Fabric!IsBatch(b)'
  BY <1>1, <1>2, KindsStay
<1>5. QED BY <1>1, <1>3, <1>4 DEF Attested, Attestable

LEMMA ClaimedStays ==
  ASSUME BridgeInv, [Next]_vars, NEW b \in BatchIds, Claimed(b),
         reserves'[b].tokenizedKg = reserves[b].tokenizedKg
  PROVE  Claimed(b)'
<1>1. PICK i \in Approvals : /\ events[i].batchId = b /\ EventId(i) \in processedEvents
                             /\ reserves[b].tokenizedKg = events[i].quantity
  BY DEF Claimed
<1>2. i \in DOMAIN events' /\ events'[i] = events[i]
  BY StepKeepsLedger DEF LedgerStays, Approvals
<1>3. Tokenization(i) \in Asked /\ Tokenization(i).type = "tokenization"
      /\ Tokenization(i).ref = i
  BY DEF Asked, Tokenization
<1> PICK a : a = Tokenization(i)
  OBVIOUS
<1>4. Done(a)'
  BY <1>1, <1>3, StepKeepsAsked, DoneStays DEF Done
<1>5. EventId(i)' \in processedEvents'
  BY <1>3, <1>4 DEF Done
<1>6. QED BY <1>1, <1>2, <1>5 DEF Claimed, Approvals

LEMMA NextReserves == BridgeInv /\ ReservesInv /\ [Next]_vars => ReservesInv'
<1> SUFFICES ASSUME BridgeInv, ReservesInv, [Next]_vars, NEW b \in BatchIds
             PROVE  /\ reserves'[b].active => Attested(b)'
                    /\ reserves'[b].tokenizedKg > 0 => Claimed(b)'
  BY DEF ReservesInv
<1>1. reserves \in [BatchIds -> COT!Reserve] /\ reserves[b] \in COT!Reserve
  BY SameCot DEF BridgeInv, LedgersInv, COT!ReserveTypeOK
<1>2. CASE UNCHANGED reserves
  BY <1>2, AttestedStays, ClaimedStays DEF ReservesInv
<1>3. ASSUME NEW c \in BatchIds, Attest(c)
      PROVE  /\ reserves'[b].active => Attested(b)'
             /\ reserves'[b].tokenizedKg > 0 => Claimed(b)'
  <2> DEFINE prov == <<ledger[c].certificationHash, ledger[c].verificationTx>>
             reserve == [reserves[c] EXCEPT !.verifiedKg = ledger[c].quantity,
                           !.updated = TRUE, !.active = TRUE, !.provenance = prov]
  <2>1. Attestable(c) /\ reserves' = [reserves EXCEPT ![c] = reserve] /\ ledger' = ledger
    BY <1>3 DEF Attest, COT!AttestReserve, fabricVars
  <2>2. /\ reserve.tokenizedKg = reserves[c].tokenizedKg
        /\ reserve.verifiedKg = ledger[c].quantity /\ reserve.provenance = prov
    BY <1>1 DEF COT!Reserve
  <2> HIDE DEF reserve
  <2>3. CASE b = c
    <3>1. reserves'[b] = reserve
      BY <1>1, <2>1, <2>3
    <3>2. Attested(b)'
      BY <2>1, <2>2, <2>3, <3>1 DEF Attested, Attestable, Fabric!IsBatch, Fabric!Has,
                                    Fabric!Exists
    <3>3. reserves'[b].tokenizedKg > 0 => Claimed(b)'
      BY <2>2, <2>3, <3>1, ClaimedStays DEF ReservesInv
    <3>4. QED BY <3>2, <3>3
  <2>4. CASE b # c
    <3>1. reserves'[b] = reserves[b]
      BY <1>1, <2>1, <2>4
    <3>2. QED BY <3>1, AttestedStays, ClaimedStays DEF ReservesInv
  <2>5. QED BY <2>3, <2>4
<1>4. ASSUME NEW t \in DOMAIN txs, NEW a \in Asked, Include(t), Mint(a),
             a.type = "tokenization"
      PROVE  /\ reserves'[b].active => Attested(b)'
             /\ reserves'[b].tokenizedKg > 0 => Claimed(b)'
  <2> PICK i : i = a.ref
    OBVIOUS
  <2> PICK c : c = events[i].batchId
    OBVIOUS
  <2> DEFINE reserve == [reserves[c] EXCEPT !.tokenizedKg = @ + events[i].quantity]
  <2>1. i \in Approvals /\ c \in BatchIds /\ events[i].quantity \in Nat
        /\ a = Tokenization(i) /\ events' = events
    BY <1>4, AskedKinds, EventFacts DEF BridgeInv, Include, fabricVars
  <2>2. /\ reserves' = [reserves EXCEPT ![c] = reserve] /\ reserves[c].active
        /\ EventId(i) \notin processedEvents /\ EventId(i) \in processedEvents'
    BY <1>4 DEF Mint, COT!MintVerifiedBatch, COT!NotReplayed, COT!Consume, EventId, Event
  <2>3. ~Claimed(c)
    <3> SUFFICES ASSUME NEW j \in Approvals, events[j].batchId = c,
                        EventId(j) \in processedEvents
                 PROVE  FALSE
      BY DEF Claimed
    <3>1. j = i
      BY <2>1, ApprovalFacts DEF BridgeInv
    <3>2. QED BY <2>2, <3>1
  <2>4. reserves[c] \in COT!Reserve /\ reserves[c].tokenizedKg = 0
    <3>1. reserves[c] \in COT!Reserve /\ ~(reserves[c].tokenizedKg > 0)
      BY <1>1, <2>1, <2>3 DEF ReservesInv
    <3>2. reserves[c].tokenizedKg \in 0 .. MaxUint
      BY <3>1 DEF COT!Reserve, COT!Uint
    <3>3. QED BY <3>1, <3>2
  <2>5. /\ reserve.tokenizedKg = events[i].quantity
        /\ reserve.verifiedKg = reserves[c].verifiedKg
        /\ reserve.provenance = reserves[c].provenance
    BY <2>1, <2>4 DEF COT!Reserve
  <2> HIDE DEF reserve
  <2>6. CASE b = c
    <3>1. reserves'[b] = reserve
      BY <1>1, <2>2, <2>6
    <3>2. Attested(b)'
      BY <2>2, <2>5, <2>6, <3>1, AttestedStays DEF ReservesInv
    <3>3. Claimed(b)'
      BY <2>1, <2>2, <2>5, <2>6, <3>1 DEF Claimed, Approvals, EventId
    <3>4. QED BY <3>2, <3>3
  <2>7. CASE b # c
    <3>1. reserves'[b] = reserves[b]
      BY <1>1, <2>2, <2>7
    <3>2. QED BY <3>1, AttestedStays, ClaimedStays DEF ReservesInv
  <2>8. QED BY <2>6, <2>7
<1>5. ASSUME NEW t \in DOMAIN txs, Include(t)
      PROVE  /\ reserves'[b].active => Attested(b)'
             /\ reserves'[b].tokenizedKg > 0 => Claimed(b)'
  <2>1. CASE UNCHANGED cotVars
    BY <1>2, <2>1 DEF cotVars
  <2>2. CASE Mint(txs[t].action)
    <3>1. txs[t].action \in Asked
      BY SendFacts DEF BridgeInv
    <3>2. QED BY <1>4, <1>5, <2>1, <2>2, <3>1 DEF Mint
  <2>3. QED BY <1>5, <2>1, <2>2 DEF Include
<1>6. QED BY <1>2, <1>3, <1>5, Frames DEF cotVars

\* COT is minted for cotton that Fabric holds as verified, in the quantity of
\* the request that was approved for it, and its reserve is what Fabric certified.
THEOREM TokensBackedByCotton == Spec => []BackedByVerifiedCotton
<1>1. BridgeInv /\ ReservesInv => BackedByVerifiedCotton
  <2> SUFFICES ASSUME BridgeInv, ReservesInv, NEW b \in BatchIds
               PROVE  /\ reserves[b].active =>
                           /\ Fabric!IsBatch(b)
                           /\ ledger[b].rwaStatus \in {"VERIFIED", "TOKENIZED"}
                           /\ reserves[b].verifiedKg = ledger[b].quantity
                           /\ reserves[b].provenance
                                = <<ledger[b].certificationHash, ledger[b].verificationTx>>
                      /\ reserves[b].tokenizedKg > 0 =>
                           /\ ledger[ledger[b].pending].status \in {"APPROVED", "COMPLETED"}
                           /\ reserves[b].tokenizedKg = ledger[ledger[b].pending].quantity
    BY DEF BackedByVerifiedCotton
  <2>1. ASSUME reserves[b].tokenizedKg > 0
        PROVE  /\ IsApproved(ledger[b].pending)
               /\ reserves[b].tokenizedKg = ledger[ledger[b].pending].quantity
    BY <2>1, ApprovalFacts DEF ReservesInv, Claimed, BridgeInv
  <2>2. QED BY <2>1 DEF ReservesInv, Attested, Attestable, IsApproved
<1>2. Spec => [](BridgeInv /\ ReservesInv)
  BY InitBridge, InitReserves, NextBridge, NextReserves, PTL DEF Spec
<1>3. QED BY <1>1, <1>2, PTL
-----------------------------------------------------------------------------
(* Products and their tokens                                               *)

\* A token and its Transfer event are what a request for an NFT has asked for.
TokenFits(id, i) ==
  /\ events[i].complete
  /\ events[i].productId = productData[id].fabricProductId
  /\ events[i].terms = productData[id].terms
  /\ transferLog[id] = [to |-> events[i].terms.recipient, tokenId |-> id]

\* A token was minted for a product with lineage that asked for it.
TokensAsked == \A id \in 1 .. tokenIdCounter : \E i \in Mintings : TokenFits(id, i)

\* Fabric knows of a product its own token, and that token's recycling if the
\* product has lineage.
TokenKnown(p) ==
  Fabric!IsProduct(p) =>
    /\ ledger[p].nftTokenId # Null => ledger[p].nftTokenId = fabricToTokenId[p]
    /\ ledger[p].kind = "manufactured" /\ ledger[p].recyclingTx # Null =>
         \E i \in DOMAIN recycledLog : /\ ledger[p].recyclingTx = RecyclingTx(i)
                                       /\ recycledLog[i].tokenId = fabricToTokenId[p]

\* The inductive form of ProductsMatchTokens, on top of BridgeInv.
ProductsInv == TokensAsked /\ \A p \in ProductIds : TokenKnown(p)

\* A product is asked for once, from the time it is no longer just finished.
LEMMA AskedProducts ==
  ASSUME LedgersInv, NEW i \in Mintings, events[i].complete, NEW p, p = events[i].productId
  PROVE  /\ p \in ProductIds /\ Fabric!Has(p, {"manufactured"})
         /\ ledger[p].status # "FINISHED"
         /\ \A j \in Mintings : events[j].productId = p => j = i
<1>1. p \in ProductIds /\ p \in Keys /\ Fabric!IsProduct(p) /\ ledger[p].kind = "manufactured"
  BY EventFacts DEF LedgersInv, MintingsFit, Keys
<1>2. Fabric!Has(p, {"manufactured"}) /\ Chaincode!IsManufactured(p)
  BY <1>1 DEF Fabric!IsProduct, Fabric!Has, Fabric!Exists, Chaincode!IsManufactured,
              Chaincode!Has, Chaincode!Exists
<1>3. \A j \in Mintings : events[j].productId = p => j \in Chaincode!MintingsOf(p)
  BY DEF Mintings, Chaincode!MintingsOf
<1>4. ledger[p].status # "FINISHED" /\ \E j : Chaincode!MintingsOf(p) = {j}
  BY <1>1, <1>2, <1>3 DEF LedgersInv, Chaincode!NFTInv, Chaincode!MintingsAnnounced
<1>5. QED BY <1>1, <1>2, <1>3, <1>4

\* What a step does to a product's token id and recycling receipt.
ProductMoves(p) ==
  LET q == ledger[p]
      r == ledger'[p]
  IN  \/ r.nftTokenId = Null /\ r.recyclingTx = Null
      \/ /\ Fabric!IsProduct(p)
         /\ r.nftTokenId \in {q.nftTokenId, fabricToTokenId[p]}
         /\ r.recyclingTx = q.recyclingTx /\ r.kind = q.kind
      \/ /\ Fabric!IsProduct(p) /\ r.kind # "manufactured"
         /\ r.nftTokenId = q.nftTokenId
      \/ /\ Fabric!IsProduct(p)
         /\ r.nftTokenId = q.nftTokenId
         /\ \E i \in DOMAIN recycledLog : /\ r.recyclingTx = RecyclingTx(i)
                                          /\ recycledLog[i].tokenId = q.nftTokenId

LEMMA MembersProducts ==
  ASSUME LedgersInv, Members, NEW p \in ProductIds, Fabric!IsProduct(p)'
  PROVE  ProductMoves(p)
<1> /\ ledger \in [Keys -> Chaincode!Records \cup {Null}] /\ p \in Keys
    /\ p \notin BatchIds /\ p \notin RequestIds
    /\ BatchIds \subseteq Keys /\ RequestIds \subseteq Keys /\ ProductIds \subseteq Keys
  BY BridgeAssumption DEF LedgersInv, Chaincode!CottonInv, Chaincode!TypeOK, Keys
<1>1. CASE ledger'[p] = ledger[p]
  BY <1>1 DEF ProductMoves, Fabric!IsProduct, Fabric!Has, Fabric!Exists
<1>2. Fabric!IsProduct(p) => ledger[p] \in Chaincode!Products
  BY SameRecords, ComponentsAssumption, Chaincode!KindsOfRecords
     DEF LedgersInv, Chaincode!CottonInv
<1>3. ASSUME NEW b \in BatchIds,
             \/ \E q \in 1 .. MaxKg : Fabric!RegisterCottonBatch(b, q)
             \/ \E w \in Warehouses : Fabric!StoreCottonBatch(b, w)
             \/ \E c \in Certs : Fabric!VerifyCottonBatch(b, c)
             \/ \E r \in RequestIds, q \in 1 .. MaxKg, w \in Warehouses :
                  Fabric!RequestTokenization(r, b, q, w)
      PROVE  ProductMoves(p)
  <2>1. ledger'[p] = ledger[p]
    <3>1. ASSUME NEW q \in 1 .. MaxKg, Fabric!RegisterCottonBatch(b, q)
          PROVE  ledger'[p] = ledger[p]
      BY <3>1 DEF Fabric!RegisterCottonBatch, Fabric!Put
    <3>2. ASSUME NEW w \in Warehouses, Fabric!StoreCottonBatch(b, w)
          PROVE  ledger'[p] = ledger[p]
      BY <3>2 DEF Fabric!StoreCottonBatch, Fabric!Put
    <3>3. ASSUME NEW c \in Certs, Fabric!VerifyCottonBatch(b, c)
          PROVE  ledger'[p] = ledger[p]
      BY <3>3 DEF Fabric!VerifyCottonBatch, Fabric!Put
    <3>4. ASSUME NEW r \in RequestIds, NEW q \in 1 .. MaxKg, NEW w \in Warehouses,
                 Fabric!RequestTokenization(r, b, q, w)
          PROVE  ledger'[p] = ledger[p]
      <4>1. p # r /\ p # b
        OBVIOUS
      <4>2. QED BY <3>4, <4>1 DEF Fabric!RequestTokenization
    <3>5. QED BY <1>3, <3>1, <3>2, <3>3, <3>4
  <2>2. QED BY <1>1, <2>1
<1>4. ASSUME NEW r \in RequestIds, Fabric!ApproveTokenizationRequest(r)
      PROVE  ProductMoves(p)
  <2>1. ledger'[p] = ledger[p]
    BY <1>4 DEF Fabric!ApproveTokenizationRequest, Fabric!Put
  <2>2. QED BY <1>1, <2>1
<1>5. ASSUME NEW k \in ProductIds, k # p,
             \/ Fabric!CreateFinishedProduct(k, BatchIds) \/ Fabric!RegisterProduct(k, Farm)
             \/ \E u \in MemberUpdates : Fabric!UpdateStatus(k, u.status, u.recyclingTx)
             \/ \E t \in MintTerms : Fabric!RequestNFTMinting(k, t)
      PROVE  ProductMoves(p)
  <2>1. ledger'[p] = ledger[p]
    BY <1>5 DEF Fabric!CreateFinishedProduct, Fabric!RegisterProduct, Fabric!UpdateStatus,
                Fabric!RequestNFTMinting, Fabric!Put
  <2>2. QED BY <1>1, <2>1
<1>6. CASE Fabric!CreateFinishedProduct(p, BatchIds) \/ Fabric!RegisterProduct(p, Farm)
  BY <1>6 DEF Fabric!CreateFinishedProduct, Fabric!RegisterProduct, Fabric!Put, ProductMoves
<1>7. ASSUME NEW u \in MemberUpdates, Fabric!UpdateStatus(p, u.status, u.recyclingTx)
      PROVE  ProductMoves(p)
  <2> PICK tx : tx = IF u.recyclingTx = Null THEN ledger[p].recyclingTx ELSE u.recyclingTx
    OBVIOUS
  <2>1. /\ ledger[p] \in Chaincode!Products /\ Fabric!IsProduct(p)
        /\ ledger[p].kind # "manufactured"
        /\ ledger'[p] = [ledger[p] EXCEPT !.status = u.status, !.recyclingTx = tx]
    BY <1>2, <1>7 DEF Fabric!UpdateStatus, Fabric!Updatable, Fabric!Put
  <2>2. /\ ledger'[p].nftTokenId = ledger[p].nftTokenId
        /\ ledger'[p].kind = ledger[p].kind
    BY <2>1 DEF Chaincode!Products
  <2>3. QED BY <2>1, <2>2 DEF ProductMoves
<1>8. ASSUME NEW t \in MintTerms, Fabric!RequestNFTMinting(p, t) PROVE ProductMoves(p)
  <2>1. /\ ledger[p] \in Chaincode!Products /\ Fabric!IsProduct(p)
        /\ ledger'[p] = [ledger[p] EXCEPT !.status = "NFT_MINT_PENDING"]
    BY <1>2, <1>8 DEF Fabric!RequestNFTMinting, Fabric!Put
  <2>2. /\ ledger'[p].nftTokenId = ledger[p].nftTokenId
        /\ ledger'[p].recyclingTx = ledger[p].recyclingTx
        /\ ledger'[p].kind = ledger[p].kind
    BY <2>1 DEF Chaincode!Products
  <2>3. QED BY <2>1, <2>2 DEF ProductMoves
<1>9. QED BY <1>3, <1>4, <1>5, <1>6, <1>7, <1>8 DEF Members

LEMMA SubmitProducts ==
  ASSUME LedgersInv, NEW a \in Asked, NEW hash, AckReady(a, hash),
         Submit(a, hash), NEW p \in ProductIds, Fabric!IsProduct(p)'
  PROVE  ProductMoves(p)
<1> /\ ledger \in [Keys -> Chaincode!Records \cup {Null}] /\ p \in Keys
    /\ p \notin BatchIds /\ p \notin RequestIds
    /\ BatchIds \subseteq Keys /\ RequestIds \subseteq Keys /\ ProductIds \subseteq Keys
  BY BridgeAssumption DEF LedgersInv, Chaincode!CottonInv, Chaincode!TypeOK, Keys
<1>1. CASE ledger'[p] = ledger[p]
  BY <1>1 DEF ProductMoves, Fabric!IsProduct, Fabric!Has, Fabric!Exists
<1>2. Fabric!IsProduct(p) => ledger[p] \in Chaincode!Products
  BY SameRecords, ComponentsAssumption, Chaincode!KindsOfRecords
     DEF LedgersInv, Chaincode!CottonInv
<1>3. CASE a.type = "tokenization"
  <2> PICK r : r = Event(a).requestId
    OBVIOUS
  <2>1. r \in RequestIds /\ Fabric!CompleteTokenization(r, hash)
    BY <1>3, AskedKinds, EventFacts DEF Event, Submit
  <2>2. CASE UNCHANGED Fabric!vars
    BY <1>1, <2>2 DEF Fabric!vars
  <2>3. CASE Fabric!Completable(r)
    <3>1. Fabric!IsRequest(r) /\ Chaincode!IsRequest(r) /\ r \in Keys
      BY <2>1, <2>3, SameRecords DEF Fabric!Completable
    <3>2. ledger[r].batchId \in BatchIds
      <4>1. ledger[r].batchId \in Keys
        BY <3>1, ComponentsAssumption, SameRecords, Chaincode!KindsOfRecords
           DEF LedgersInv, Chaincode!CottonInv, Chaincode!Requests
      <4>2. Chaincode!IsBatch(ledger[r].batchId)
        BY <3>1 DEF LedgersInv, Chaincode!CottonInv, Chaincode!RequestsBacked
      <4>3. QED BY <4>1, <4>2, SameRecords DEF LedgersInv, KeysApart
    <3>3. p # r /\ p # ledger[r].batchId
      BY <2>1, <3>2
    <3>4. ledger'[p] = ledger[p]
      BY <2>1, <3>3 DEF Fabric!CompleteTokenization, Fabric!vars
    <3>5. QED BY <1>1, <3>4
  <2>4. QED BY <2>1, <2>2, <2>3 DEF Fabric!CompleteTokenization
<1>4. CASE a.type = "nftMinting"
  <2> PICK k : k = Event(a).productId
    OBVIOUS
  <2>1. k \in ProductIds /\ Fabric!MintNFT(k, fabricToTokenId[k])
    BY <1>4, AskedKinds, EventFacts DEF Event, Submit
  <2>2. CASE ledger' = ledger
    BY <1>1, <2>2
  <2>3. CASE /\ Fabric!AcceptsNFT(k)
             /\ Fabric!Put(k, [ledger[k] EXCEPT !.nftTokenId = fabricToTokenId[k],
                                                !.status = "TOKENIZED"])
    <3>1. CASE k # p
      BY <1>1, <2>3, <3>1 DEF Fabric!Put
    <3>2. CASE k = p
      <4>1. /\ ledger[p] \in Chaincode!Products /\ Fabric!IsProduct(p)
            /\ ledger'[p] = [ledger[p] EXCEPT !.nftTokenId = fabricToTokenId[p],
                                              !.status = "TOKENIZED"]
        BY <1>2, <2>3, <3>2 DEF Fabric!Put, Fabric!AcceptsNFT
      <4>2. /\ ledger'[p].nftTokenId = fabricToTokenId[p]
            /\ ledger'[p].recyclingTx = ledger[p].recyclingTx
            /\ ledger'[p].kind = ledger[p].kind
        BY <4>1 DEF Chaincode!Products
      <4>3. QED BY <4>1, <4>2 DEF ProductMoves
    <3>3. QED BY <3>1, <3>2
  <2>4. QED BY <2>1, <2>2, <2>3 DEF Fabric!MintNFT, Fabric!vars
<1>5. CASE a.type = "recycling"
  <2> PICK k : k = productData[a.ref].fabricProductId
    OBVIOUS
  <2>1. k \in ProductIds /\ Fabric!RecordRecycling(k, a.ref, hash)
    BY <1>5, AskedKinds, TokenFacts DEF Submit
  <2>2. PICK i \in DOMAIN recycledLog : hash = RecyclingTx(i) /\ recycledLog[i].tokenId = a.ref
    BY <1>5 DEF AckReady
  <2>3. CASE ledger' = ledger
    BY <1>1, <2>3
  <2>4. CASE Fabric!Put(k, [ledger[k] EXCEPT !.status = "RECYCLING_INITIATED",
                                             !.recyclingTx = hash])
    <3>1. CASE k # p
      BY <1>1, <2>4, <3>1 DEF Fabric!Put
    <3>2. CASE k = p
      <4>1. /\ ledger[p] \in Chaincode!Products /\ Fabric!IsProduct(p)
            /\ ledger[p].nftTokenId = a.ref
            /\ ledger'[p] = [ledger[p] EXCEPT !.status = "RECYCLING_INITIATED",
                                              !.recyclingTx = hash]
        BY <1>2, <2>1, <2>4, <3>2 DEF Fabric!Put, Fabric!RecordRecycling
      <4>2. /\ ledger'[p].nftTokenId = ledger[p].nftTokenId
            /\ ledger'[p].recyclingTx = hash
        BY <4>1 DEF Chaincode!Products
      <4>3. QED BY <2>2, <4>1, <4>2 DEF ProductMoves
    <3>3. QED BY <3>1, <3>2
  <2>5. QED BY <2>1, <2>3, <2>4 DEF Fabric!RecordRecycling, Fabric!vars
<1>6. QED BY <1>3, <1>4, <1>5, AskedKinds

\* A key of a product that holds a product holds a whole product record.
ProductsAreWhole ==
  \A p \in ProductIds : Fabric!IsProduct(p) => ledger[p] \in Chaincode!Products

LEMMA ProductRecords == LedgersInv => ProductsAreWhole
<1> SUFFICES ASSUME LedgersInv, NEW p \in ProductIds
             PROVE  Fabric!IsProduct(p) => ledger[p] \in Chaincode!Products
  BY DEF ProductsAreWhole
<1>1. p \in Keys
  BY DEF Keys
<1>2. QED
  BY <1>1, SameRecords, ComponentsAssumption, Chaincode!KindsOfRecords
     DEF LedgersInv, Chaincode!CottonInv

LEMMA ProductRecordsAfterStep == LedgersInv' => ProductsAreWhole'
BY ProductRecords, PTL

\* Every step keeps tokens asked for and products' tokens known.
LEMMA NextProducts == BridgeInv /\ ProductsInv /\ [Next]_vars => ProductsInv'
<1> SUFFICES ASSUME BridgeInv, ProductsInv, [Next]_vars PROVE ProductsInv'
  OBVIOUS
<1>1. LedgerStays /\ Tokens!TokensStay /\ LedgersInv /\ LedgersInv'
  BY StepKeepsLedger, StepKeepsNFTs, NextLedgers DEF BridgeInv
<1>2. Mintings \subseteq Mintings' /\ \A i \in Mintings : events'[i] = events[i]
  BY <1>1 DEF LedgerStays, Mintings
<1>3. TokensAsked'
  <2>1. ASSUME NEW id \in 1 .. tokenIdCounter
        PROVE  \E i \in Mintings' : TokenFits(id, i)'
    <3>1. PICK i \in Mintings : TokenFits(id, i)
      BY DEF ProductsInv, TokensAsked
    <3>2. /\ productData'[id].fabricProductId = productData[id].fabricProductId
          /\ productData'[id].terms = productData[id].terms
          /\ transferLog'[id] = transferLog[id]
      BY <1>1 DEF Tokens!TokensStay
    <3>3. i \in Mintings' /\ TokenFits(id, i)'
      BY <1>2, <3>1, <3>2 DEF TokenFits
    <3>4. QED BY <3>3
  <2>2. CASE tokenIdCounter' = tokenIdCounter
    BY <2>1, <2>2 DEF TokensAsked
  <2>3. ASSUME NEW t, NEW a, MintedBy(t, a), a.type = "nftMinting",
               NEW n, n = tokenIdCounter + 1, Sendable(a)
        PROVE  TokensAsked'
    <3> PICK i : i = a.ref
      OBVIOUS
    <3> DEFINE data == [fabricProductId |-> events[i].productId, terms |-> events[i].terms,
                        recycled |-> FALSE]
    <3>1. i \in Mintings /\ events[i].complete /\ events' = events
      BY <2>3, AskedKinds DEF MintedBy, Sendable, Event, fabricVars
    <3>2. tokenIdCounter \in Nat /\ n \in Tokens!TokenIds
          /\ productData \in [Tokens!TokenIds -> Tokens!ProductData \cup {Null}]
      <4>1. tokenIdCounter < MaxTokens
        BY <2>3 DEF MintedBy, Mint, NFT!MintProduct
      <4>2. QED BY <1>1, <2>3, <4>1, TokenFacts, BridgeAssumption
              DEF Tokens!TokenIds, LedgersInv, Tokens!TokensInv, Tokens!TypeOK
    <3> DEFINE entry == [to |-> events[i].terms.recipient, tokenId |-> n]
    <3>3. /\ tokenIdCounter' = n /\ productData' = [productData EXCEPT ![n] = data]
          /\ transferLog' = Append(transferLog, entry)
      BY <2>3 DEF MintedBy, Mint, NFT!MintProduct, NFT!NewTokenId, Event
    <3>4. productData'[n].fabricProductId = events[i].productId
          /\ productData'[n].terms = events[i].terms
      BY <3>2, <3>3
    <3>7. transferLog'[n] = entry
      <4>1. /\ transferLog \in Seq([to : Users, tokenId : Tokens!TokenIds])
            /\ Len(transferLog) = tokenIdCounter
        BY <1>1 DEF LedgersInv, Tokens!TokensInv, Tokens!TypeOK, Tokens!TokensNumbered
      <4>2. entry \in [to : Users, tokenId : Tokens!TokenIds]
        BY <1>1, <3>1, <3>2, EventFacts DEF MintTerms
      <4> HIDE DEF entry
      <4>3. QED BY <2>3, <3>3, <4>1, <4>2, AppendProperties
    <3>5. \A id \in 1 .. n : id = n \/ id \in 1 .. tokenIdCounter
      BY <2>3, <3>2
    <3>6. TokenFits(n, i)'
      BY <3>1, <3>4, <3>7 DEF TokenFits
    <3>8. QED BY <2>1, <3>1, <3>3, <3>5, <3>6, <1>2 DEF TokensAsked
  <2>4. ASSUME NEW t, NEW a, MintedBy(t, a) PROVE TokensAsked'
    <3>1. Sendable(a)
      BY <2>4, SendFacts DEF MintedBy, BridgeInv
    <3>2. CASE a.type = "tokenization"
      BY <2>2, <2>4, <3>2 DEF MintedBy, Mint, nftVars
    <3>3. QED BY <2>3, <2>4, <3>1, <3>2 DEF Sendable
  <2>5. QED BY <2>2, <2>4, MintsMove DEF NoMint
<1>4. ASSUME NEW p \in ProductIds, Fabric!IsProduct(p)', ProductMoves(p)
      PROVE  TokenKnown(p)'
  <2> PICK token : token = fabricToTokenId[p]
    OBVIOUS
  <2> PICK r : r = ledger'[p]
    OBVIOUS
  <2>1. /\ token # 0 => fabricToTokenId'[p] = token
        /\ \A i \in DOMAIN recycledLog :
             i \in DOMAIN recycledLog' /\ recycledLog'[i] = recycledLog[i]
    BY <1>1 DEF Tokens!TokensStay
  <2>2. 0 \notin NftIds /\ Null \notin NftIds
    BY BridgeAssumption, ComponentsAssumption DEF NftIds, Fabric!ChaincodeAssumption
  <2>3. r.nftTokenId \in NftIds \cup {Null}
    <3>1. ProductsAreWhole'
      BY <1>1, ProductRecordsAfterStep
    <3>2. ledger'[p] \in Chaincode!Products
      BY <1>4, <3>1 DEF ProductsAreWhole, Chaincode!Products
    <3>3. QED BY <3>2 DEF Chaincode!Products
  <2>4. \A i \in DOMAIN recycledLog : recycledLog[i].tokenId \in NftIds
    BY <1>1, TokenFacts, BridgeAssumption DEF NftIds
  <2>5. TokenKnown(p)
    BY DEF ProductsInv
  <2>6. CASE r.nftTokenId = Null /\ r.recyclingTx = Null
    BY <2>6 DEF TokenKnown
  <2>7. CASE /\ Fabric!IsProduct(p)
             /\ r.nftTokenId \in {ledger[p].nftTokenId, token}
             /\ r.recyclingTx = ledger[p].recyclingTx /\ r.kind = ledger[p].kind
    <3>1. r.nftTokenId # Null => r.nftTokenId = fabricToTokenId'[p]
      BY <2>1, <2>2, <2>3, <2>5, <2>7 DEF TokenKnown
    <3>2. r.kind = "manufactured" /\ r.recyclingTx # Null =>
            \E i \in DOMAIN recycledLog' : /\ r.recyclingTx = RecyclingTx(i)
                                           /\ recycledLog'[i].tokenId = fabricToTokenId'[p]
      BY <2>1, <2>2, <2>4, <2>5, <2>7 DEF TokenKnown
    <3>3. QED BY <3>1, <3>2 DEF TokenKnown, RecyclingTx
  <2>8. CASE /\ Fabric!IsProduct(p)
             /\ r.nftTokenId = ledger[p].nftTokenId
             /\ \E i \in DOMAIN recycledLog : /\ r.recyclingTx = RecyclingTx(i)
                                              /\ recycledLog[i].tokenId = r.nftTokenId
    <3>1. r.nftTokenId # Null /\ r.nftTokenId = fabricToTokenId'[p]
      BY <2>1, <2>2, <2>4, <2>5, <2>8 DEF TokenKnown
    <3>2. \E i \in DOMAIN recycledLog' : /\ r.recyclingTx = RecyclingTx(i)
                                         /\ recycledLog'[i].tokenId = fabricToTokenId'[p]
      BY <2>1, <2>8, <3>1
    <3>3. QED BY <3>1, <3>2 DEF TokenKnown, RecyclingTx
  <2>9. CASE /\ Fabric!IsProduct(p) /\ r.kind # "manufactured"
             /\ r.nftTokenId = ledger[p].nftTokenId
    <3>1. r.nftTokenId # Null => r.nftTokenId = fabricToTokenId'[p]
      BY <2>1, <2>2, <2>3, <2>5, <2>9 DEF TokenKnown
    <3>2. QED BY <2>9, <3>1 DEF TokenKnown
  <2>10. QED BY <1>4, <2>6, <2>7, <2>8, <2>9 DEF ProductMoves
<1>5. ASSUME NEW p \in ProductIds, Fabric!IsProduct(p)' PROVE ProductMoves(p)
  <2>1. CASE UNCHANGED fabricVars
    BY <1>5, <2>1 DEF fabricVars, ProductMoves, Fabric!IsProduct, Fabric!Has, Fabric!Exists
  <2>2. CASE Acknowledge
    <3>1. step = "ack" /\ Action \in Asked /\ AckReady(Action, receipt)
      BY <2>2, HeadFacts DEF Acknowledge, BridgeInv, HeadInv
    <3>2. QED BY <1>1, <1>5, <2>1, <2>2, <3>1, SubmitProducts DEF Acknowledge
  <2>3. ASSUME NEW u \in unanswered, CommitUnanswered(u) PROVE ProductMoves(p)
    <3>1. u.action \in Asked /\ AckReady(u.action, u.hash)
      BY DEF BridgeInv, UnansweredInv
    <3>2. QED BY <1>1, <1>5, <2>3, <3>1, SubmitProducts DEF CommitUnanswered
  <2>4. QED BY <1>1, <1>5, <2>1, <2>2, <2>3, MembersProducts, Frames
<1>6. ASSUME NEW p \in ProductIds PROVE TokenKnown(p)'
  BY <1>4, <1>5 DEF TokenKnown
<1>7. QED BY <1>3, <1>6 DEF ProductsInv

LEMMA InitProducts == Init => ProductsInv
<1> SUFFICES ASSUME Init PROVE ProductsInv
  OBVIOUS
<1>1. tokenIdCounter = 0 /\ \A p \in ProductIds : ledger[p] = Null
  BY DEF Init, NFT!Init, Fabric!Init
<1>2. QED BY <1>1 DEF ProductsInv, TokensAsked, TokenKnown, Fabric!IsProduct, Fabric!Has,
                      Fabric!Exists

LEMMA ProductsInvariant == Spec => [](BridgeInv /\ ProductsInv)
BY InitBridge, InitProducts, NextBridge, NextProducts, PTL DEF Spec

\* The token of a product is one it asked for, it is the only one that Fabric
\* shows of it, and what Fabric shows as recycled was recycled on Ethereum.
THEOREM ProductsAndTokensAgree == Spec => []ProductsMatchTokens
<1>1. BridgeInv /\ ProductsInv => ProductsMatchTokens
  <2> SUFFICES ASSUME BridgeInv, ProductsInv PROVE ProductsMatchTokens
    OBVIOUS
  <2>1. ASSUME NEW id \in 1 .. tokenIdCounter, NEW p, p = productData[id].fabricProductId
        PROVE  /\ Fabric!Has(p, {"manufactured"}) /\ ledger[p].status # "FINISHED"
               /\ ledger[p].nftTokenId \in {Null, id}
    <3>1. PICK i \in Mintings : events[i].complete /\ events[i].productId = p
      BY <2>1 DEF ProductsInv, TokensAsked, TokenFits
    <3>2. /\ p \in ProductIds /\ Fabric!Has(p, {"manufactured"})
          /\ ledger[p].status # "FINISHED"
      BY <3>1, AskedProducts DEF BridgeInv
    <3>3. fabricToTokenId[p] = id
      <4>1. tokenIdCounter \in 0 .. MaxTokens /\ MaxTokens \in Nat
        BY TokenFacts, BridgeAssumption DEF BridgeInv
      <4>2. id \in Tokens!TokenIds /\ id <= tokenIdCounter
        BY <4>1 DEF Tokens!TokenIds
      <4>3. Tokens!Minted(id)
        BY <4>2 DEF BridgeInv, LedgersInv, Tokens!TokensInv, Tokens!TokensNumbered
      <4>4. QED BY <2>1, <4>2, <4>3 DEF BridgeInv, LedgersInv, Tokens!TokensInv,
                                        Tokens!OneTokenPerProduct
    <3>4. Fabric!IsProduct(p)
      BY <3>2 DEF Fabric!IsProduct, Fabric!Has
    <3>5. QED BY <3>2, <3>3, <3>4 DEF ProductsInv, TokenKnown
  <2>2. QED BY <2>1 DEF ProductsMatchTokens, ProductsInv, TokenKnown
<1>2. QED BY <1>1, ProductsInvariant, PTL

-----------------------------------------------------------------------------
(* Requests: approved, minted for, completed                               *)

\* What a step does to a request: nothing, or one move of its life; it is
\* completed with the hash of a transaction that minted for it.
RequestMoves(r) ==
  LET q == ledger'[r]
  IN  \/ /\ ~Fabric!Exists(r) /\ Fabric!IsRequest(r)'
         /\ q.status = "PENDING" /\ q.ethTx = Null
      \/ /\ Fabric!IsRequest(r) /\ Fabric!IsRequest(r)'
         /\ ledger[r].status = "PENDING" /\ q.status = "APPROVED"
         /\ q.ethTx = ledger[r].ethTx
      \/ /\ Fabric!IsRequest(r) /\ Fabric!IsRequest(r)'
         /\ ledger[r].status = "APPROVED" /\ q.status = "COMPLETED"
         /\ \E i \in Approvals : /\ events[i].requestId = r
                                 /\ q.ethTx \in MintsOf(Tokenization(i))

RequestsKept == \A r \in RequestIds : ledger'[r] = ledger[r]

\* At most one request makes a move.
RequestsMove ==
  \/ RequestsKept
  \/ \E r \in RequestIds : /\ RequestMoves(r)
                           /\ \A o \in RequestIds \ {r} : ledger'[o] = ledger[o]

LEMMA MembersRequests ==
  ASSUME LedgersInv, Members
  PROVE  RequestsMove
<1> /\ ledger \in [Keys -> Chaincode!Records \cup {Null}]
    /\ BatchIds \cap RequestIds = {} /\ ProductIds \cap RequestIds = {}
    /\ BatchIds \subseteq Keys /\ RequestIds \subseteq Keys /\ ProductIds \subseteq Keys
  BY BridgeAssumption DEF LedgersInv, Chaincode!CottonInv, Chaincode!TypeOK, Keys
<1> USE DEF Fabric!Put
<1>1. /\ \A b \in BatchIds, q \in 1 .. MaxKg : Fabric!RegisterCottonBatch(b, q) => RequestsKept
      /\ \A b \in BatchIds, w \in Warehouses : Fabric!StoreCottonBatch(b, w) => RequestsKept
      /\ \A b \in BatchIds, c \in Certs : Fabric!VerifyCottonBatch(b, c) => RequestsKept
  <2>1. \A b \in BatchIds, q \in 1 .. MaxKg : Fabric!RegisterCottonBatch(b, q) => RequestsKept
    BY DEF Fabric!RegisterCottonBatch, RequestsKept
  <2>2. \A b \in BatchIds, w \in Warehouses : Fabric!StoreCottonBatch(b, w) => RequestsKept
    BY DEF Fabric!StoreCottonBatch, RequestsKept
  <2>3. \A b \in BatchIds, c \in Certs : Fabric!VerifyCottonBatch(b, c) => RequestsKept
    BY DEF Fabric!VerifyCottonBatch, RequestsKept
  <2>4. QED BY <2>1, <2>2, <2>3
<1>2. ASSUME NEW r \in RequestIds, NEW b \in BatchIds, NEW q \in 1 .. MaxKg,
             NEW w \in Warehouses, Fabric!RequestTokenization(r, b, q, w)
      PROVE  RequestsMove
  <2>1. Chaincode!RequestTokenization(r, b, q, w)
    BY <1>2 DEF Fabric!RequestTokenization, Fabric!OpenForRequest, Fabric!Vacant,
                Fabric!IsBatch, Fabric!Has, Fabric!Exists, Chaincode!RequestTokenization,
                Chaincode!OpenForRequest, Chaincode!Vacant, Chaincode!IsBatch, Chaincode!Has,
                Chaincode!Exists
  <2>2. Chaincode!Pledged(r, b, q, w)
    BY <2>1, SameRecords, ComponentsAssumption, Chaincode!RequestEffect
       DEF LedgersInv, Chaincode!CottonInv
  <2>3. /\ ~Fabric!Exists(r) /\ Fabric!IsRequest(r)'
        /\ ledger'[r].status = "PENDING" /\ ledger'[r].ethTx = Null
    BY <2>2 DEF Chaincode!Pledged, Chaincode!IsRequest, Chaincode!Has, Chaincode!Exists,
                Fabric!IsRequest, Fabric!Has, Fabric!Exists
  <2>4. \A o \in RequestIds \ {r} : ledger'[o] = ledger[o]
    BY <2>2 DEF Chaincode!Pledged, Chaincode!OnlyWrites
  <2>5. QED BY <2>3, <2>4 DEF RequestMoves, RequestsMove
<1>3. ASSUME NEW r \in RequestIds, Fabric!ApproveTokenizationRequest(r)
      PROVE  RequestsMove
  <2>1. Chaincode!ApproveTokenizationRequest(r)
    BY <1>3 DEF Fabric!ApproveTokenizationRequest, Fabric!Approvable, Fabric!Emit,
                Fabric!IsRequest, Fabric!Has, Fabric!Exists,
                Chaincode!ApproveTokenizationRequest, Chaincode!Approvable, Chaincode!Put,
                Chaincode!Emit, Chaincode!IsRequest, Chaincode!Has, Chaincode!Exists
  <2>2. Chaincode!Approves(r)
    BY <2>1, SameRecords, ComponentsAssumption, Chaincode!ApproveEffect
       DEF LedgersInv, Chaincode!CottonInv
  <2>3. /\ Fabric!IsRequest(r) /\ Fabric!IsRequest(r)'
        /\ ledger[r].status = "PENDING" /\ ledger'[r].status = "APPROVED"
        /\ ledger'[r].ethTx = ledger[r].ethTx
    BY <2>2 DEF Chaincode!Approves, Chaincode!IsRequest, Chaincode!Has, Chaincode!Exists,
                Fabric!IsRequest, Fabric!Has, Fabric!Exists
  <2>4. \A o \in RequestIds \ {r} : ledger'[o] = ledger[o]
    BY <2>2 DEF Chaincode!Approves, Chaincode!OnlyWrites
  <2>5. QED BY <2>3, <2>4 DEF RequestMoves, RequestsMove
<1>4. ASSUME NEW p \in ProductIds,
             \/ Fabric!CreateFinishedProduct(p, BatchIds)
             \/ Fabric!RegisterProduct(p, Farm)
             \/ \E u \in MemberUpdates : Fabric!UpdateStatus(p, u.status, u.recyclingTx)
             \/ \E t \in MintTerms : Fabric!RequestNFTMinting(p, t)
      PROVE  RequestsKept
  <2>1. \A r \in RequestIds : r # p
    OBVIOUS
  <2>2. QED
    BY <1>4, <2>1 DEF Fabric!CreateFinishedProduct, Fabric!RegisterProduct, Fabric!UpdateStatus,
                      Fabric!RequestNFTMinting, Fabric!Put, RequestsKept
<1>5. QED BY <1>1, <1>2, <1>3, <1>4 DEF Members, RequestsMove

\* A request is completed, or it was before with the same receipt.
Completes(r, hash) ==
  /\ Fabric!IsRequest(r) /\ Fabric!IsRequest(r)'
  /\ ledger[r].status = "APPROVED" /\ ledger'[r].status = "COMPLETED"
  /\ ledger'[r].ethTx = hash
  /\ \A o \in RequestIds \ {r} : ledger'[o] = ledger[o]

LEMMA CompletionStep ==
  ASSUME LedgersInv, NEW r \in RequestIds, NEW hash \in EthTxs,
         Fabric!CompleteTokenization(r, hash)
  PROVE  RequestsKept \/ Completes(r, hash)
<1>1. Chaincode!CompleteTokenization(r, hash)
  BY DEF Fabric!CompleteTokenization, Fabric!AlreadyCompleted, Fabric!Completable,
         Fabric!IsRequest, Fabric!Has, Fabric!Exists, Fabric!vars,
         Chaincode!CompleteTokenization, Chaincode!AlreadyCompleted,
         Chaincode!Completable, Chaincode!IsRequest, Chaincode!Has, Chaincode!Exists,
         Chaincode!vars
<1>2. CASE UNCHANGED Chaincode!vars
  BY <1>2 DEF Chaincode!vars, RequestsKept
<1>3. CASE ~UNCHANGED Chaincode!vars
  <2>1. r \in Keys
    BY DEF Keys
  <2>2. Chaincode!Completes(r, ledger[r].batchId, hash)
    BY <1>1, <1>3, <2>1, SameRecords, ComponentsAssumption, Chaincode!CompleteEffect
       DEF LedgersInv, Chaincode!CottonInv
  <2>3. \E b \in Keys \ {r} : Chaincode!IsBatch(b) /\ Chaincode!OnlyWrites({r, b})
    BY <2>2 DEF Chaincode!Completes
  <2>4. PICK b \in Keys \ {r} : Chaincode!IsBatch(b) /\ Chaincode!OnlyWrites({r, b})
    BY <2>3
  <2>5. b \in BatchIds
    BY <2>4, SameRecords DEF LedgersInv, KeysApart
  <2>6. \A o \in RequestIds \ {r} : ledger'[o] = ledger[o]
    <3>1. \A o \in RequestIds \ {r} : o \in Keys \ {r, b}
      BY <2>5, BridgeAssumption DEF Keys
    <3>2. QED BY <2>4, <3>1 DEF Chaincode!OnlyWrites
  <2>7. /\ Chaincode!IsRequest(r) /\ Chaincode!IsRequest(r)'
        /\ ledger[r].status = "APPROVED" /\ ledger'[r].status = "COMPLETED"
        /\ ledger'[r].ethTx = hash
    BY <2>2 DEF Chaincode!Completes
  <2>8. Fabric!IsRequest(r) /\ Fabric!IsRequest(r)'
    BY <2>7 DEF Chaincode!IsRequest, Chaincode!Has, Chaincode!Exists, Fabric!IsRequest,
                Fabric!Has, Fabric!Exists
  <2>9. QED BY <2>6, <2>7, <2>8 DEF Completes
<1>4. QED BY <1>2, <1>3

LEMMA SubmitRequests ==
  ASSUME LedgersInv, WalletInv, NEW a \in Asked, NEW hash, AckReady(a, hash), Submit(a, hash)
  PROVE  RequestsMove
<1> /\ ledger \in [Keys -> Chaincode!Records \cup {Null}]
    /\ RequestIds \subseteq Keys /\ ProductIds \cap RequestIds = {}
  BY BridgeAssumption DEF LedgersInv, Chaincode!CottonInv, Chaincode!TypeOK, Keys
<1>1. CASE a.type = "tokenization"
  <2>1. /\ a.ref \in Approvals /\ a = Tokenization(a.ref) /\ hash \in MintsOf(a)
        /\ events[a.ref].requestId \in RequestIds
        /\ Fabric!CompleteTokenization(events[a.ref].requestId, hash)
    BY <1>1, AskedKinds, EventFacts DEF Event, Submit, AckReady, MintsOf
  <2>2. PICK i \in Approvals : i = a.ref /\ hash \in MintsOf(Tokenization(i))
    BY <2>1
  <2>3. PICK r \in RequestIds : r = events[i].requestId
    BY <2>1, <2>2
  <2>4. hash \in EthTxs
    BY <1>1, TokenFacts, LenProperties, BridgeAssumption DEF AckReady, WalletInv, EthTxs
  <2>5. RequestsKept \/ Completes(r, hash)
    BY <2>1, <2>2, <2>3, <2>4, CompletionStep
  <2>6. ASSUME Completes(r, hash) PROVE RequestMoves(r)
    BY <2>2, <2>3, <2>6 DEF Completes, RequestMoves
  <2>7. QED BY <2>5, <2>6 DEF RequestsMove, Completes
<1>2. CASE a.type = "nftMinting"
  <2> PICK p : p = Event(a).productId
    OBVIOUS
  <2>1. p \in ProductIds /\ Fabric!MintNFT(p, fabricToTokenId[p])
    BY <1>2, AskedKinds, EventFacts DEF Event, Submit
  <2>2. \A r \in RequestIds : r # p
    BY <2>1
  <2>3. RequestsKept
    BY <2>1, <2>2 DEF Fabric!MintNFT, Fabric!Put, Fabric!vars, RequestsKept
  <2>4. QED BY <2>3 DEF RequestsMove
<1>3. CASE a.type = "recycling"
  <2> PICK p : p = productData[a.ref].fabricProductId
    OBVIOUS
  <2>1. p \in ProductIds /\ Fabric!RecordRecycling(p, a.ref, hash)
    BY <1>3, AskedKinds, TokenFacts DEF Submit
  <2>2. \A r \in RequestIds : r # p
    BY <2>1
  <2>3. RequestsKept
    BY <2>1, <2>2 DEF Fabric!RecordRecycling, Fabric!Put, Fabric!vars, RequestsKept
  <2>4. QED BY <2>3 DEF RequestsMove
<1>4. QED BY <1>1, <1>2, <1>3, AskedKinds

LEMMA NextRequests ==
  ASSUME BridgeInv, [Next]_vars
  PROVE  /\ RequestsMove
         /\ RequestsKept \/ UNCHANGED <<txs, nftVars>>
<1>1. CASE UNCHANGED fabricVars
  BY <1>1 DEF fabricVars, RequestsMove, RequestsKept
<1>2. CASE Members
  BY <1>2, MembersRequests DEF BridgeInv, Members, walletVars
<1>3. CASE Acknowledge
  <2>1. step = "ack" /\ Action \in Asked /\ AckReady(Action, receipt)
    BY <1>3, HeadFacts DEF Acknowledge, BridgeInv, HeadInv
  <2>2. QED BY <1>1, <1>3, <2>1, SubmitRequests DEF Acknowledge, BridgeInv, walletVars
<1>4. ASSUME NEW u \in unanswered, CommitUnanswered(u)
      PROVE  RequestsMove /\ UNCHANGED <<txs, nftVars>>
  <2>1. u.action \in Asked /\ AckReady(u.action, u.hash)
    BY DEF BridgeInv, UnansweredInv
  <2>2. QED BY <1>4, <2>1, SubmitRequests DEF CommitUnanswered, BridgeInv, walletVars
<1>5. QED BY <1>1, <1>2, <1>3, <1>4, Frames

\* An announced approval is the only one of its request, which is approved.
LEMMA ApprovedRequest ==
  ASSUME LedgersInv, NEW i \in Approvals, NEW r, r = events[i].requestId
  PROVE  /\ r \in RequestIds /\ IsApproved(r)
         /\ \A j \in Approvals : events[j].requestId = r => j = i
<1>1. r \in RequestIds /\ r \in Keys
  BY EventFacts DEF Keys
<1>2. \A j \in Approvals : events[j].requestId = r => j \in Chaincode!ApprovalsOf(r)
  BY DEF Approvals, Chaincode!ApprovalsOf
<1>3. Chaincode!Approved(r) /\ \E n : Chaincode!ApprovalsOf(r) = {n}
  BY <1>1, <1>2 DEF LedgersInv, Chaincode!CottonInv, Chaincode!ApprovalsAnnounced
<1>4. IsApproved(r)
  <2>1. ledger[r] \in Chaincode!Requests /\ Fabric!IsRequest(r)
    BY <1>1, <1>3, SameRecords, ComponentsAssumption, Chaincode!KindsOfRecords
       DEF Chaincode!Approved, LedgersInv, Chaincode!CottonInv
  <2>2. ledger[r].status \in {"PENDING", "APPROVED", "COMPLETED"}
    BY <2>1 DEF Chaincode!Requests
  <2>3. QED BY <1>3, <2>1, <2>2 DEF Chaincode!Approved, IsApproved
<1>5. QED BY <1>1, <1>2, <1>3, <1>4

\* A completed request names a transaction that minted for it.
CompletionsInv ==
  \A r \in RequestIds : Completed(r) =>
    \E i \in Approvals : /\ events[i].requestId = r
                         /\ ledger[r].ethTx \in MintsOf(Tokenization(i))

LEMMA InitCompletions == Init => CompletionsInv
BY DEF Init, Fabric!Init, CompletionsInv, Completed, Fabric!IsRequest, Fabric!Has, Fabric!Exists

LEMMA NextCompletions == BridgeInv /\ CompletionsInv /\ [Next]_vars => CompletionsInv'
<1> SUFFICES ASSUME BridgeInv, CompletionsInv, [Next]_vars, NEW r \in RequestIds, Completed(r)'
             PROVE  \E i \in Approvals' : /\ events'[i].requestId = r
                                          /\ ledger'[r].ethTx \in MintsOf(Tokenization(i))'
  BY DEF CompletionsInv
<1>1. \A i \in Approvals : i \in Approvals' /\ events'[i] = events[i]
  BY StepKeepsLedger DEF LedgerStays, Approvals
<1>2. \A i : MintsOf(Tokenization(i)) \subseteq MintsOf(Tokenization(i))'
  BY StepKeepsSends DEF SendsStay, MintsOf
<1>3. \E i \in Approvals : /\ events[i].requestId = r
                           /\ ledger'[r].ethTx \in MintsOf(Tokenization(i))
  <2>1. CASE ledger'[r] = ledger[r]
    <3>1. Completed(r)
      BY <2>1 DEF Completed, Fabric!IsRequest, Fabric!Has, Fabric!Exists
    <3>2. QED BY <2>1, <3>1 DEF CompletionsInv
  <2>2. CASE RequestMoves(r)
    <3>1. ledger'[r].status = "COMPLETED"
      BY DEF Completed
    <3>2. QED BY <2>2, <3>1 DEF RequestMoves
  <2>3. QED BY <2>1, <2>2, NextRequests DEF RequestsMove, RequestsKept
<1>4. QED BY <1>1, <1>2, <1>3

\* What AcknowledgmentsAccepted says of one acknowledgment.
Sound(a, hash) ==
  \/ /\ a.type = "tokenization"
     /\ MintsOf(a) = {hash}
     /\ Accepted(a, hash)
  \/ /\ a.type = "nftMinting"
     /\ LET id == fabricToTokenId[Event(a).productId]
        IN  /\ id # 0
            /\ productData[id].terms = Event(a).terms
            /\ {i \in DOMAIN transferLog :
                  transferLog[i] = [to |-> Event(a).terms.recipient, tokenId |-> id]} = {id}
     /\ Accepted(a, hash)
  \/ /\ a.type = "recycling"
     /\ productData[a.ref].recycled
     /\ {i \in DOMAIN recycledLog : recycledLog[i].tokenId = a.ref} = {hash - MaxSends}

\* The mint of a request is the only one, and the request takes its hash.
LEMMA TokenizationSound ==
  ASSUME BridgeInv, MintsInv, CompletionsInv, NEW a \in Asked, NEW hash,
         AckReady(a, hash), a.type = "tokenization"
  PROVE  Sound(a, hash)
<1>1. a.ref \in Approvals /\ a = Tokenization(a.ref) /\ hash \in MintsOf(a)
  BY AskedKinds DEF AckReady, MintsOf
<1>2. MintsOf(a) = {hash}
  BY <1>1 DEF MintsInv, MintsOf
<1>3. PICK r \in RequestIds :
        /\ r = events[a.ref].requestId /\ IsApproved(r)
        /\ \A j \in Approvals : events[j].requestId = r => j = a.ref
  BY <1>1, ApprovedRequest DEF BridgeInv
<1>4. Accepted(a, hash)
  <2>1. CASE ledger[r].status = "APPROVED"
    BY <1>3, <2>1 DEF IsApproved, Accepted, Event, Fabric!Completable
  <2>2. CASE ledger[r].status = "COMPLETED"
    <3>1. Completed(r) /\ Fabric!IsRequest(r)
      BY <1>3, <2>2 DEF IsApproved, Completed
    <3>2. ledger[r].ethTx = hash
      BY <1>1, <1>2, <1>3, <3>1 DEF CompletionsInv
    <3>3. Fabric!AlreadyCompleted(r, hash)
      BY <2>2, <3>1, <3>2 DEF Fabric!AlreadyCompleted
    <3>4. QED BY <1>3, <3>3 DEF Accepted, Event
  <2>3. QED BY <1>3, <2>1, <2>2 DEF IsApproved
<1>5. QED BY <1>2, <1>4 DEF Sound

\* The token of a product has the terms that its one request asked for, and the
\* product takes its id.
LEMMA MintingSound ==
  ASSUME BridgeInv, ProductsInv, NEW a \in Asked, NEW hash, AckReady(a, hash),
         a.type = "nftMinting"
  PROVE  Sound(a, hash)
<1>1. a.ref \in Mintings /\ events[a.ref].productId \in ProductIds
      /\ fabricToTokenId[events[a.ref].productId] # 0
  BY AskedKinds, EventFacts DEF AckReady, Event, BridgeInv
<1>2. PICK i, p, id : /\ i \in Mintings /\ i = a.ref
                      /\ p \in ProductIds /\ p = events[i].productId
                      /\ id = fabricToTokenId[p] /\ id # 0
  BY <1>1
<1>3. /\ Tokens!TokensInv /\ id \in 1 .. tokenIdCounter /\ tokenIdCounter \in Nat
      /\ productData[id].fabricProductId = p
      /\ Len(transferLog) = tokenIdCounter /\ transferLog \in Seq([to : Users, tokenId : Tokens!TokenIds])
      /\ \A k \in 1 .. tokenIdCounter : transferLog[k].tokenId = k
  <2>1. tokenIdCounter \in 0 .. MaxTokens /\ MaxTokens \in Nat /\ id \in 0 .. tokenIdCounter
    BY <1>2, TokenFacts, BridgeAssumption DEF BridgeInv
  <2>2. id \in 1 .. tokenIdCounter /\ tokenIdCounter \in Nat
    BY <1>2, <2>1
  <2>3. Tokens!TokensInv
    BY DEF BridgeInv, LedgersInv
  <2>4. QED BY <1>2, <2>2, <2>3 DEF Tokens!TokensInv, Tokens!OneTokenPerProduct,
                                    Tokens!TokensNumbered, Tokens!TypeOK
<1>4. PICK j \in Mintings : TokenFits(id, j)
  BY <1>3 DEF ProductsInv, TokensAsked
<1>5. /\ i = j /\ Fabric!Has(p, {"manufactured"}) /\ ledger[p].status # "FINISHED"
      /\ p \in Keys
  BY <1>2, <1>3, <1>4, AskedProducts DEF TokenFits, BridgeInv, Keys
<1>6. /\ productData[id].terms = events[i].terms
      /\ transferLog[id] = [to |-> events[i].terms.recipient, tokenId |-> id]
  BY <1>4, <1>5 DEF TokenFits
<1>7. {k \in DOMAIN transferLog :
         transferLog[k] = [to |-> events[i].terms.recipient, tokenId |-> id]} = {id}
  <2>1. DOMAIN transferLog = 1 .. tokenIdCounter
    BY <1>3, LenProperties
  <2>2. \A k \in DOMAIN transferLog :
          transferLog[k] = [to |-> events[i].terms.recipient, tokenId |-> id] => k = id
    BY <1>3, <2>1
  <2>3. QED BY <1>3, <1>6, <2>1, <2>2
<1>8. Accepted(a, hash)
  <2>1. Fabric!IsProduct(p) /\ Chaincode!IsManufactured(p) /\ Chaincode!IsProduct(p)
    BY <1>5, SameRecords DEF Fabric!IsProduct, Fabric!Has, Fabric!Exists, Chaincode!IsManufactured,
                Chaincode!Has, Chaincode!Exists
  <2>2. CASE ledger[p].nftTokenId # Null
    <3>1. ledger[p].nftTokenId = id
      BY <1>2, <2>1, <2>2 DEF ProductsInv, TokenKnown
    <3>2. QED BY <1>2, <3>1 DEF Accepted, Event
  <2>3. CASE ledger[p].nftTokenId = Null
    <3>1. ledger[p] \in Chaincode!Products
      BY <1>2, <2>1, ProductRecords DEF ProductsAreWhole, BridgeInv
    <3>2. ledger[p].status \in Chaincode!Statuses
      BY <3>1 DEF Chaincode!Products
    <3>3. ledger[p].status = "NFT_MINT_PENDING"
      BY <1>5, <2>1, <2>3, <3>2
         DEF Chaincode!Statuses, BridgeInv, LedgersInv, Chaincode!NFTInv, Chaincode!NFTStages
    <3>4. QED BY <1>2, <2>1, <2>3, <3>3 DEF Accepted, Event, Fabric!AcceptsNFT
  <2>4. QED BY <2>2, <2>3
<1>9. QED BY <1>2, <1>6, <1>7, <1>8 DEF Sound, Event

\* A recycled token has one ProductRecycled event.
LEMMA RecyclingSound ==
  ASSUME BridgeInv, NEW a \in Asked, NEW hash, AckReady(a, hash), a.type = "recycling"
  PROVE  Sound(a, hash)
<1>1. PICK i \in DOMAIN recycledLog : hash = RecyclingTx(i) /\ recycledLog[i].tokenId = a.ref
  BY DEF AckReady
<1>2. hash - MaxSends = i
  <2>1. i \in Nat /\ MaxSends \in Nat
    BY TokenFacts, BridgeAssumption DEF BridgeInv
  <2>2. QED BY <1>1, <2>1 DEF RecyclingTx
<1>3. a.ref \in Tokens!TokenIds /\ i \in Tokens!RecyclingsOf(a.ref)
  BY <1>1, AskedKinds, TokenFacts, BridgeAssumption
     DEF Tokens!TokenIds, Tokens!RecyclingsOf, BridgeInv
<1>4. productData[a.ref].recycled /\ Tokens!RecyclingsOf(a.ref) = {i}
  BY <1>3 DEF BridgeInv, LedgersInv, Tokens!TokensInv, Tokens!RecyclingsLogged
<1>5. QED BY <1>2, <1>4 DEF Sound, Tokens!RecyclingsOf

LEMMA SoundWhenReady ==
  ASSUME BridgeInv, MintsInv, ProductsInv, CompletionsInv, NEW a \in Asked, NEW hash,
         AckReady(a, hash)
  PROVE  Sound(a, hash)
BY AskedKinds, TokenizationSound, MintingSound, RecyclingSound

\* Everything that is shown of the bridge's reachable states.
AllInv == BridgeInv /\ MintsInv /\ ReservesInv /\ ProductsInv /\ CompletionsInv

LEMMA AllInvariant == Spec => []AllInv
<1>1. Init => AllInv
  BY InitBridge, InitMints, InitReserves, InitProducts, InitCompletions DEF AllInv
<1>2. AllInv /\ [Next]_vars => AllInv'
  BY NextBridge, NextMints, NextReserves, NextProducts, NextCompletions DEF AllInv
<1>3. QED BY <1>1, <1>2, PTL DEF Spec

\* What the bridge acknowledges on Fabric, or gave up acknowledging, is the one
\* confirmed mint of exactly that request, or the one recycling of that token, and
\* an acknowledgment of a mint is one the chaincode takes, whatever was lost,
\* repeated or delayed before.
THEOREM AcknowledgmentsAreAccepted == Spec => []AcknowledgmentsAccepted
<1>1. AllInv => AcknowledgmentsAccepted
  <2> SUFFICES ASSUME AllInv PROVE AcknowledgmentsAccepted
    OBVIOUS
  <2>1. step = "ack" => Sound(Action, receipt)
    <3> SUFFICES ASSUME step = "ack" PROVE Sound(Action, receipt)
      OBVIOUS
    <3>1. Action \in Asked /\ AckReady(Action, receipt)
      BY HeadFacts DEF AllInv, BridgeInv, HeadInv
    <3>2. QED BY <3>1, SoundWhenReady DEF AllInv
  <2>2. \A u \in unanswered : Sound(u.action, u.hash)
    <3> SUFFICES ASSUME NEW u \in unanswered PROVE Sound(u.action, u.hash)
      OBVIOUS
    <3>1. u.action \in Asked /\ AckReady(u.action, u.hash)
      BY DEF AllInv, BridgeInv, UnansweredInv
    <3>2. QED BY <3>1, SoundWhenReady DEF AllInv
  <2>3. QED BY <2>1, <2>2 DEF AcknowledgmentsAccepted, Sound
<1>2. QED BY <1>1, AllInvariant, PTL
=============================================================================
