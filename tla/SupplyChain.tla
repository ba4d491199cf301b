----------------------------- MODULE SupplyChain -----------------------------
(***************************************************************************)
(* The Fabric chaincode: one key space of JSON records, written by cotton  *)
(* batches, tokenization requests and products.  Each action is one        *)
(* committed transaction; Fabric commits a transaction against the state   *)
(* it was endorsed on or not at all, and a function that throws writes     *)
(* nothing.  Identities are left out: a function that asserts a role is    *)
(* called by a holder of the role.  "Variant" definitions are buggy forms  *)
(* of the definition that follows them and no part of the specification.   *)
(***************************************************************************)
EXTENDS Integers, Sequences, FiniteSets, SequencesExt

CONSTANTS
  Keys,         \* ledger keys that clients choose as ids
  Farm, Warehouses,
  MaxKg,        \* bound: quantities are 1 .. MaxKg
  Certs,        \* well-formed, non-zero certification hashes
  EthTxs,       \* well-formed Ethereum transaction hashes
  NftIds,       \* positive NFT token ids
  MintTerms,    \* recipient and metadata URI of an NFT request
  MaxEvents,    \* bound: chaincode events ever emitted
  Null

Holders == Warehouses \cup {Farm}

VARIABLES
  ledger,   \* the world state
  events    \* the committed chaincode events; its index stands for the tx id

vars == <<ledger, events>>

(* Records.  A request has a batchId like a batch, a product made by
   createFinishedProduct has batchIDs; a generic product has neither. *)
Batches == [kind : {"batch"}, status : {"HARVESTED", "STORED", "TOKENIZED"},
            rwaStatus : {"PRODUCED", "VERIFIED", "TOKENIZED"},
            quantity : 1 .. MaxKg, custody : Holders,
            certificationHash : Certs \cup {Null}, verificationTx : 0 .. MaxEvents,
            pending : Keys \cup {Null}, tokenizationId : EthTxs \cup {Null},
            tokenizedKg : 0 .. MaxKg]

Requests == [kind : {"request"}, batchId : Keys, quantity : 1 .. MaxKg,
             warehouse : Warehouses, status : {"PENDING", "APPROVED", "COMPLETED"},
             ethTx : EthTxs \cup {Null}]

\* updateStatus takes any string: these are the ones a product is tested for,
\* with REGISTERED for all the others.
Statuses == {"REGISTERED", "FINISHED", "NFT_MINT_PENDING", "TOKENIZED",
             "RECYCLING_INITIATED"}

Products == [kind : {"generic", "manufactured"}, status : Statuses,
             batchIDs : SUBSET Keys, holder : Holders, certified : BOOLEAN,
             nftTokenId : NftIds \cup {Null}, recyclingTx : EthTxs \cup {Null}]

Records == Batches \cup Requests \cup Products

\* Null, the absent record or field, is none of the values it stands in for.
ASSUME ChaincodeAssumption ==
  /\ MaxKg \in Nat /\ MaxEvents \in Nat
  /\ Farm \notin Warehouses
  /\ Null \notin Keys \cup Holders \cup Certs \cup EthTxs \cup NftIds
  /\ Null \notin Batches /\ Null \notin Requests /\ Null \notin Products

Exists(k) == ledger[k] # Null
Has(k, kinds) == Exists(k) /\ ledger[k].kind \in kinds
IsBatch(k) == Has(k, {"batch"})
IsRequest(k) == Has(k, {"request"})
IsProduct(k) == Has(k, {"generic", "manufactured"})

Put(k, record) == ledger' = [ledger EXCEPT ![k] = record]

Emit(event) ==
  /\ Len(events) < MaxEvents
  /\ events' = Append(events, event)

-----------------------------------------------------------------------------
(* Generic products                                                        *)

\* RECORD_ALREADY_EXISTS, and the same test of the other creating functions.
Vacant(k) == ~Exists(k)

RegisterProduct(k, origin) ==
  /\ Vacant(k)
  /\ Put(k, [kind |-> "generic", status |-> "REGISTERED", batchIDs |-> {},
             holder |-> origin, certified |-> FALSE, nftTokenId |-> Null,
             recyclingTx |-> Null])
  /\ UNCHANGED events

\* Whatever has a batchId (a batch, a request) answers USE_COTTON_STATE_MACHINE.
TransferCustody(k, newHolder) ==
  /\ IsProduct(k)
  /\ Put(k, [ledger[k] EXCEPT !.holder = newHolder])
  /\ UNCHANGED events

\* Variant: a product with lineage or an NFT is updated like any other.
UpdatableProduct(k) == IsProduct(k)

\* USE_PRODUCT_STATE_MACHINE: lineage or an NFT ends generic updates.
Updatable(k) ==
  /\ IsProduct(k)
  /\ ledger[k].kind # "manufactured"
  /\ ledger[k].nftTokenId = Null

\* The caller's metadata is merged into the record.  Of the fields of the model
\* the reserved list protects all but recyclingTx; Null: metadata without it.
UpdateStatus(k, newStatus, recyclingTx) ==
  /\ Updatable(k)
  /\ Put(k, [ledger[k] EXCEPT !.status = newStatus,
                !.recyclingTx = IF recyclingTx = Null THEN @ ELSE recyclingTx])
  /\ UNCHANGED events

AddCertification(k) ==
  /\ IsProduct(k)
  /\ Put(k, [ledger[k] EXCEPT !.certified = TRUE])
  /\ UNCHANGED events

-----------------------------------------------------------------------------
(* Cotton batches                                                          *)

\* Variant: the test for a positive quantity lets zero pass.
RegisterEmptyBatch(k, quantity) ==
  /\ Vacant(k)
  /\ Put(k, [kind |-> "batch", status |-> "HARVESTED", rwaStatus |-> "PRODUCED",
             quantity |-> quantity - 1, custody |-> Farm, certificationHash |-> Null,
             verificationTx |-> 0, pending |-> Null, tokenizationId |-> Null,
             tokenizedKg |-> 0])
  /\ UNCHANGED events

RegisterCottonBatch(k, quantity) ==
  /\ Vacant(k)
  /\ Put(k, [kind |-> "batch", status |-> "HARVESTED", rwaStatus |-> "PRODUCED",
             quantity |-> quantity, custody |-> Farm, certificationHash |-> Null,
             verificationTx |-> 0, pending |-> Null, tokenizationId |-> Null,
             tokenizedKg |-> 0])
  /\ UNCHANGED events

\* Variant: a stored batch can be verified again.
VerifiableAgain(k) == IsBatch(k) /\ ledger[k].status = "STORED"

\* BATCH_NOT_VERIFIABLE
Verifiable(k) ==
  /\ IsBatch(k)
  /\ ledger[k].status = "STORED"
  /\ ledger[k].rwaStatus = "PRODUCED"

VerifyCottonBatch(k, hash) ==
  /\ Verifiable(k)
  /\ Emit([name |-> "CottonBatchVerified", batchId |-> k])
  /\ Put(k, [ledger[k] EXCEPT !.certificationHash = hash,
                              !.verificationTx = Len(events'),
                              !.rwaStatus = "VERIFIED"])

StoreCottonBatch(k, warehouse) ==
  /\ IsBatch(k)
  /\ ledger[k].status = "HARVESTED"
  /\ Put(k, [ledger[k] EXCEPT !.status = "STORED", !.custody = warehouse])
  /\ UNCHANGED events

-----------------------------------------------------------------------------
(* Tokenization                                                            *)

\* Variant: a batch takes a second request while the first is pending.
OpenForRequestAgain(b, warehouse) ==
  /\ IsBatch(b)
  /\ ledger[b].status = "STORED"
  /\ ledger[b].rwaStatus = "VERIFIED"
  /\ ledger[b].custody = warehouse

\* Stored, verified, in the named warehouse, and without a request so far.
OpenForRequest(b, warehouse) ==
  /\ IsBatch(b)
  /\ ledger[b].status = "STORED"
  /\ ledger[b].rwaStatus = "VERIFIED"
  /\ ledger[b].certificationHash # Null
  /\ ledger[b].custody = warehouse
  /\ ledger[b].pending = Null
  /\ ledger[b].tokenizationId = Null

RequestTokenization(k, b, quantity, warehouse) ==
  /\ OpenForRequest(b, warehouse)
  /\ Vacant(k)
  /\ quantity <= ledger[b].quantity
  /\ ledger' = [ledger EXCEPT
       ![k] = [kind |-> "request", batchId |-> b, quantity |-> quantity,
               warehouse |-> warehouse, status |-> "PENDING", ethTx |-> Null],
       ![b].pending = k]
  /\ UNCHANGED events

\* TOKENIZATION_NOT_PENDING and VERIFIED_BACKING_REQUIRED
Approvable(k) ==
  /\ IsRequest(k)
  /\ ledger[k].status = "PENDING"
  /\ LET b == ledger[ledger[k].batchId]
     IN  b.rwaStatus = "VERIFIED" /\ b.pending = k

ApproveTokenizationRequest(k) ==
  /\ Approvable(k)
  /\ Put(k, [ledger[k] EXCEPT !.status = "APPROVED"])
  /\ Emit([name |-> "TokenizationRequested", requestId |-> k,
           batchId |-> ledger[k].batchId, quantity |-> ledger[k].quantity,
           warehouse |-> ledger[k].warehouse])

\* A repeated acknowledgment with the same receipt succeeds and writes nothing.
AlreadyCompleted(k, ethTx) ==
  /\ IsRequest(k)
  /\ ledger[k].status = "COMPLETED"
  /\ ledger[k].ethTx = ethTx

Completable(k) == IsRequest(k) /\ ledger[k].status = "APPROVED"

CompleteTokenization(k, ethTx) ==
  \/ AlreadyCompleted(k, ethTx) /\ UNCHANGED vars
  \/ /\ Completable(k)
     /\ ledger' = [ledger EXCEPT
          ![k] = [@ EXCEPT !.status = "COMPLETED", !.ethTx = ethTx],
          ![ledger[k].batchId] =
            [@ EXCEPT !.tokenizationId = ethTx, !.status = "TOKENIZED",
                      !.rwaStatus = "TOKENIZED", !.tokenizedKg = ledger[k].quantity]]
     /\ UNCHANGED events

-----------------------------------------------------------------------------
(* Finished products and their NFT                                         *)

CreateFinishedProduct(k, batchIds) ==
  /\ Vacant(k)
  /\ batchIds # {}
  /\ \A b \in batchIds : Exists(b)
  /\ Put(k, [kind |-> "manufactured", status |-> "FINISHED", batchIDs |-> batchIds,
             holder |-> Farm, certified |-> FALSE, nftTokenId |-> Null,
             recyclingTx |-> Null])
  /\ UNCHANGED events

RequestNFTMinting(k, terms) ==
  /\ IsProduct(k)
  /\ ledger[k].status = "FINISHED"
  /\ ledger[k].nftTokenId = Null
  /\ Put(k, [ledger[k] EXCEPT !.status = "NFT_MINT_PENDING"])
  /\ Emit([name |-> "NFTMintingRequested", productId |-> k, terms |-> terms,
           complete |-> ledger[k].kind = "manufactured"])

\* Variant: any acknowledgment of a pending or minted product is taken.
AcceptsAnyNFT(k) == IsProduct(k) /\ ledger[k].status \in {"NFT_MINT_PENDING", "TOKENIZED"}

\* NFT_ACKNOWLEDGMENT_MISMATCH
AcceptsNFT(k) ==
  /\ IsProduct(k)
  /\ ledger[k].nftTokenId = Null
  /\ ledger[k].status = "NFT_MINT_PENDING"

MintNFT(k, id) ==
  \/ IsProduct(k) /\ ledger[k].nftTokenId = id /\ UNCHANGED vars
  \/ /\ AcceptsNFT(k)
     /\ Put(k, [ledger[k] EXCEPT !.nftTokenId = id, !.status = "TOKENIZED"])
     /\ UNCHANGED events

\* INVALID_RECYCLING_TRANSITION
Recyclable(k) == ledger[k].status = "TOKENIZED" /\ ledger[k].recyclingTx = Null

RecordRecycling(k, id, ethTx) ==
  /\ IsProduct(k)
  /\ ledger[k].nftTokenId = id
  /\ \/ ledger[k].recyclingTx = ethTx /\ UNCHANGED vars
     \/ /\ Recyclable(k)
        /\ Put(k, [ledger[k] EXCEPT !.status = "RECYCLING_INITIATED",
                                    !.recyclingTx = ethTx])
        /\ UNCHANGED events

-----------------------------------------------------------------------------

Init == ledger = [k \in Keys |-> Null] /\ events = <<>>

\* Transactions of supply-chain members.
MemberNext ==
  \E k \in Keys :
    \/ \E h \in Holders : RegisterProduct(k, h) \/ TransferCustody(k, h)
    \/ \E s \in Statuses, tx \in EthTxs \cup {Null} : UpdateStatus(k, s, tx)
    \/ AddCertification(k)
    \/ \E q \in 1 .. MaxKg : RegisterCottonBatch(k, q)
    \/ \E c \in Certs : VerifyCottonBatch(k, c)
    \/ \E w \in Warehouses : StoreCottonBatch(k, w)
    \/ \E b \in Keys, q \in 1 .. MaxKg, w \in Warehouses :
         RequestTokenization(k, b, q, w)
    \/ ApproveTokenizationRequest(k)
    \/ \E bs \in SUBSET Keys : CreateFinishedProduct(k, bs)
    \/ \E t \in MintTerms : RequestNFTMinting(k, t)

\* Acknowledgments, which only the bridge's identity may send.
BridgeNext ==
  \E k \in Keys :
    \/ \E e \in EthTxs : CompleteTokenization(k, e)
    \/ \E id \in NftIds : MintNFT(k, id)
    \/ \E id \in NftIds, e \in EthTxs : RecordRecycling(k, id, e)

Next == MemberNext \/ BridgeNext

Spec == Init /\ [][Next]_vars

-----------------------------------------------------------------------------
(* Properties                                                              *)

Events ==
  [name : {"CottonBatchVerified"}, batchId : Keys]
    \cup [name : {"TokenizationRequested"}, requestId : Keys, batchId : Keys,
          quantity : 1 .. MaxKg, warehouse : Warehouses]
    \cup [name : {"NFTMintingRequested"}, productId : Keys, terms : MintTerms,
          complete : BOOLEAN]

TypeOK ==
  /\ ledger \in [Keys -> Records \cup {Null}]
  /\ events \in Seq(Events)

\* The numbers of the events that announce the approval of request k, and of
\* those that ask for the NFT of product k.
ApprovalsOf(k) == {i \in DOMAIN events :
  events[i].name = "TokenizationRequested" /\ events[i].requestId = k}

MintingsOf(k) == {i \in DOMAIN events :
  events[i].name = "NFTMintingRequested" /\ events[i].productId = k}

\* Every request there ever is rests on a verified batch that names it, so a
\* batch has at most one, for no more than its quantity, and the cotton is
\* still in the warehouse the request was made for.
RequestsBacked ==
  \A k \in Keys : IsRequest(k) =>
    LET r == ledger[k]
        b == ledger[r.batchId]
    IN  /\ IsBatch(r.batchId)
        /\ b.pending = k
        /\ b.rwaStatus \in {"VERIFIED", "TOKENIZED"}
        /\ r.quantity <= b.quantity
        /\ r.warehouse = b.custody

\* A request is completed exactly when its batch is tokenized, and both name
\* the same receipt and the same quantity.
CompletionAgrees ==
  \A k \in Keys : IsRequest(k) =>
    LET r == ledger[k]
        b == ledger[r.batchId]
    IN  /\ (r.status = "COMPLETED") <=> (b.rwaStatus = "TOKENIZED")
        /\ r.ethTx = b.tokenizationId
        /\ b.tokenizedKg = IF r.status = "COMPLETED" THEN r.quantity ELSE 0

\* The bridge mints what the events say, so an approval is announced exactly
\* once, with the request's own batch, quantity and warehouse.
ApprovalAnnouncedOnce ==
  \A k \in Keys : IsRequest(k) =>
    LET r == ledger[k]
    IN  /\ Cardinality(ApprovalsOf(k)) = IF r.status = "PENDING" THEN 0 ELSE 1
        /\ \A i \in ApprovalsOf(k) :
             /\ events[i].batchId = r.batchId
             /\ events[i].quantity = r.quantity
             /\ events[i].warehouse = r.warehouse

\* The life of a request: what it pledges is backed, it is announced once, and
\* batch and request agree on its completion.
RequestsFaithful == RequestsBacked /\ ApprovalAnnouncedOnce /\ CompletionAgrees

\* A manufactured product asks for its NFT at most once, and has its token id
\* and its recycling receipt exactly in the states that say so: no generic
\* update can forge or undo them.
NFTStateAgrees ==
  \A k \in Keys : Has(k, {"manufactured"}) =>
    LET p == ledger[k]
    IN  /\ Cardinality(MintingsOf(k)) = IF p.status = "FINISHED" THEN 0 ELSE 1
        /\ (p.nftTokenId # Null) <=> (p.status \in {"TOKENIZED", "RECYCLING_INITIATED"})
        /\ (p.recyclingTx # Null) <=> (p.status = "RECYCLING_INITIATED")

\* No function overwrites another's record, in the one space of keys; and the
\* lifecycle of cotton, whatever function is called, is custody, then
\* verification, then tokenization, never back, with the quantity and the
\* verified provenance as they are.
CottonMovesOn(k) ==
  Exists(k) =>
    /\ ledger'[k] # Null /\ ledger'[k].kind = ledger[k].kind
    /\ IsBatch(k) =>
         LET b == ledger[k]
             c == ledger'[k]
         IN  /\ <<b.status, c.status>> \in {<<b.status, b.status>>,
                  <<"HARVESTED", "STORED">>, <<"STORED", "TOKENIZED">>}
             /\ <<b.rwaStatus, c.rwaStatus>> \in {<<b.rwaStatus, b.rwaStatus>>,
                  <<"PRODUCED", "VERIFIED">>, <<"VERIFIED", "TOKENIZED">>}
             /\ c.quantity = b.quantity
             /\ b.certificationHash # Null =>
                  /\ c.certificationHash = b.certificationHash
                  /\ c.verificationTx = b.verificationTx

CottonLifecycle == [][\A k \in Keys : CottonMovesOn(k)]_vars

\* What the bridge acknowledged is never replaced by another acknowledgment.
AcknowledgmentsStay(k) ==
  /\ IsRequest(k) /\ ledger[k].ethTx # Null => ledger'[k].ethTx = ledger[k].ethTx
  /\ IsProduct(k) /\ ledger[k].nftTokenId # Null =>
       ledger'[k].nftTokenId = ledger[k].nftTokenId
  /\ IsProduct(k) /\ ledger[k].nftTokenId # Null /\ ledger[k].recyclingTx # Null =>
       ledger'[k].recyclingTx = ledger[k].recyclingTx

AcknowledgmentsFinal == [][\A k \in Keys : AcknowledgmentsStay(k)]_vars

\* "Only the bridge can acknowledge confirmed Ethereum recycling": the receipt of
\* a recycling enters a record by recordRecycling and in no other way.
OnlyBridgeAcknowledgesRecycling ==
  [][\A k \in Keys :
       IsProduct(k) /\ ledger'[k].recyclingTx # ledger[k].recyclingTx =>
         \E id \in NftIds, e \in EthTxs : RecordRecycling(k, id, e)]_vars
=============================================================================
