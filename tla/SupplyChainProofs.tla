-------------------------- MODULE SupplyChainProofs --------------------------
(***************************************************************************)
(* Proofs about SupplyChain for every set of keys, warehouses, hashes and  *)
(* token ids.  Two inductive invariants carry them, one about the records  *)
(* of cotton (batches and requests) and one about manufactured products.   *)
(* Each says in which stages a record can be, and that the events announce *)
(* a record once if it is past the stage that announces it and never       *)
(* otherwise, also for a key that has no such record yet.                  *)
(***************************************************************************)
EXTENDS SupplyChain, FiniteSetTheorems, SequenceTheorems, TLAPS

-----------------------------------------------------------------------------
(* What the two ways to write do                                           *)

\* The records of a kind are told from all others by the kind field.
LEMMA KindsOfRecords ==
  ASSUME TypeOK, NEW k \in Keys
  PROVE  /\ IsBatch(k) <=> ledger[k] \in Batches
         /\ IsRequest(k) <=> ledger[k] \in Requests
         /\ IsProduct(k) <=> ledger[k] \in Products
         /\ Exists(k) <=> ledger[k] \in Records
BY ChaincodeAssumption
   DEF TypeOK, IsBatch, IsRequest, IsProduct, Has, Exists, Records, Batches,
       Requests, Products

\* A write of one record keeps the ledger's type and all other records.
LEMMA PutRecord ==
  ASSUME TypeOK, NEW k \in Keys, NEW record \in Records, Put(k, record)
  PROVE  /\ ledger' \in [Keys -> Records \cup {Null}]
         /\ ledger'[k] = record
         /\ \A j \in Keys : j # k => ledger'[j] = ledger[j]
BY DEF TypeOK, Put

\* An event is announced under one more number and the earlier ones stay.
LEMMA EmitEvent ==
  ASSUME TypeOK, NEW event \in Events, Emit(event)
  PROVE  /\ events' \in Seq(Events)
         /\ Len(events') = Len(events) + 1
         /\ Len(events') \in 0 .. MaxEvents
         /\ DOMAIN events' = DOMAIN events \cup {Len(events')}
         /\ Len(events') \notin DOMAIN events
         /\ events'[Len(events')] = event
         /\ \A i \in DOMAIN events : events'[i] = events[i]
<1>1. events \in Seq(Events) /\ events' = Append(events, event) /\ Len(events) < MaxEvents
  BY DEF TypeOK, Emit
<1>2. /\ events' \in Seq(Events)
      /\ Len(events') = Len(events) + 1
      /\ \A i \in 1 .. Len(events) : events'[i] = events[i]
      /\ events'[Len(events) + 1] = event
  BY <1>1, AppendProperties
<1>3. DOMAIN events = 1 .. Len(events) /\ DOMAIN events' = 1 .. Len(events')
  BY <1>1, <1>2, LenProperties
<1>4. Len(events) \in Nat
  BY <1>1, LenProperties
<1>5. QED BY <1>1, <1>2, <1>3, <1>4, ChaincodeAssumption

\* Which requests and products the numbers of the events belong to afterwards.
LEMMA EmitAnnounces ==
  ASSUME TypeOK, NEW event \in Events, Emit(event), NEW k
  PROVE  /\ ApprovalsOf(k)' =
              IF event.name = "TokenizationRequested" /\ event.requestId = k
              THEN ApprovalsOf(k) \cup {Len(events')} ELSE ApprovalsOf(k)
         /\ MintingsOf(k)' =
              IF event.name = "NFTMintingRequested" /\ event.productId = k
              THEN MintingsOf(k) \cup {Len(events')} ELSE MintingsOf(k)
BY EmitEvent DEF ApprovalsOf, MintingsOf

-----------------------------------------------------------------------------
(* Transactions that write a product                                       *)

ProductNext(k) ==
  \/ \E h \in Holders : RegisterProduct(k, h) \/ TransferCustody(k, h)
  \/ \E s \in Statuses, tx \in EthTxs \cup {Null} : UpdateStatus(k, s, tx)
  \/ AddCertification(k)
  \/ \E bs \in SUBSET Keys : CreateFinishedProduct(k, bs)
  \/ \E t \in MintTerms : RequestNFTMinting(k, t)
  \/ \E id \in NftIds : MintNFT(k, id)
  \/ \E id \in NftIds, e \in EthTxs : RecordRecycling(k, id, e)

NFTRequest(k, t) ==
  [name |-> "NFTMintingRequested", productId |-> k, terms |-> t,
   complete |-> ledger[k].kind = "manufactured"]

\* What all of them do: the key was vacant or holds a product of the same kind
\* already, and the only event is a request for an NFT.
WriteProduct(k, record) ==
  /\ \/ Vacant(k)
     \/ IsProduct(k) /\ record.kind = ledger[k].kind
  /\ Put(k, record)
  /\ UNCHANGED events \/ (\E t \in MintTerms : Emit(NFTRequest(k, t)))

LEMMA ProductNextWrites ==
  ASSUME TypeOK, NEW k \in Keys, ProductNext(k), ~UNCHANGED vars
  PROVE  \E record \in Products : WriteProduct(k, record)
<1> USE ChaincodeAssumption
<1>1. ASSUME NEW h \in Holders, RegisterProduct(k, h)
      PROVE  \E record \in Products : WriteProduct(k, record)
  <2> DEFINE record ==
        [kind |-> "generic", status |-> "REGISTERED", batchIDs |-> {},
         holder |-> h, certified |-> FALSE, nftTokenId |-> Null,
         recyclingTx |-> Null]
  <2>1. record \in Products
    BY DEF Products, Statuses
  <2>2. Vacant(k) /\ Put(k, record) /\ UNCHANGED events
    BY <1>1 DEF RegisterProduct
  <2> HIDE DEF record
  <2>3. QED BY <2>1, <2>2 DEF WriteProduct
<1>2. ASSUME NEW bs \in SUBSET Keys, CreateFinishedProduct(k, bs)
      PROVE  \E record \in Products : WriteProduct(k, record)
  <2> DEFINE record ==
        [kind |-> "manufactured", status |-> "FINISHED", batchIDs |-> bs,
         holder |-> Farm, certified |-> FALSE, nftTokenId |-> Null,
         recyclingTx |-> Null]
  <2>1. record \in Products
    BY DEF Products, Statuses, Holders
  <2>2. Vacant(k) /\ Put(k, record) /\ UNCHANGED events
    BY <1>2 DEF CreateFinishedProduct
  <2> HIDE DEF record
  <2>3. QED BY <2>1, <2>2 DEF WriteProduct
<1>3. ASSUME NEW record, IsProduct(k),
             ledger[k] \in Products => record \in Products /\ record.kind = ledger[k].kind,
             Put(k, record), UNCHANGED events \/ \E t \in MintTerms : Emit(NFTRequest(k, t))
      PROVE  \E r \in Products : WriteProduct(k, r)
  BY <1>3, KindsOfRecords DEF WriteProduct
<1>4. ASSUME NEW h \in Holders, TransferCustody(k, h)
      PROVE  \E record \in Products : WriteProduct(k, record)
  <2> DEFINE record == [ledger[k] EXCEPT !.holder = h]
  <2>1. ledger[k] \in Products => record \in Products /\ record.kind = ledger[k].kind
    BY DEF Products
  <2>2. IsProduct(k) /\ Put(k, record) /\ UNCHANGED events
    BY <1>4 DEF TransferCustody
  <2> HIDE DEF record
  <2>3. QED BY <1>3, <2>1, <2>2
<1>5. ASSUME NEW s \in Statuses, NEW tx \in EthTxs \cup {Null}, UpdateStatus(k, s, tx)
      PROVE  \E record \in Products : WriteProduct(k, record)
  <2> DEFINE record == [ledger[k] EXCEPT !.status = s,
                          !.recyclingTx = IF tx = Null THEN @ ELSE tx]
  <2>1. ledger[k] \in Products => record \in Products /\ record.kind = ledger[k].kind
    BY DEF Products
  <2>2. IsProduct(k) /\ Put(k, record) /\ UNCHANGED events
    BY <1>5 DEF UpdateStatus, Updatable
  <2> HIDE DEF record
  <2>3. QED BY <1>3, <2>1, <2>2
<1>6. ASSUME AddCertification(k)
      PROVE  \E record \in Products : WriteProduct(k, record)
  <2> DEFINE record == [ledger[k] EXCEPT !.certified = TRUE]
  <2>1. ledger[k] \in Products => record \in Products /\ record.kind = ledger[k].kind
    BY DEF Products
  <2>2. IsProduct(k) /\ Put(k, record) /\ UNCHANGED events
    BY <1>6 DEF AddCertification
  <2> HIDE DEF record
  <2>3. QED BY <1>3, <2>1, <2>2
<1>7. ASSUME NEW t \in MintTerms, RequestNFTMinting(k, t)
      PROVE  \E record \in Products : WriteProduct(k, record)
  <2> DEFINE record == [ledger[k] EXCEPT !.status = "NFT_MINT_PENDING"]
  <2>1. ledger[k] \in Products => record \in Products /\ record.kind = ledger[k].kind
    BY DEF Products, Statuses
  <2>2. IsProduct(k) /\ Put(k, record) /\ Emit(NFTRequest(k, t))
    BY <1>7 DEF RequestNFTMinting, NFTRequest
  <2> HIDE DEF record
  <2>3. QED BY <1>3, <2>1, <2>2
<1>8. ASSUME NEW id \in NftIds, MintNFT(k, id)
      PROVE  \E record \in Products : WriteProduct(k, record)
  <2> DEFINE record == [ledger[k] EXCEPT !.nftTokenId = id, !.status = "TOKENIZED"]
  <2>1. ledger[k] \in Products => record \in Products /\ record.kind = ledger[k].kind
    BY DEF Products, Statuses
  <2>2. IsProduct(k) /\ Put(k, record) /\ UNCHANGED events
    BY <1>8 DEF MintNFT, AcceptsNFT
  <2> HIDE DEF record
  <2>3. QED BY <1>3, <2>1, <2>2
<1>9. ASSUME NEW id \in NftIds, NEW e \in EthTxs, RecordRecycling(k, id, e)
      PROVE  \E record \in Products : WriteProduct(k, record)
  <2> DEFINE record == [ledger[k] EXCEPT !.status = "RECYCLING_INITIATED",
                                         !.recyclingTx = e]
  <2>1. ledger[k] \in Products => record \in Products /\ record.kind = ledger[k].kind
    BY DEF Products, Statuses
  <2>2. IsProduct(k) /\ Put(k, record) /\ UNCHANGED events
    BY <1>9 DEF RecordRecycling
  <2> HIDE DEF record
  <2>3. QED BY <1>3, <2>1, <2>2
<1>10. QED BY <1>1, <1>2, <1>4, <1>5, <1>6, <1>7, <1>8, <1>9 DEF ProductNext

\* So they keep the type and touch neither cotton nor approvals.
LEMMA WriteProductKeepsCotton ==
  ASSUME TypeOK, NEW k \in Keys, NEW record \in Products, WriteProduct(k, record)
  PROVE  /\ TypeOK'
         /\ ledger'[k] = record
         /\ \A j \in Keys : j # k => ledger'[j] = ledger[j]
         /\ \A j \in Keys : IsBatch(j) \/ IsRequest(j) \/ IsBatch(j)' \/ IsRequest(j)' =>
              ledger'[j] = ledger[j]
         /\ \A j \in Keys : ApprovalsOf(j)' = ApprovalsOf(j)
         /\ \A i \in DOMAIN events : i \in DOMAIN events' /\ events'[i] = events[i]
<1>1. record \in Records /\ Put(k, record)
  BY DEF Records, WriteProduct
<1>2. /\ ledger' \in [Keys -> Records \cup {Null}]
      /\ ledger'[k] = record
      /\ \A j \in Keys : j # k => ledger'[j] = ledger[j]
  BY <1>1, PutRecord
<1>3. ~IsBatch(k) /\ ~IsRequest(k) /\ ~IsBatch(k)' /\ ~IsRequest(k)'
  BY <1>2 DEF WriteProduct, Vacant, IsProduct, IsBatch, IsRequest, Has, Exists, Products
<1>4. /\ events' \in Seq(Events)
      /\ \A j \in Keys : ApprovalsOf(j)' = ApprovalsOf(j)
      /\ \A i \in DOMAIN events : i \in DOMAIN events' /\ events'[i] = events[i]
  <2>1. CASE UNCHANGED events
    BY <2>1 DEF TypeOK, ApprovalsOf
  <2>2. ASSUME NEW t \in MintTerms, Emit(NFTRequest(k, t))
        PROVE  <1>4!:
    <3>1. NFTRequest(k, t) \in Events /\ NFTRequest(k, t).name = "NFTMintingRequested"
      BY DEF NFTRequest, Events
    <3>2. QED BY <2>2, <3>1, EmitEvent, EmitAnnounces
  <2>3. QED BY <2>1, <2>2 DEF WriteProduct
<1>5. QED BY <1>2, <1>3, <1>4 DEF TypeOK, IsBatch, IsRequest, Has, Exists

-----------------------------------------------------------------------------
(* Transactions that write cotton: what each finds and what it leaves      *)

\* All records but those of the keys in W are as they were.
OnlyWrites(W) == \A j \in Keys \ W : ledger'[j] = ledger[j]

\* A write keeps the kind of all records that it does not write.
LEMMA OnlyWritesKinds ==
  ASSUME NEW W, OnlyWrites(W), NEW j \in Keys \ W
  PROVE  /\ IsBatch(j)' <=> IsBatch(j)
         /\ IsRequest(j)' <=> IsRequest(j)
BY DEF OnlyWrites, IsBatch, IsRequest, Has, Exists

\* A member of Batches or Requests under a key makes it one.
LEMMA KindsAfter ==
  ASSUME NEW k \in Keys
  PROVE  /\ ledger'[k] \in Batches => IsBatch(k)' /\ ~IsRequest(k)'
         /\ ledger'[k] \in Requests => IsRequest(k)' /\ ~IsBatch(k)'
BY ChaincodeAssumption DEF Batches, Requests, IsBatch, IsRequest, Has, Exists

\* The step and its outcome: a vacant key gets a harvested batch.
Registered(k) ==
  /\ TypeOK' /\ UNCHANGED events /\ OnlyWrites({k})
  /\ ~Exists(k) /\ ~IsBatch(k) /\ ~IsRequest(k)
  /\ IsBatch(k)' /\ ~IsRequest(k)'
  /\ ledger'[k].status = "HARVESTED" /\ ledger'[k].rwaStatus = "PRODUCED"
  /\ ledger'[k].certificationHash = Null
  /\ ledger'[k].tokenizationId = Null /\ ledger'[k].tokenizedKg = 0

LEMMA RegisterBatchEffect ==
  ASSUME TypeOK, NEW k \in Keys, NEW q \in 1 .. MaxKg, RegisterCottonBatch(k, q)
  PROVE  Registered(k)
<1> DEFINE record ==
      [kind |-> "batch", status |-> "HARVESTED", rwaStatus |-> "PRODUCED",
       quantity |-> q, custody |-> Farm, certificationHash |-> Null,
       verificationTx |-> 0, pending |-> Null, tokenizationId |-> Null,
       tokenizedKg |-> 0]
<1>1. record \in Batches /\ record \in Records
  BY ChaincodeAssumption DEF Records, Batches, Holders
<1>2. /\ ~Exists(k) /\ ~IsBatch(k) /\ ~IsRequest(k)
      /\ Put(k, record) /\ UNCHANGED events
  BY DEF RegisterCottonBatch, Vacant, IsBatch, IsRequest, Has
<1>3. TypeOK' /\ OnlyWrites({k}) /\ ledger'[k] = record
  BY <1>1, <1>2, PutRecord DEF TypeOK, OnlyWrites
<1>4. QED BY <1>1, <1>2, <1>3, KindsAfter DEF Registered

\* The step and its outcome: a stored batch becomes verified.
Verified(k) ==
  /\ TypeOK' /\ OnlyWrites({k})
  /\ \A j \in Keys : ApprovalsOf(j)' = ApprovalsOf(j)
  /\ \A j \in Keys : MintingsOf(j)' = MintingsOf(j)
  /\ \A i \in DOMAIN events : i \in DOMAIN events' /\ events'[i] = events[i]
  /\ IsBatch(k) /\ ~IsRequest(k) /\ IsBatch(k)' /\ ~IsRequest(k)'
  /\ ledger[k].status = "STORED" /\ ledger[k].rwaStatus = "PRODUCED"
  /\ ledger'[k].status = "STORED" /\ ledger'[k].rwaStatus = "VERIFIED"
  /\ ledger'[k].verificationTx # 0
  /\ ledger'[k].quantity = ledger[k].quantity
  /\ ledger'[k].custody = ledger[k].custody
  /\ ledger'[k].pending = ledger[k].pending
  /\ ledger'[k].tokenizationId = ledger[k].tokenizationId
  /\ ledger'[k].tokenizedKg = ledger[k].tokenizedKg

LEMMA VerifyEffect ==
  ASSUME TypeOK, NEW k \in Keys, NEW c \in Certs, VerifyCottonBatch(k, c)
  PROVE  Verified(k)
<1> DEFINE record == [ledger[k] EXCEPT !.certificationHash = c,
                        !.verificationTx = Len(events'), !.rwaStatus = "VERIFIED"]
           event == [name |-> "CottonBatchVerified", batchId |-> k]
<1>1. /\ IsBatch(k) /\ ~IsRequest(k) /\ ledger[k] \in Batches
      /\ ledger[k].status = "STORED" /\ ledger[k].rwaStatus = "PRODUCED"
      /\ Put(k, record) /\ Emit(event)
  BY KindsOfRecords DEF VerifyCottonBatch, Verifiable, IsBatch, IsRequest, Has
<1>2. event \in Events /\ event.name = "CottonBatchVerified"
  BY DEF Events
<1> HIDE DEF event
<1>3. /\ events' \in Seq(Events) /\ Len(events') \in 0 .. MaxEvents
      /\ Len(events') # 0
      /\ \A j \in Keys : ApprovalsOf(j)' = ApprovalsOf(j)
      /\ \A j \in Keys : MintingsOf(j)' = MintingsOf(j)
      /\ \A i \in DOMAIN events : i \in DOMAIN events' /\ events'[i] = events[i]
  <2>1. Len(events') # 0
    BY <1>1, <1>2, EmitEvent, LenProperties DEF TypeOK
  <2>2. QED BY <1>1, <1>2, <2>1, EmitEvent, EmitAnnounces
<1>4. /\ record \in Batches /\ record.status = "STORED" /\ record.rwaStatus = "VERIFIED"
      /\ record.verificationTx # 0
      /\ record.quantity = ledger[k].quantity
      /\ record.custody = ledger[k].custody
      /\ record.pending = ledger[k].pending
      /\ record.tokenizationId = ledger[k].tokenizationId
      /\ record.tokenizedKg = ledger[k].tokenizedKg
  BY <1>1, <1>3 DEF Batches
<1> HIDE DEF record
<1>5. TypeOK' /\ OnlyWrites({k}) /\ ledger'[k] = record
  BY <1>1, <1>3, <1>4, PutRecord DEF TypeOK, OnlyWrites, Records
<1>6. QED BY <1>1, <1>3, <1>4, <1>5, KindsAfter DEF Verified

\* The step and its outcome: a harvested batch enters a warehouse.
Stored(k) ==
  /\ TypeOK' /\ UNCHANGED events /\ OnlyWrites({k})
  /\ IsBatch(k) /\ ~IsRequest(k) /\ IsBatch(k)' /\ ~IsRequest(k)'
  /\ ledger[k].status = "HARVESTED" /\ ledger'[k].status = "STORED"
  /\ ledger'[k].rwaStatus = ledger[k].rwaStatus
  /\ ledger'[k].quantity = ledger[k].quantity
  /\ ledger'[k].certificationHash = ledger[k].certificationHash
  /\ ledger'[k].verificationTx = ledger[k].verificationTx
  /\ ledger'[k].tokenizationId = ledger[k].tokenizationId
  /\ ledger'[k].tokenizedKg = ledger[k].tokenizedKg

LEMMA StoreEffect ==
  ASSUME TypeOK, NEW k \in Keys, NEW w \in Warehouses, StoreCottonBatch(k, w)
  PROVE  Stored(k)
<1> DEFINE record == [ledger[k] EXCEPT !.status = "STORED", !.custody = w]
<1>1. /\ IsBatch(k) /\ ~IsRequest(k) /\ ledger[k] \in Batches
      /\ ledger[k].status = "HARVESTED"
      /\ Put(k, record) /\ UNCHANGED events
  BY KindsOfRecords DEF StoreCottonBatch, IsBatch, IsRequest, Has
<1>2. /\ record \in Batches /\ record.status = "STORED"
      /\ record.rwaStatus = ledger[k].rwaStatus
      /\ record.quantity = ledger[k].quantity
      /\ record.certificationHash = ledger[k].certificationHash
      /\ record.verificationTx = ledger[k].verificationTx
      /\ record.tokenizationId = ledger[k].tokenizationId
      /\ record.tokenizedKg = ledger[k].tokenizedKg
  BY <1>1 DEF Batches, Holders
<1> HIDE DEF record
<1>3. TypeOK' /\ OnlyWrites({k}) /\ ledger'[k] = record
  BY <1>1, <1>2, PutRecord DEF TypeOK, OnlyWrites, Records
<1>4. QED BY <1>1, <1>2, <1>3, KindsAfter DEF Stored

\* The step and its outcome: a vacant key gets a request that pledges batch b.
Pledged(k, b, q, w) ==
  /\ TypeOK' /\ UNCHANGED events /\ OnlyWrites({k, b})
  /\ b # k /\ ~Exists(k) /\ ~IsBatch(k) /\ ~IsRequest(k)
  /\ IsRequest(k)' /\ ~IsBatch(k)'
  /\ IsBatch(b) /\ ~IsRequest(b) /\ IsBatch(b)' /\ ~IsRequest(b)'
  /\ ledger[b].pending = Null /\ ledger[b].rwaStatus = "VERIFIED"
  /\ ledger[b].tokenizationId = Null
  /\ q <= ledger[b].quantity /\ w = ledger[b].custody
  /\ ledger'[k] = [kind |-> "request", batchId |-> b, quantity |-> q,
                   warehouse |-> w, status |-> "PENDING", ethTx |-> Null]
  /\ ledger'[b].pending = k
  /\ ledger'[b].status = ledger[b].status
  /\ ledger'[b].rwaStatus = ledger[b].rwaStatus
  /\ ledger'[b].quantity = ledger[b].quantity
  /\ ledger'[b].custody = ledger[b].custody
  /\ ledger'[b].certificationHash = ledger[b].certificationHash
  /\ ledger'[b].verificationTx = ledger[b].verificationTx
  /\ ledger'[b].tokenizationId = ledger[b].tokenizationId
  /\ ledger'[b].tokenizedKg = ledger[b].tokenizedKg

LEMMA RequestEffect ==
  ASSUME TypeOK, NEW k \in Keys, NEW b \in Keys, NEW q \in 1 .. MaxKg,
         NEW w \in Warehouses, RequestTokenization(k, b, q, w)
  PROVE  Pledged(k, b, q, w)
<1> DEFINE request == [kind |-> "request", batchId |-> b, quantity |-> q,
                       warehouse |-> w, status |-> "PENDING", ethTx |-> Null]
           record == [ledger[b] EXCEPT !.pending = k]
<1>1. /\ IsBatch(b) /\ ~IsRequest(b) /\ ledger[b] \in Batches
      /\ b # k /\ ~Exists(k) /\ ~IsBatch(k) /\ ~IsRequest(k)
      /\ ledger[b].pending = Null /\ ledger[b].rwaStatus = "VERIFIED"
      /\ ledger[b].tokenizationId = Null
      /\ q <= ledger[b].quantity /\ w = ledger[b].custody
      /\ ledger' = [ledger EXCEPT ![k] = request, ![b] = record]
      /\ UNCHANGED events
  BY KindsOfRecords
     DEF RequestTokenization, OpenForRequest, Vacant, IsBatch, IsRequest, Has, TypeOK
<1>2. request \in Requests
  BY DEF Requests
<1>3. /\ record \in Batches /\ record.pending = k
      /\ record.status = ledger[b].status
      /\ record.rwaStatus = ledger[b].rwaStatus
      /\ record.quantity = ledger[b].quantity
      /\ record.custody = ledger[b].custody
      /\ record.certificationHash = ledger[b].certificationHash
      /\ record.verificationTx = ledger[b].verificationTx
      /\ record.tokenizationId = ledger[b].tokenizationId
      /\ record.tokenizedKg = ledger[b].tokenizedKg
  BY <1>1 DEF Batches
<1> HIDE DEF request, record
<1>4. TypeOK' /\ OnlyWrites({k, b}) /\ ledger'[k] = request /\ ledger'[b] = record
  BY <1>1, <1>2, <1>3 DEF TypeOK, OnlyWrites, Records
<1>5. QED BY <1>1, <1>2, <1>3, <1>4, KindsAfter DEF Pledged, request

\* The step and its outcome: a pending request is approved and announced.
Approves(k) ==
  /\ TypeOK' /\ OnlyWrites({k})
  /\ \A i \in DOMAIN events : i \in DOMAIN events' /\ events'[i] = events[i]
  /\ \A j \in Keys \ {k} : ApprovalsOf(j)' = ApprovalsOf(j)
  /\ \A j \in Keys : MintingsOf(j)' = MintingsOf(j)
  /\ \E i \in DOMAIN events' :
       /\ ApprovalsOf(k)' = ApprovalsOf(k) \cup {i}
       /\ events'[i].batchId = ledger[k].batchId
       /\ events'[i].quantity = ledger[k].quantity
       /\ events'[i].warehouse = ledger[k].warehouse
  /\ IsRequest(k) /\ ~IsBatch(k) /\ IsRequest(k)' /\ ~IsBatch(k)'
  /\ ledger[k].status = "PENDING" /\ ledger'[k].status = "APPROVED"
  /\ ledger[ledger[k].batchId].rwaStatus = "VERIFIED"
  /\ ledger'[k].batchId = ledger[k].batchId
  /\ ledger'[k].quantity = ledger[k].quantity
  /\ ledger'[k].warehouse = ledger[k].warehouse
  /\ ledger'[k].ethTx = ledger[k].ethTx

LEMMA ApproveEffect ==
  ASSUME TypeOK, NEW k \in Keys, ApproveTokenizationRequest(k)
  PROVE  Approves(k)
<1> DEFINE record == [ledger[k] EXCEPT !.status = "APPROVED"]
           event == [name |-> "TokenizationRequested", requestId |-> k,
                     batchId |-> ledger[k].batchId, quantity |-> ledger[k].quantity,
                     warehouse |-> ledger[k].warehouse]
<1>1. /\ IsRequest(k) /\ ~IsBatch(k) /\ ledger[k] \in Requests
      /\ ledger[k].status = "PENDING"
      /\ ledger[ledger[k].batchId].rwaStatus = "VERIFIED"
      /\ Put(k, record) /\ Emit(event)
  BY KindsOfRecords DEF ApproveTokenizationRequest, Approvable, IsBatch, IsRequest, Has
<1>2. /\ event \in Events /\ event.name = "TokenizationRequested" /\ event.requestId = k
      /\ event.batchId = ledger[k].batchId
      /\ event.quantity = ledger[k].quantity
      /\ event.warehouse = ledger[k].warehouse
  BY <1>1 DEF Events, Requests
<1> HIDE DEF event
<1>3. /\ events' \in Seq(Events)
      /\ \A i \in DOMAIN events : i \in DOMAIN events' /\ events'[i] = events[i]
      /\ \A j \in Keys \ {k} : ApprovalsOf(j)' = ApprovalsOf(j)
      /\ \A j \in Keys : MintingsOf(j)' = MintingsOf(j)
      /\ ApprovalsOf(k)' = ApprovalsOf(k) \cup {Len(events')}
      /\ Len(events') \in DOMAIN events' /\ events'[Len(events')] = event
  BY <1>1, <1>2, EmitEvent, EmitAnnounces
<1>4. /\ record \in Requests /\ record.status = "APPROVED"
      /\ record.batchId = ledger[k].batchId
      /\ record.quantity = ledger[k].quantity
      /\ record.warehouse = ledger[k].warehouse
      /\ record.ethTx = ledger[k].ethTx
  BY <1>1 DEF Requests
<1> HIDE DEF record
<1>5. TypeOK' /\ OnlyWrites({k}) /\ ledger'[k] = record
  BY <1>1, <1>3, <1>4, PutRecord DEF TypeOK, OnlyWrites, Records
<1>6. QED BY <1>1, <1>2, <1>3, <1>4, <1>5, KindsAfter DEF Approves

\* The step and its outcome: an approved request and its batch get the receipt e.
Completes(k, b, e) ==
  /\ TypeOK' /\ UNCHANGED events
  /\ IsRequest(k) /\ ~IsBatch(k) /\ IsRequest(k)' /\ ~IsBatch(k)'
  /\ ledger[k].status = "APPROVED"
  /\ ledger'[k].status = "COMPLETED" /\ ledger'[k].ethTx = e
  /\ ledger'[k].batchId = ledger[k].batchId
  /\ ledger'[k].quantity = ledger[k].quantity
  /\ ledger'[k].warehouse = ledger[k].warehouse
  /\ b \in Keys \ {k} /\ b = ledger[k].batchId
  /\ OnlyWrites({k, b})
  /\ IsBatch(b) /\ ~IsRequest(b) /\ IsBatch(b)' /\ ~IsRequest(b)'
  /\ ledger[b].pending = k /\ ledger'[b].pending = k
  /\ ledger'[b].status = "TOKENIZED" /\ ledger'[b].rwaStatus = "TOKENIZED"
  /\ ledger'[b].tokenizationId = e
  /\ ledger'[b].tokenizedKg = ledger[k].quantity
  /\ ledger'[b].quantity = ledger[b].quantity
  /\ ledger'[b].custody = ledger[b].custody
  /\ ledger'[b].certificationHash = ledger[b].certificationHash
  /\ ledger'[b].verificationTx = ledger[b].verificationTx

\* The completion of a request writes to a batch because its batchId names one.
LEMMA CompleteEffect ==
  ASSUME TypeOK, RequestsBacked, NEW k \in Keys, NEW e \in EthTxs,
         CompleteTokenization(k, e), ~UNCHANGED vars, NEW b, b = ledger[k].batchId
  PROVE  Completes(k, b, e)
<1> DEFINE request == [ledger[k] EXCEPT !.status = "COMPLETED", !.ethTx = e]
           record == [ledger[b] EXCEPT !.tokenizationId = e, !.status = "TOKENIZED",
                        !.rwaStatus = "TOKENIZED", !.tokenizedKg = ledger[k].quantity]
<1>1. /\ IsRequest(k) /\ ~IsBatch(k) /\ ledger[k] \in Requests
      /\ ledger[k].status = "APPROVED" /\ UNCHANGED events
  BY KindsOfRecords DEF CompleteTokenization, Completable, IsBatch, IsRequest, Has
<1>2. /\ b \in Keys \ {k} /\ IsBatch(b) /\ ~IsRequest(b) /\ ledger[b] \in Batches
      /\ ledger[b].pending = k
  BY <1>1, KindsOfRecords DEF RequestsBacked, Requests, IsBatch, IsRequest, Has
<1>3. ledger' = [ledger EXCEPT ![k] = request, ![b] = record]
  BY <1>1, <1>2 DEF CompleteTokenization, TypeOK
<1>4. /\ request \in Requests /\ request.status = "COMPLETED" /\ request.ethTx = e
      /\ request.batchId = ledger[k].batchId
      /\ request.quantity = ledger[k].quantity
      /\ request.warehouse = ledger[k].warehouse
  BY <1>1 DEF Requests
<1> ledger[k].quantity \in 0 .. MaxKg
  BY <1>1, ChaincodeAssumption DEF Requests
<1> HIDE DEF request
<1>5. /\ record \in Batches /\ record.pending = k
      /\ record.status = "TOKENIZED" /\ record.rwaStatus = "TOKENIZED"
      /\ record.tokenizationId = e /\ record.tokenizedKg = ledger[k].quantity
      /\ record.quantity = ledger[b].quantity
      /\ record.custody = ledger[b].custody
      /\ record.certificationHash = ledger[b].certificationHash
      /\ record.verificationTx = ledger[b].verificationTx
  BY <1>2, <1>4 DEF Batches
<1> HIDE DEF record
<1>6. TypeOK' /\ OnlyWrites({k, b}) /\ ledger'[k] = request /\ ledger'[b] = record
  BY <1>1, <1>2, <1>3, <1>4, <1>5 DEF TypeOK, OnlyWrites, Records
<1>7. QED BY <1>1, <1>2, <1>4, <1>5, <1>6, KindsAfter DEF Completes

-----------------------------------------------------------------------------
(* Type correctness                                                        *)

LEMMA InitTypeOK == Init => TypeOK
BY DEF Init, TypeOK

LEMMA NextTypeOK == TypeOK /\ RequestsBacked /\ [Next]_vars => TypeOK'
<1> SUFFICES ASSUME TypeOK, RequestsBacked, [Next]_vars, ~UNCHANGED vars PROVE TypeOK'
  BY DEF TypeOK, vars
<1>1. ASSUME NEW k \in Keys, ProductNext(k)
      PROVE  TypeOK'
  BY <1>1, ProductNextWrites, WriteProductKeepsCotton
<1>2. QED
  BY <1>1, RegisterBatchEffect, VerifyEffect, StoreEffect, RequestEffect,
     ApproveEffect, CompleteEffect
     DEF Next, MemberNext, BridgeNext, ProductNext, Registered, Verified, Stored,
         Pledged, Approves, Completes

-----------------------------------------------------------------------------
(* Batches and requests                                                    *)

\* The stages of a batch: it is verified in a warehouse and tokenized when it
\* is verified, has provenance from then on and a receipt at the end only.
BatchStages ==
  \A k \in Keys : IsBatch(k) =>
    LET b == ledger[k]
    IN  /\ \/ b.rwaStatus = "PRODUCED" /\ b.status \in {"HARVESTED", "STORED"}
           \/ b.rwaStatus = "VERIFIED" /\ b.status = "STORED"
           \/ b.rwaStatus = "TOKENIZED" /\ b.status = "TOKENIZED"
        /\ b.rwaStatus = "PRODUCED" => b.certificationHash = Null
        /\ b.certificationHash # Null => b.verificationTx # 0
        /\ b.rwaStatus # "TOKENIZED" => b.tokenizationId = Null /\ b.tokenizedKg = 0

Approved(k) == IsRequest(k) /\ ledger[k].status # "PENDING"

\* Approved requests and no others have an announcement, and it is one that
\* says what the request says.
ApprovalsAnnounced ==
  \A k \in Keys :
    /\ ~Approved(k) => ApprovalsOf(k) = {}
    /\ Approved(k) =>
         \E i \in DOMAIN events :
           /\ ApprovalsOf(k) = {i}
           /\ events[i].batchId = ledger[k].batchId
           /\ events[i].quantity = ledger[k].quantity
           /\ events[i].warehouse = ledger[k].warehouse

\* The inductive invariant of batches and requests.
CottonInv ==
  /\ TypeOK
  /\ RequestsBacked
  /\ CompletionAgrees
  /\ BatchStages
  /\ ApprovalsAnnounced

LEMMA InitCottonInv == Init => CottonInv
<1> SUFFICES ASSUME Init PROVE CottonInv
  OBVIOUS
<1>1. /\ TypeOK
      /\ \A k \in Keys : ~IsBatch(k) /\ ~IsRequest(k) /\ ApprovalsOf(k) = {}
  BY InitTypeOK DEF Init, IsBatch, IsRequest, Has, Exists, ApprovalsOf
<1>2. QED BY <1>1 DEF CottonInv, RequestsBacked, CompletionAgrees, BatchStages,
                      ApprovalsAnnounced, Approved

\* A step that writes no batch, no request and no approval.
CottonKept ==
  /\ \A k \in Keys :
       /\ IsBatch(k) \/ IsRequest(k) \/ IsBatch(k)' \/ IsRequest(k)' =>
            ledger'[k] = ledger[k]
       /\ ApprovalsOf(k)' = ApprovalsOf(k)
  /\ \A i \in DOMAIN events : i \in DOMAIN events' /\ events'[i] = events[i]

LEMMA CottonKeptInv ==
  ASSUME CottonInv, TypeOK', CottonKept
  PROVE  CottonInv'
<1>1. \A k \in Keys : /\ IsBatch(k)' <=> IsBatch(k)
                      /\ IsRequest(k)' <=> IsRequest(k)
                      /\ IsBatch(k) \/ IsRequest(k) => ledger'[k] = ledger[k]
  BY DEF CottonKept, IsBatch, IsRequest, Has, Exists
<1>2. \A k \in Keys : IsRequest(k) => ledger[k].batchId \in Keys
  BY KindsOfRecords DEF CottonInv, Requests
<1>3. RequestsBacked' /\ CompletionAgrees'
  BY <1>1, <1>2 DEF CottonInv, RequestsBacked, CompletionAgrees
<1>4. BatchStages'
  BY <1>1 DEF CottonInv, BatchStages
<1>5. ApprovalsAnnounced'
  BY <1>1 DEF CottonInv, ApprovalsAnnounced, Approved, CottonKept
<1>6. QED BY <1>3, <1>4, <1>5 DEF CottonInv

LEMMA NextCottonInv == CottonInv /\ [Next]_vars => CottonInv'
<1> SUFFICES ASSUME CottonInv, [Next]_vars PROVE CottonInv'
  OBVIOUS
<1> TypeOK /\ RequestsBacked /\ TypeOK'
  BY NextTypeOK DEF CottonInv
<1>1. \A j \in Keys : IsRequest(j) => ledger[j].batchId \in Keys
  BY KindsOfRecords DEF Requests
<1>2. CASE UNCHANGED vars
  BY <1>2, CottonKeptInv DEF CottonKept, vars, ApprovalsOf, IsBatch, IsRequest, Has, Exists
<1>3. ASSUME NEW k \in Keys, ProductNext(k)
      PROVE  CottonInv'
  BY <1>2, <1>3, ProductNextWrites, WriteProductKeepsCotton, CottonKeptInv DEF CottonKept
<1>4. ASSUME NEW k \in Keys, NEW q \in 1 .. MaxKg, RegisterCottonBatch(k, q)
      PROVE  CottonInv'
  <2>1. Registered(k)
    BY <1>4, RegisterBatchEffect
  <2>2. \A j \in Keys \ {k} : /\ ledger'[j] = ledger[j]
                              /\ IsBatch(j)' <=> IsBatch(j)
                              /\ IsRequest(j)' <=> IsRequest(j)
    BY <2>1, OnlyWritesKinds DEF Registered, OnlyWrites
  <2>3. RequestsBacked' /\ CompletionAgrees'
    BY <1>1, <2>1, <2>2 DEF Registered, CottonInv, RequestsBacked, CompletionAgrees
  <2>4. BatchStages'
    BY <2>1, <2>2 DEF Registered, CottonInv, BatchStages
  <2>5. ApprovalsAnnounced'
    BY <2>1, <2>2
       DEF Registered, CottonInv, ApprovalsAnnounced, ApprovalsOf, Approved
  <2>6. QED BY <2>3, <2>4, <2>5 DEF CottonInv
<1>5. ASSUME NEW k \in Keys, NEW c \in Certs, VerifyCottonBatch(k, c)
      PROVE  CottonInv'
  <2>1. Verified(k)
    BY <1>5, VerifyEffect
  <2>2. \A j \in Keys \ {k} : /\ ledger'[j] = ledger[j]
                              /\ IsBatch(j)' <=> IsBatch(j)
                              /\ IsRequest(j)' <=> IsRequest(j)
    BY <2>1, OnlyWritesKinds DEF Verified, OnlyWrites
  <2>3. RequestsBacked' /\ CompletionAgrees'
    BY <1>1, <2>1, <2>2 DEF Verified, CottonInv, RequestsBacked, CompletionAgrees
  <2>4. BatchStages'
    BY <2>1, <2>2 DEF Verified, CottonInv, BatchStages
  <2>5. ApprovalsAnnounced'
    BY <2>1, <2>2 DEF Verified, CottonInv, ApprovalsAnnounced, Approved
  <2>6. QED BY <2>3, <2>4, <2>5 DEF CottonInv
<1>6. ASSUME NEW k \in Keys, NEW w \in Warehouses, StoreCottonBatch(k, w)
      PROVE  CottonInv'
  <2>1. Stored(k)
    BY <1>6, StoreEffect
  <2>2. \A j \in Keys \ {k} : /\ ledger'[j] = ledger[j]
                              /\ IsBatch(j)' <=> IsBatch(j)
                              /\ IsRequest(j)' <=> IsRequest(j)
    BY <2>1, OnlyWritesKinds DEF Stored, OnlyWrites
  <2>3. ledger[k].rwaStatus = "PRODUCED"
    BY <2>1 DEF Stored, CottonInv, BatchStages
  <2>4. RequestsBacked' /\ CompletionAgrees'
    BY <1>1, <2>1, <2>2, <2>3 DEF Stored, CottonInv, RequestsBacked, CompletionAgrees
  <2>5. BatchStages'
    BY <2>1, <2>2, <2>3 DEF Stored, CottonInv, BatchStages
  <2>6. ApprovalsAnnounced'
    BY <2>1, <2>2 DEF Stored, CottonInv, ApprovalsAnnounced, ApprovalsOf, Approved
  <2>7. QED BY <2>4, <2>5, <2>6 DEF CottonInv
<1>7. ASSUME NEW k \in Keys, NEW b \in Keys, NEW q \in 1 .. MaxKg,
             NEW w \in Warehouses, RequestTokenization(k, b, q, w)
      PROVE  CottonInv'
  <2>1. Pledged(k, b, q, w)
    BY <1>7, RequestEffect
  <2>2. \A j \in Keys \ {k, b} : /\ ledger'[j] = ledger[j]
                                 /\ IsBatch(j)' <=> IsBatch(j)
                                 /\ IsRequest(j)' <=> IsRequest(j)
    BY <2>1, OnlyWritesKinds DEF Pledged, OnlyWrites
  <2>3. ledger[b].tokenizedKg = 0
    BY <2>1 DEF Pledged, CottonInv, BatchStages
  <2>4. \A j \in Keys : IsRequest(j) => ledger[j].batchId \in Keys \ {k, b}
    BY <1>1, <2>1, ChaincodeAssumption DEF Pledged, CottonInv, RequestsBacked
  <2>5. RequestsBacked'
    BY <2>1, <2>2, <2>4 DEF Pledged, CottonInv, RequestsBacked
  <2>6. CompletionAgrees'
    BY <2>1, <2>2, <2>3, <2>4 DEF Pledged, CottonInv, CompletionAgrees
  <2>7. BatchStages'
    BY <2>1, <2>2 DEF Pledged, CottonInv, BatchStages
  <2>8. ApprovalsAnnounced'
    BY <2>1, <2>2
       DEF Pledged, CottonInv, ApprovalsAnnounced, ApprovalsOf, Approved
  <2>9. QED BY <2>5, <2>6, <2>7, <2>8 DEF CottonInv
<1>8. ASSUME NEW k \in Keys, ApproveTokenizationRequest(k)
      PROVE  CottonInv'
  <2>1. Approves(k)
    BY <1>8, ApproveEffect
  <2>2. \A j \in Keys \ {k} : /\ ledger'[j] = ledger[j]
                              /\ IsBatch(j)' <=> IsBatch(j)
                              /\ IsRequest(j)' <=> IsRequest(j)
    BY <2>1, OnlyWritesKinds DEF Approves, OnlyWrites
  <2>3. \A j \in Keys : IsRequest(j) => ledger[j].batchId \in Keys \ {k}
    BY <1>1, <2>1 DEF Approves, CottonInv, RequestsBacked
  <2>4. RequestsBacked'
    BY <2>1, <2>2, <2>3 DEF Approves, CottonInv, RequestsBacked
  <2>5. CompletionAgrees'
    BY <2>1, <2>2, <2>3 DEF Approves, CottonInv, CompletionAgrees
  <2>6. BatchStages'
    BY <2>1, <2>2 DEF Approves, CottonInv, BatchStages
  <2>7. ApprovalsOf(k) = {}
    BY <2>1 DEF Approves, CottonInv, ApprovalsAnnounced, Approved
  <2>8. ApprovalsAnnounced'
    BY <2>1, <2>2, <2>7 DEF Approves, CottonInv, ApprovalsAnnounced, Approved
  <2>9. QED BY <2>4, <2>5, <2>6, <2>8 DEF CottonInv
<1>9. ASSUME NEW k \in Keys, NEW e \in EthTxs, CompleteTokenization(k, e), ~UNCHANGED vars
      PROVE  CottonInv'
  <2> PICK b : b = ledger[k].batchId
    OBVIOUS
  <2>1. Completes(k, b, e)
    BY <1>9, CompleteEffect
  <2>2. \A j \in Keys \ {k, b} : /\ ledger'[j] = ledger[j]
                                 /\ IsBatch(j)' <=> IsBatch(j)
                                 /\ IsRequest(j)' <=> IsRequest(j)
    BY <2>1, OnlyWritesKinds DEF Completes, OnlyWrites
  <2>3. \A j \in Keys \ {k} : IsRequest(j) => ledger[j].batchId \in Keys \ {k, b}
    BY <1>1, <2>1 DEF Completes, CottonInv, RequestsBacked
  <2>4. ledger[b].rwaStatus = "VERIFIED"
    BY <2>1 DEF Completes, CottonInv, RequestsBacked, CompletionAgrees
  <2>5. RequestsBacked'
    BY <2>1, <2>2, <2>3, <2>4 DEF Completes, CottonInv, RequestsBacked
  <2>6. CompletionAgrees'
    BY <2>1, <2>2, <2>3, <2>4 DEF Completes, CottonInv, CompletionAgrees
  <2>7. BatchStages'
    BY <2>1, <2>2, <2>4 DEF Completes, CottonInv, BatchStages
  <2>8. ApprovalsAnnounced'
    BY <2>1, <2>2
       DEF Completes, CottonInv, ApprovalsAnnounced, ApprovalsOf, Approved
  <2>9. QED BY <2>5, <2>6, <2>7, <2>8 DEF CottonInv
<1>10. QED
  BY <1>2, <1>3, <1>4, <1>5, <1>6, <1>7, <1>8, <1>9
     DEF Next, MemberNext, BridgeNext, ProductNext

-----------------------------------------------------------------------------
(* Products and their NFT                                                  *)

IsManufactured(k) == Has(k, {"manufactured"})

\* The parts of NFTStateAgrees about the record itself, and that it has no other
\* status.
NFTStages ==
  \A k \in Keys : IsManufactured(k) =>
    LET p == ledger[k]
    IN  /\ (p.nftTokenId # Null) <=> (p.status \in {"TOKENIZED", "RECYCLING_INITIATED"})
        /\ (p.recyclingTx # Null) <=> (p.status = "RECYCLING_INITIATED")
        /\ p.status # "REGISTERED"

\* A vacant key has no request for an NFT on record, and a manufactured product
\* has one from the moment it is no longer just finished.
MintingsAnnounced ==
  \A k \in Keys :
    /\ ~Exists(k) => MintingsOf(k) = {}
    /\ IsManufactured(k) =>
         IF ledger[k].status = "FINISHED" THEN MintingsOf(k) = {}
         ELSE \E i \in DOMAIN events : MintingsOf(k) = {i}

\* The inductive invariant of manufactured products.
NFTInv == NFTStages /\ MintingsAnnounced

LEMMA InitNFTInv == Init => NFTInv
BY DEF Init, NFTInv, NFTStages, MintingsAnnounced, IsManufactured, Has, Exists, MintingsOf

\* The moves of a product: made, kept, asked for, minted or recycled, and of an
\* NFT that was acknowledged nothing is replaced.
NFTMove(k) ==
  LET p == ledger[k]
      q == ledger'[k]
  IN  /\ TypeOK' /\ OnlyWrites({k})
      /\ \A j \in Keys \ {k} : MintingsOf(j)' = MintingsOf(j)
      /\ \A i \in DOMAIN events : i \in DOMAIN events'
      /\ Exists(k)' /\ ~IsBatch(k) /\ ~IsRequest(k)
      /\ Exists(k) => q.kind = p.kind
      /\ Exists(k) /\ p.nftTokenId # Null =>
           /\ q.nftTokenId = p.nftTokenId
           /\ p.recyclingTx # Null => q.recyclingTx = p.recyclingTx
      /\ q.kind = "manufactured" =>
           \/ /\ ~Exists(k) /\ MintingsOf(k)' = MintingsOf(k)
              /\ q.status = "FINISHED" /\ q.nftTokenId = Null /\ q.recyclingTx = Null
           \/ /\ Exists(k) /\ MintingsOf(k)' = MintingsOf(k)
              /\ q.status = p.status /\ q.nftTokenId = p.nftTokenId
              /\ q.recyclingTx = p.recyclingTx
           \/ /\ Exists(k) /\ p.status = "FINISHED" /\ q.status = "NFT_MINT_PENDING"
              /\ \E i \in DOMAIN events' : MintingsOf(k)' = MintingsOf(k) \cup {i}
              /\ q.nftTokenId = p.nftTokenId /\ q.recyclingTx = p.recyclingTx
           \/ /\ Exists(k) /\ p.status = "NFT_MINT_PENDING" /\ q.status = "TOKENIZED"
              /\ MintingsOf(k)' = MintingsOf(k)
              /\ q.nftTokenId # Null /\ q.recyclingTx = p.recyclingTx
           \/ /\ Exists(k) /\ p.status = "TOKENIZED" /\ q.status = "RECYCLING_INITIATED"
              /\ MintingsOf(k)' = MintingsOf(k)
              /\ q.nftTokenId = p.nftTokenId /\ q.recyclingTx # Null

LEMMA ProductNextMoves ==
  ASSUME TypeOK, NEW k \in Keys, ProductNext(k), ~UNCHANGED vars
  PROVE  NFTMove(k)
<1> USE ChaincodeAssumption
<1>1. PICK record \in Products : WriteProduct(k, record)
  BY ProductNextWrites
<1>2. /\ TypeOK' /\ OnlyWrites({k}) /\ ledger'[k] = record
      /\ \A i \in DOMAIN events : i \in DOMAIN events'
  BY <1>1, WriteProductKeepsCotton DEF OnlyWrites
<1>3. /\ Exists(k)' /\ ~IsBatch(k) /\ ~IsRequest(k)
      /\ Exists(k) => IsProduct(k) /\ ledger[k] \in Products /\ ledger'[k].kind = ledger[k].kind
      /\ ledger'[k].kind \in {"generic", "manufactured"}
  BY <1>1, <1>2, KindsOfRecords
     DEF WriteProduct, Vacant, IsProduct, IsBatch, IsRequest, Has, Exists, Products
<1>4. ASSUME UNCHANGED events
      PROVE  \A j \in Keys : MintingsOf(j)' = MintingsOf(j)
  BY <1>4 DEF MintingsOf
<1>5. ASSUME NEW h \in Holders, RegisterProduct(k, h)
      PROVE  NFTMove(k)
  <2>1. ledger'[k].kind = "generic" /\ ~Exists(k) /\ UNCHANGED events
    BY <1>5 DEF RegisterProduct, Put, Vacant, TypeOK
  <2>2. QED BY <1>2, <1>3, <1>4, <2>1 DEF NFTMove
<1>6. ASSUME NEW bs \in SUBSET Keys, CreateFinishedProduct(k, bs)
      PROVE  NFTMove(k)
  <2>1. /\ ~Exists(k) /\ UNCHANGED events
        /\ ledger'[k].status = "FINISHED" /\ ledger'[k].nftTokenId = Null
        /\ ledger'[k].recyclingTx = Null
    BY <1>6 DEF CreateFinishedProduct, Put, Vacant, TypeOK
  <2>2. QED BY <1>2, <1>3, <1>4, <2>1 DEF NFTMove
<1>7. ASSUME NEW h \in Holders, TransferCustody(k, h)
      PROVE  NFTMove(k)
  <2>1. /\ Exists(k) /\ UNCHANGED events
        /\ ledger'[k] = [ledger[k] EXCEPT !.holder = h]
    BY <1>7 DEF TransferCustody, IsProduct, Has, Put, TypeOK
  <2>2. /\ ledger'[k].status = ledger[k].status
        /\ ledger'[k].nftTokenId = ledger[k].nftTokenId
        /\ ledger'[k].recyclingTx = ledger[k].recyclingTx
    BY <1>3, <2>1 DEF Products
  <2>3. QED BY <1>2, <1>3, <1>4, <2>1, <2>2 DEF NFTMove
<1>8. ASSUME AddCertification(k)
      PROVE  NFTMove(k)
  <2>1. /\ Exists(k) /\ UNCHANGED events
        /\ ledger'[k] = [ledger[k] EXCEPT !.certified = TRUE]
    BY <1>8 DEF AddCertification, IsProduct, Has, Put, TypeOK
  <2>2. /\ ledger'[k].status = ledger[k].status
        /\ ledger'[k].nftTokenId = ledger[k].nftTokenId
        /\ ledger'[k].recyclingTx = ledger[k].recyclingTx
    BY <1>3, <2>1 DEF Products
  <2>3. QED BY <1>2, <1>3, <1>4, <2>1, <2>2 DEF NFTMove
<1>9. ASSUME NEW s \in Statuses, NEW tx \in EthTxs \cup {Null}, UpdateStatus(k, s, tx)
      PROVE  NFTMove(k)
  <2>1. /\ Exists(k) /\ UNCHANGED events
        /\ ledger[k].kind # "manufactured" /\ ledger[k].nftTokenId = Null
    BY <1>9 DEF UpdateStatus, Updatable, IsProduct, Has
  <2>2. QED BY <1>2, <1>3, <1>4, <2>1 DEF NFTMove
<1>10. ASSUME NEW t \in MintTerms, RequestNFTMinting(k, t)
       PROVE  NFTMove(k)
  <2>1. /\ Exists(k) /\ ledger[k].status = "FINISHED" /\ ledger[k].nftTokenId = Null
        /\ ledger'[k] = [ledger[k] EXCEPT !.status = "NFT_MINT_PENDING"]
        /\ Emit(NFTRequest(k, t))
    BY <1>10 DEF RequestNFTMinting, IsProduct, Has, Put, TypeOK, NFTRequest
  <2>2. /\ ledger'[k].status = "NFT_MINT_PENDING"
        /\ ledger'[k].nftTokenId = ledger[k].nftTokenId
        /\ ledger'[k].recyclingTx = ledger[k].recyclingTx
    BY <1>3, <2>1 DEF Products
  <2>3. /\ NFTRequest(k, t) \in Events
        /\ NFTRequest(k, t).name = "NFTMintingRequested" /\ NFTRequest(k, t).productId = k
    BY DEF NFTRequest, Events
  <2>4. /\ \A j \in Keys \ {k} : MintingsOf(j)' = MintingsOf(j)
        /\ MintingsOf(k)' = MintingsOf(k) \cup {Len(events')}
        /\ Len(events') \in DOMAIN events'
    BY <2>1, <2>3, EmitEvent, EmitAnnounces
  <2>5. QED BY <1>2, <1>3, <2>1, <2>2, <2>4 DEF NFTMove
<1>11. ASSUME NEW id \in NftIds, MintNFT(k, id)
       PROVE  NFTMove(k)
  <2>1. /\ Exists(k) /\ UNCHANGED events
        /\ ledger[k].nftTokenId = Null /\ ledger[k].status = "NFT_MINT_PENDING"
        /\ ledger'[k] = [ledger[k] EXCEPT !.nftTokenId = id, !.status = "TOKENIZED"]
    BY <1>11 DEF MintNFT, AcceptsNFT, IsProduct, Has, Put, TypeOK
  <2>2. /\ ledger'[k].status = "TOKENIZED" /\ ledger'[k].nftTokenId # Null
        /\ ledger'[k].recyclingTx = ledger[k].recyclingTx
    BY <1>3, <2>1 DEF Products
  <2>3. QED BY <1>2, <1>3, <1>4, <2>1, <2>2 DEF NFTMove
<1>12. ASSUME NEW id \in NftIds, NEW e \in EthTxs, RecordRecycling(k, id, e)
       PROVE  NFTMove(k)
  <2>1. /\ Exists(k) /\ UNCHANGED events
        /\ ledger[k].status = "TOKENIZED" /\ ledger[k].recyclingTx = Null
        /\ ledger'[k] = [ledger[k] EXCEPT !.status = "RECYCLING_INITIATED",
                                          !.recyclingTx = e]
    BY <1>12 DEF RecordRecycling, Recyclable, IsProduct, Has, Put, TypeOK
  <2>2. /\ ledger'[k].status = "RECYCLING_INITIATED" /\ ledger'[k].recyclingTx # Null
        /\ ledger'[k].nftTokenId = ledger[k].nftTokenId
    BY <1>3, <2>1 DEF Products
  <2>3. QED BY <1>2, <1>3, <1>4, <2>1, <2>2 DEF NFTMove
<1>13. QED
  BY <1>5, <1>6, <1>7, <1>8, <1>9, <1>10, <1>11, <1>12 DEF ProductNext

\* A step that writes no product, and asks for no NFT.
ProductsKept ==
  /\ \A k \in Keys :
       /\ Exists(k) => Exists(k)'
       /\ IsProduct(k) \/ IsManufactured(k)' => ledger'[k] = ledger[k]
       /\ MintingsOf(k)' = MintingsOf(k)
  /\ \A i \in DOMAIN events : i \in DOMAIN events'

LEMMA OtherKindsKeepProducts ==
  ASSUME TypeOK, NEW W \in SUBSET Keys, OnlyWrites(W),
         \A j \in W : ~IsProduct(j) /\ (IsBatch(j)' \/ IsRequest(j)'),
         \A j \in Keys : MintingsOf(j)' = MintingsOf(j),
         \A i \in DOMAIN events : i \in DOMAIN events'
  PROVE  ProductsKept
<1>1. \A j \in W : ~IsManufactured(j)' /\ Exists(j)'
  BY DEF IsManufactured, IsBatch, IsRequest, Has, Exists
<1>2. \A j \in Keys \ W : (Exists(j) => Exists(j)') /\ ledger'[j] = ledger[j]
  BY DEF OnlyWrites, Exists
<1>3. QED BY <1>1, <1>2 DEF ProductsKept

\* Every step either moves one product or keeps them all.
LEMMA NextProducts ==
  ASSUME TypeOK, RequestsBacked, [Next]_vars
  PROVE  ProductsKept \/ \E k \in Keys : NFTMove(k)
<1>1. ASSUME UNCHANGED events
      PROVE  /\ \A j \in Keys : MintingsOf(j)' = MintingsOf(j)
             /\ \A i \in DOMAIN events : i \in DOMAIN events'
  BY <1>1 DEF MintingsOf
<1>2. \A j \in Keys : IsBatch(j) \/ IsRequest(j) \/ ~Exists(j) => ~IsProduct(j)
  BY DEF IsBatch, IsRequest, IsProduct, Has
<1>3. CASE UNCHANGED vars
  BY <1>1, <1>3 DEF vars, ProductsKept, IsManufactured, Has, Exists
<1>4. ASSUME NEW k \in Keys, NEW q \in 1 .. MaxKg, RegisterCottonBatch(k, q)
      PROVE  ProductsKept
  <2>1. Registered(k)
    BY <1>4, RegisterBatchEffect
  <2>2. QED BY <1>1, <1>2, <2>1, OtherKindsKeepProducts DEF Registered
<1>5. ASSUME NEW k \in Keys, NEW c \in Certs, VerifyCottonBatch(k, c)
      PROVE  ProductsKept
  <2>1. Verified(k)
    BY <1>5, VerifyEffect
  <2>2. QED BY <1>2, <2>1, OtherKindsKeepProducts DEF Verified
<1>6. ASSUME NEW k \in Keys, NEW w \in Warehouses, StoreCottonBatch(k, w)
      PROVE  ProductsKept
  <2>1. Stored(k)
    BY <1>6, StoreEffect
  <2>2. QED BY <1>1, <1>2, <2>1, OtherKindsKeepProducts DEF Stored
<1>7. ASSUME NEW k \in Keys, NEW b \in Keys, NEW q \in 1 .. MaxKg,
             NEW w \in Warehouses, RequestTokenization(k, b, q, w)
      PROVE  ProductsKept
  <2>1. Pledged(k, b, q, w)
    BY <1>7, RequestEffect
  <2>2. QED BY <1>1, <1>2, <2>1, OtherKindsKeepProducts DEF Pledged
<1>8. ASSUME NEW k \in Keys, ApproveTokenizationRequest(k)
      PROVE  ProductsKept
  <2>1. Approves(k)
    BY <1>8, ApproveEffect
  <2>2. QED BY <1>2, <2>1, OtherKindsKeepProducts DEF Approves
<1>9. ASSUME NEW k \in Keys, NEW e \in EthTxs, CompleteTokenization(k, e), ~UNCHANGED vars
      PROVE  ProductsKept
  <2>1. PICK b : b = ledger[k].batchId
    OBVIOUS
  <2>2. Completes(k, b, e)
    BY <1>9, <2>1, CompleteEffect
  <2>3. QED BY <1>1, <1>2, <2>2, OtherKindsKeepProducts DEF Completes
<1>10. QED
  BY <1>3, <1>4, <1>5, <1>6, <1>7, <1>8, <1>9, ProductNextMoves
     DEF Next, MemberNext, BridgeNext, ProductNext

LEMMA NextNFTInv == CottonInv /\ NFTInv /\ [Next]_vars => NFTInv'
<1> SUFFICES ASSUME CottonInv, NFTInv, [Next]_vars PROVE NFTInv'
  OBVIOUS
<1>1. TypeOK /\ RequestsBacked
  BY DEF CottonInv
<1>2. CASE ProductsKept
  <2>1. \A k \in Keys : IsManufactured(k)' => IsManufactured(k) /\ ledger'[k] = ledger[k]
    BY <1>2 DEF ProductsKept, IsManufactured, Has, Exists
  <2>2. NFTStages'
    BY <2>1 DEF NFTInv, NFTStages
  <2>3. MintingsAnnounced'
    BY <1>2, <2>1 DEF NFTInv, MintingsAnnounced, ProductsKept
  <2>4. QED BY <2>2, <2>3 DEF NFTInv
<1>3. ASSUME NEW k \in Keys, NFTMove(k)
      PROVE  NFTInv'
  <2>1. \A j \in Keys \ {k} : /\ ledger'[j] = ledger[j]
                              /\ Exists(j)' <=> Exists(j)
                              /\ IsManufactured(j)' <=> IsManufactured(j)
    BY <1>3 DEF NFTMove, OnlyWrites, IsManufactured, Has, Exists
  <2>2. /\ IsManufactured(k)' <=> ledger'[k].kind = "manufactured"
        /\ IsManufactured(k)' /\ Exists(k) => IsManufactured(k)
    BY <1>3 DEF NFTMove, IsManufactured, Has, Exists
  <2>3. NFTStages'
    BY <1>3, <2>1, <2>2 DEF NFTInv, NFTStages, NFTMove
  <2>4. MintingsAnnounced'
    BY <1>3, <2>1, <2>2 DEF NFTInv, MintingsAnnounced, NFTMove
  <2>5. QED BY <2>3, <2>4 DEF NFTInv
<1>4. QED BY <1>1, <1>2, <1>3, NextProducts

-----------------------------------------------------------------------------
(* What a reader of the events can rely on                                 *)

\* The event of a step; one that asks for an NFT says of its product what the
\* ledger does.
Announces(e) ==
  /\ e \in Events /\ Emit(e)
  /\ e.name = "NFTMintingRequested" =>
       /\ e.productId \in Keys /\ IsProduct(e.productId)
       /\ e.complete <=> ledger[e.productId].kind = "manufactured"

LEMMA StepEvents ==
  ASSUME TypeOK, [Next]_vars
  PROVE  UNCHANGED events \/ \E e : Announces(e)
<1>1. ASSUME NEW k \in Keys, NEW c \in Certs, VerifyCottonBatch(k, c)
      PROVE  \E e : Announces(e)
  <2> DEFINE e == [name |-> "CottonBatchVerified", batchId |-> k]
  <2>1. e \in Events /\ e.name # "NFTMintingRequested"
    BY DEF Events
  <2>2. Emit(e)
    BY <1>1 DEF VerifyCottonBatch
  <2> HIDE DEF e
  <2>3. QED BY <2>1, <2>2 DEF Announces
<1>2. ASSUME NEW k \in Keys, ApproveTokenizationRequest(k)
      PROVE  \E e : Announces(e)
  <2> DEFINE e == [name |-> "TokenizationRequested", requestId |-> k,
                   batchId |-> ledger[k].batchId, quantity |-> ledger[k].quantity,
                   warehouse |-> ledger[k].warehouse]
  <2>1. ledger[k] \in Requests /\ Emit(e)
    BY <1>2, KindsOfRecords DEF ApproveTokenizationRequest, Approvable
  <2>2. e \in Events /\ e.name # "NFTMintingRequested"
    BY <2>1 DEF Events, Requests
  <2> HIDE DEF e
  <2>3. QED BY <2>1, <2>2 DEF Announces
<1>3. ASSUME NEW k \in Keys, NEW t \in MintTerms, RequestNFTMinting(k, t)
      PROVE  \E e : Announces(e)
  <2>1. IsProduct(k) /\ Emit(NFTRequest(k, t))
    BY <1>3 DEF RequestNFTMinting, NFTRequest
  <2>2. /\ NFTRequest(k, t) \in Events /\ NFTRequest(k, t).productId = k
        /\ NFTRequest(k, t).complete <=> ledger[k].kind = "manufactured"
    BY DEF Events, NFTRequest
  <2>3. QED BY <2>1, <2>2 DEF Announces
<1>4. QED
  BY <1>1, <1>2, <1>3
     DEF Next, MemberNext, BridgeNext, vars, RegisterProduct, TransferCustody,
         UpdateStatus, AddCertification, RegisterCottonBatch, StoreCottonBatch,
         RequestTokenization, CreateFinishedProduct, CompleteTokenization, MintNFT,
         RecordRecycling

-----------------------------------------------------------------------------
(* Theorems                                                                *)

LEMMA InductiveInv == Spec => [](CottonInv /\ NFTInv)
<1>1. Init => CottonInv /\ NFTInv
  BY InitCottonInv, InitNFTInv
<1>2. CottonInv /\ NFTInv /\ [Next]_vars => (CottonInv /\ NFTInv)'
  BY NextCottonInv, NextNFTInv
<1>3. QED BY <1>1, <1>2, PTL DEF Spec

\* The ledger holds well-formed records only, whatever the order of the calls.
THEOREM TypeCorrect == Spec => []TypeOK
<1>1. CottonInv => TypeOK
  BY DEF CottonInv
<1>2. QED BY <1>1, InductiveInv, PTL

\* Every request rests on a verified batch that names it, is announced once
\* when it is approved and with its own figures, and agrees with its batch on
\* the completion: what the bridge mints from announcements is backed.
THEOREM RequestsAreFaithful == Spec => []RequestsFaithful
<1>1. ASSUME CottonInv PROVE RequestsFaithful
  <2>1. \A i : Cardinality({i}) = 1
    BY FS_Singleton
  <2>2. Cardinality({}) = 0
    BY FS_EmptySet
  <2>3. ApprovalAnnouncedOnce
    BY <1>1, <2>1, <2>2 DEF CottonInv, ApprovalsAnnounced, Approved, ApprovalAnnouncedOnce
  <2>4. QED BY <1>1, <2>3 DEF CottonInv, RequestsFaithful
<1>2. QED BY <1>1, InductiveInv, PTL

\* A manufactured product asks for its NFT at most once, and its token id and
\* recycling receipt are there exactly in the states that say so.
THEOREM NFTStateIsFaithful == Spec => []NFTStateAgrees
<1>1. ASSUME NFTInv PROVE NFTStateAgrees
  <2>1. \A i : Cardinality({i}) = 1
    BY FS_Singleton
  <2>2. Cardinality({}) = 0
    BY FS_EmptySet
  <2>3. QED BY <1>1, <2>1, <2>2 DEF NFTInv, NFTStages, MintingsAnnounced, IsManufactured,
                                   NFTStateAgrees
<1>2. QED BY <1>1, InductiveInv, PTL

\* A record that a step does not write keeps its lifecycle and its receipts.
LEMMA UnwrittenRecord ==
  ASSUME NEW k \in Keys, ledger'[k] = ledger[k]
  PROVE  CottonMovesOn(k) /\ AcknowledgmentsStay(k)
BY DEF CottonMovesOn, AcknowledgmentsStay, Exists

LEMMA StepKeepsRecords ==
  ASSUME CottonInv, [Next]_vars, NEW j \in Keys
  PROVE  CottonMovesOn(j) /\ AcknowledgmentsStay(j)
<1> USE ChaincodeAssumption
<1>1. TypeOK /\ RequestsBacked /\ (IsRequest(j) => ledger[j].batchId \in Keys)
  BY KindsOfRecords DEF CottonInv, Requests
<1>2. ASSUME NEW W, OnlyWrites(W), j \notin W
      PROVE  CottonMovesOn(j) /\ AcknowledgmentsStay(j)
  BY <1>2, UnwrittenRecord DEF OnlyWrites
<1>3. CASE UNCHANGED vars
  BY <1>3, UnwrittenRecord DEF vars
<1>4. ASSUME NEW k \in Keys, ProductNext(k), ~UNCHANGED vars
      PROVE  CottonMovesOn(j) /\ AcknowledgmentsStay(j)
  <2>1. NFTMove(k)
    BY <1>1, <1>4, ProductNextMoves
  <2>2. CASE j = k
    BY <2>1, <2>2 DEF NFTMove, CottonMovesOn, AcknowledgmentsStay, Exists, IsProduct, Has
  <2>3. QED BY <1>2, <2>1, <2>2 DEF NFTMove
<1>5. ASSUME NEW k \in Keys, NEW q \in 1 .. MaxKg, RegisterCottonBatch(k, q)
      PROVE  CottonMovesOn(j) /\ AcknowledgmentsStay(j)
  <2>1. Registered(k)
    BY <1>1, <1>5, RegisterBatchEffect
  <2>2. CASE j = k
    BY <2>1, <2>2
       DEF Registered, CottonMovesOn, AcknowledgmentsStay, IsRequest, IsProduct, Has
  <2>3. QED BY <1>2, <2>1, <2>2 DEF Registered
<1>6. ASSUME NEW k \in Keys, NEW c \in Certs, VerifyCottonBatch(k, c)
      PROVE  CottonMovesOn(j) /\ AcknowledgmentsStay(j)
  <2>1. Verified(k)
    BY <1>1, <1>6, VerifyEffect
  <2>2. ledger[k].certificationHash = Null
    BY <2>1 DEF Verified, CottonInv, BatchStages
  <2>3. CASE j = k
    BY <2>1, <2>2, <2>3
       DEF Verified, CottonMovesOn, AcknowledgmentsStay, IsBatch, IsProduct, Has, Exists
  <2>4. QED BY <1>2, <2>1, <2>3 DEF Verified
<1>7. ASSUME NEW k \in Keys, NEW w \in Warehouses, StoreCottonBatch(k, w)
      PROVE  CottonMovesOn(j) /\ AcknowledgmentsStay(j)
  <2>1. Stored(k)
    BY <1>1, <1>7, StoreEffect
  <2>2. CASE j = k
    BY <2>1, <2>2
       DEF Stored, CottonMovesOn, AcknowledgmentsStay, IsBatch, IsProduct, Has, Exists
  <2>3. QED BY <1>2, <2>1, <2>2 DEF Stored
<1>8. ASSUME NEW k \in Keys, NEW b \in Keys, NEW q \in 1 .. MaxKg,
             NEW w \in Warehouses, RequestTokenization(k, b, q, w)
      PROVE  CottonMovesOn(j) /\ AcknowledgmentsStay(j)
  <2>1. Pledged(k, b, q, w)
    BY <1>1, <1>8, RequestEffect
  <2>2. CASE j = k
    BY <2>1, <2>2
       DEF Pledged, CottonMovesOn, AcknowledgmentsStay, IsRequest, IsProduct, Has
  <2>3. CASE j = b
    BY <2>1, <2>3
       DEF Pledged, CottonMovesOn, AcknowledgmentsStay, IsBatch, IsProduct, Has, Exists
  <2>4. QED BY <1>2, <2>1, <2>2, <2>3 DEF Pledged
<1>9. ASSUME NEW k \in Keys, ApproveTokenizationRequest(k)
      PROVE  CottonMovesOn(j) /\ AcknowledgmentsStay(j)
  <2>1. Approves(k)
    BY <1>1, <1>9, ApproveEffect
  <2>2. CASE j = k
    BY <2>1, <2>2
       DEF Approves, CottonMovesOn, AcknowledgmentsStay, IsRequest, IsProduct, Has, Exists
  <2>3. QED BY <1>2, <2>1, <2>2 DEF Approves
<1>10. ASSUME NEW k \in Keys, NEW e \in EthTxs, CompleteTokenization(k, e), ~UNCHANGED vars
       PROVE  CottonMovesOn(j) /\ AcknowledgmentsStay(j)
  <2>1. PICK b : b = ledger[k].batchId
    OBVIOUS
  <2>2. Completes(k, b, e)
    BY <1>1, <1>10, <2>1, CompleteEffect
  \* The request was approved and not completed, so it had no receipt yet.
  <2>3. /\ ledger[b].rwaStatus = "VERIFIED" /\ ledger[b].status = "STORED"
        /\ ledger[k].ethTx = Null
    BY <2>2 DEF Completes, CottonInv, RequestsBacked, CompletionAgrees, BatchStages
  <2>4. CASE j = k
    BY <2>2, <2>3, <2>4
       DEF Completes, CottonMovesOn, AcknowledgmentsStay, IsRequest, IsProduct, Has, Exists
  <2>5. CASE j = b
    BY <2>2, <2>3, <2>5
       DEF Completes, CottonMovesOn, AcknowledgmentsStay, IsBatch, IsProduct, Has, Exists
  <2>6. QED BY <1>2, <2>2, <2>4, <2>5 DEF Completes
<1>11. QED
  BY <1>3, <1>4, <1>5, <1>6, <1>7, <1>8, <1>9, <1>10
     DEF Next, MemberNext, BridgeNext, ProductNext

\* No transaction overwrites another function's record or takes cotton back
\* in its lifecycle, and a batch keeps its quantity and verified provenance.
THEOREM CottonOnlyMovesOn == Spec => CottonLifecycle
<1>1. CottonInv /\ [Next]_vars => [\A k \in Keys : CottonMovesOn(k)]_vars
  BY StepKeepsRecords
<1>2. QED BY <1>1, InductiveInv, PTL DEF Spec, CottonLifecycle

\* The receipts and token ids that the bridge acknowledged are final.
THEOREM AcknowledgmentsAreFinal == Spec => AcknowledgmentsFinal
<1>1. CottonInv /\ [Next]_vars => [\A k \in Keys : AcknowledgmentsStay(k)]_vars
  BY StepKeepsRecords
<1>2. QED BY <1>1, InductiveInv, PTL DEF Spec, AcknowledgmentsFinal

=============================================================================
