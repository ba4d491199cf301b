------------------------ MODULE VerifiedBridgePromises ------------------------
(***************************************************************************)
(* What the bridge promises, for all constants: composed with both ledgers *)
(* it implements RelayPromise, for tokenization requests and for the NFTs  *)
(* of products; and whatever it has read and Fabric does not show as       *)
(* settled it still holds, in the queue or in the batch.                   *)
(***************************************************************************)
EXTENDS VerifiedBridgeProofs

-----------------------------------------------------------------------------
(* The bridge keeps the promise it makes of requests                       *)

MintsFor(r) ==
  {t \in DOMAIN txs : /\ txs[t].status = "mined"
                      /\ txs[t].action.type = "tokenization"
                      /\ Event(txs[t].action).requestId = r}

Recorded(r) == IF Fabric!IsRequest(r) THEN ledger[r].ethTx ELSE Null

\* The state of the promise.
ApprovedRequests == {r \in RequestIds : IsApproved(r)}
MintsByRequest == [r \in RequestIds |-> MintsFor(r)]
RecordedByRequest == [r \in RequestIds |-> Recorded(r)]

\* What mints for a request is sent for an approval of it.
MintsAreApproved ==
  /\ \A t, i : t \in MintsOf(Tokenization(i)) => i \in Approvals
  /\ \A r \in RequestIds : \A t :
       t \in MintsFor(r) <=>
         \E i \in Approvals : events[i].requestId = r /\ t \in MintsOf(Tokenization(i))

LEMMA ApprovedMints == BridgeInv => MintsAreApproved
<1> SUFFICES ASSUME BridgeInv PROVE MintsAreApproved
  OBVIOUS
<1>1. \A t \in DOMAIN txs : txs[t].action \in Asked
  BY SendFacts DEF BridgeInv
<1>2. ASSUME NEW t, NEW i, t \in MintsOf(Tokenization(i)) PROVE i \in Approvals
  <2>1. Tokenization(i) \in Asked
    BY <1>1, <1>2 DEF MintsOf
  <2>2. QED BY <2>1, AskedKinds DEF Tokenization
<1>3. ASSUME NEW r \in RequestIds, NEW t, t \in MintsFor(r)
      PROVE  \E i \in Approvals : events[i].requestId = r /\ t \in MintsOf(Tokenization(i))
  <2>1. t \in DOMAIN txs /\ txs[t].action \in Asked /\ txs[t].action.type = "tokenization"
        /\ events[txs[t].action.ref].requestId = r /\ txs[t].status = "mined"
    BY <1>1, <1>3 DEF MintsFor, Event
  <2>2. txs[t].action.ref \in Approvals /\ txs[t].action = Tokenization(txs[t].action.ref)
    BY <2>1, AskedKinds
  <2>3. QED BY <2>1, <2>2 DEF MintsOf
<1>4. ASSUME NEW r \in RequestIds, NEW t, NEW i \in Approvals, events[i].requestId = r,
             t \in MintsOf(Tokenization(i))
      PROVE  t \in MintsFor(r)
  BY <1>4 DEF MintsOf, MintsFor, Event, Tokenization
<1>5. QED BY <1>2, <1>3, <1>4 DEF MintsAreApproved

LEMMA ApprovedMintsAfterStep == BridgeInv' => MintsAreApproved'
BY ApprovedMints, PTL

\* A step that mints for no request leaves all mints as they are.
LEMMA SameMints ==
  ASSUME BridgeInv, BridgeInv', [Next]_vars,
         \A i : MintsOf(Tokenization(i))' = MintsOf(Tokenization(i))
  PROVE  MintsByRequest' = MintsByRequest
<1>1. MintsAreApproved /\ MintsAreApproved'
  BY ApprovedMints, ApprovedMintsAfterStep
<1>2. \A i \in Approvals : i \in Approvals' /\ events'[i] = events[i]
  BY StepKeepsLedger DEF LedgerStays, Approvals
<1>3. ASSUME NEW r \in RequestIds, NEW t, t \in MintsFor(r) PROVE t \in MintsFor(r)'
  BY <1>1, <1>2, <1>3 DEF MintsAreApproved
<1>4. ASSUME NEW r \in RequestIds, NEW t, t \in MintsFor(r)' PROVE t \in MintsFor(r)
  <2>1. PICK i \in Approvals' : events'[i].requestId = r /\ t \in MintsOf(Tokenization(i))'
    BY <1>1, <1>4 DEF MintsAreApproved
  <2>2. t \in MintsOf(Tokenization(i))
    BY <2>1
  <2>3. i \in Approvals
    BY <1>1, <2>2 DEF MintsAreApproved
  <2>4. QED BY <1>1, <1>2, <2>1, <2>2, <2>3 DEF MintsAreApproved
<1>5. \A r \in RequestIds : MintsFor(r)' = MintsFor(r)
  BY <1>3, <1>4
<1>6. QED BY <1>5 DEF MintsByRequest

\* An approved request is not completed, and has no receipt.
LEMMA NotYetRecorded ==
  ASSUME LedgersInv, NEW r \in RequestIds, Fabric!IsRequest(r), ledger[r].status = "APPROVED"
  PROVE  ledger[r].ethTx = Null
<1>1. r \in Keys /\ Chaincode!IsRequest(r)
  BY SameRecords DEF Keys
<1>2. ledger[r].batchId \in Keys
  BY <1>1, ComponentsAssumption, SameRecords, Chaincode!KindsOfRecords
     DEF LedgersInv, Chaincode!CottonInv, Chaincode!Requests
<1>3. /\ Chaincode!IsBatch(ledger[r].batchId)
      /\ ledger[ledger[r].batchId].rwaStatus # "TOKENIZED"
      /\ ledger[r].ethTx = ledger[ledger[r].batchId].tokenizationId
  BY <1>1 DEF LedgersInv, Chaincode!CottonInv, Chaincode!RequestsBacked,
              Chaincode!CompletionAgrees
<1>4. ledger[ledger[r].batchId].tokenizationId = Null
  BY <1>2, <1>3 DEF LedgersInv, Chaincode!CottonInv, Chaincode!BatchStages
<1>5. QED BY <1>3, <1>4

LEMMA MintKeepsPromise ==
  ASSUME AllInv, AllInv', [Next]_vars, NEW t, NEW a, MintedBy(t, a), a.type = "tokenization"
  PROVE  \E r \in RequestIds : TokenizationPromise!Mint(r, t) /\ t \in 1 .. MaxSends
<1>1. BridgeInv /\ BridgeInv' /\ MintsAreApproved /\ MintsAreApproved'
  BY ApprovedMints, ApprovedMintsAfterStep DEF AllInv
<1>2. /\ t \in DOMAIN txs /\ a = txs[t].action /\ a \in Asked
      /\ MintsOf(a) = {} /\ MintsOf(a)' = {t} /\ UNCHANGED fabricVars
      /\ \A c : c # a => MintsOf(c)' = MintsOf(c)
  BY DEF MintedBy
<1>3. events' = events /\ ledger' = ledger /\ Approvals' = Approvals
  BY <1>2 DEF fabricVars, Approvals
<1>4. PICK i \in Approvals : a = Tokenization(i)
  BY <1>2, AskedKinds
<1>5. PICK r \in RequestIds : /\ r = events[i].requestId /\ IsApproved(r)
                              /\ \A j \in Approvals : events[j].requestId = r => j = i
  BY <1>1, ApprovedRequest DEF BridgeInv
<1>6. \A q \in RequestIds : t \notin MintsFor(q)
  <2>1. \A c : t \in MintsOf(c) => c = a
    BY <1>2 DEF MintsOf
  <2>2. QED BY <1>1, <1>2, <2>1 DEF MintsAreApproved
<1>7. MintsFor(r) = {}
  BY <1>1, <1>2, <1>4, <1>5 DEF MintsAreApproved
<1>8. MintsFor(r)' = {t}
  <2>1. t \in MintsFor(r)'
    BY <1>1, <1>2, <1>3, <1>4, <1>5 DEF MintsAreApproved
  <2>2. ASSUME NEW u \in MintsFor(r)' PROVE u = t
    <3>1. PICK j \in Approvals : events[j].requestId = r /\ u \in MintsOf(Tokenization(j))'
      BY <1>1, <1>3, <2>2 DEF MintsAreApproved
    <3>2. j = i
      BY <1>5, <3>1
    <3>3. QED BY <1>2, <1>4, <3>1, <3>2
  <2>3. QED BY <2>1, <2>2
<1>9. ASSUME NEW q \in RequestIds \ {r} PROVE MintsFor(q)' = MintsFor(q)
  <2>1. \A j \in Approvals : events[j].requestId = q =>
          MintsOf(Tokenization(j))' = MintsOf(Tokenization(j))
    <3> SUFFICES ASSUME NEW j \in Approvals, events[j].requestId = q
                 PROVE  MintsOf(Tokenization(j))' = MintsOf(Tokenization(j))
      OBVIOUS
    <3>1. j # i
      BY <1>5
    <3>2. Tokenization(j) # a
      BY <1>4, <3>1 DEF Tokenization
    <3>3. QED BY <1>2, <3>2
  <2>2. \A u : u \in MintsFor(q)' <=> u \in MintsFor(q)
    BY <1>1, <1>3, <2>1 DEF MintsAreApproved
  <2>3. QED BY <2>2
<1>10. MintsByRequest' = [MintsByRequest EXCEPT ![r] = {t}]
  BY <1>8, <1>9 DEF MintsByRequest
<1>11. ApprovedRequests' = ApprovedRequests /\ RecordedByRequest' = RecordedByRequest
  BY <1>3 DEF ApprovedRequests, IsApproved, RecordedByRequest, Recorded, Fabric!IsRequest,
              Fabric!Has, Fabric!Exists
<1>12. t \in 1 .. MaxSends
  BY <1>1, <1>2, SendFacts, LenProperties, BridgeAssumption DEF BridgeInv, WalletInv
<1>13. /\ r \in ApprovedRequests /\ MintsByRequest[r] = {}
       /\ \A q \in RequestIds : t \notin MintsByRequest[q]
  BY <1>5, <1>6, <1>7 DEF ApprovedRequests, MintsByRequest
<1>14. TokenizationPromise!Mint(r, t)
  BY <1>10, <1>11, <1>13
     DEF TokenizationPromise!Mint, ApprovedRequests, MintsByRequest, RecordedByRequest, MintsFor,
         Recorded
<1>15. QED BY <1>12, <1>14

\* A move of a request is an approval or an acknowledgment that was promised.
LEMMA MoveKeepsPromise ==
  ASSUME AllInv, AllInv', [Next]_vars, MintsByRequest' = MintsByRequest,
         NEW r \in RequestIds, RequestMoves(r),
         \A o \in RequestIds \ {r} : ledger'[o] = ledger[o]
  PROVE  \/ TokenizationPromise!Approve(r) \/ TokenizationPromise!Acknowledge(r)
         \/ UNCHANGED TokenizationPromise!vars
<1>1. /\ BridgeInv /\ LedgersInv /\ MintsAreApproved
      /\ \A o \in RequestIds \ {r} :
           (IsApproved(o)' <=> IsApproved(o)) /\ Recorded(o)' = Recorded(o)
  BY ApprovedMints DEF AllInv, BridgeInv, IsApproved, Recorded, Fabric!IsRequest, Fabric!Has,
                       Fabric!Exists
<1>2. CASE /\ ~Fabric!Exists(r) /\ Fabric!IsRequest(r)'
           /\ ledger'[r].status = "PENDING" /\ ledger'[r].ethTx = Null
  <2>1. ~IsApproved(r) /\ ~IsApproved(r)' /\ Recorded(r) = Null /\ Recorded(r)' = Null
    BY <1>2 DEF IsApproved, Recorded, Fabric!IsRequest, Fabric!Has
  <2>2. ApprovedRequests' = ApprovedRequests /\ RecordedByRequest' = RecordedByRequest
    BY <1>1, <2>1 DEF ApprovedRequests, RecordedByRequest
  <2>3. QED
    BY <2>2 DEF TokenizationPromise!vars, ApprovedRequests, MintsByRequest, RecordedByRequest,
                MintsFor, Recorded
<1>3. CASE /\ Fabric!IsRequest(r) /\ Fabric!IsRequest(r)'
           /\ ledger[r].status = "PENDING" /\ ledger'[r].status = "APPROVED"
           /\ ledger'[r].ethTx = ledger[r].ethTx
  <2>1. ~IsApproved(r) /\ IsApproved(r)' /\ Recorded(r)' = Recorded(r)
    BY <1>3 DEF IsApproved, Recorded
  <2>2. /\ r \notin ApprovedRequests /\ ApprovedRequests' = ApprovedRequests \cup {r}
        /\ RecordedByRequest' = RecordedByRequest
    BY <1>1, <2>1 DEF ApprovedRequests, RecordedByRequest
  <2>3. TokenizationPromise!Approve(r)
    BY <2>2 DEF TokenizationPromise!Approve, ApprovedRequests, MintsByRequest,
                RecordedByRequest, MintsFor, Recorded
  <2>4. QED BY <2>3
<1>4. CASE /\ Fabric!IsRequest(r) /\ Fabric!IsRequest(r)'
           /\ ledger[r].status = "APPROVED" /\ ledger'[r].status = "COMPLETED"
           /\ \E i \in Approvals : /\ events[i].requestId = r
                                   /\ ledger'[r].ethTx \in MintsOf(Tokenization(i))
  <2>1. IsApproved(r) /\ IsApproved(r)'
    BY <1>4 DEF IsApproved
  <2>2. Recorded(r) = Null
    BY <1>1, <1>4, NotYetRecorded DEF Recorded
  <2>3. PICK t : t = ledger'[r].ethTx
    OBVIOUS
  <2>4. Recorded(r)' = t /\ t \in MintsFor(r)
    BY <1>1, <1>4, <2>3 DEF Recorded, MintsAreApproved
  <2>5. ApprovedRequests' = ApprovedRequests
    BY <1>1, <2>1 DEF ApprovedRequests
  <2>6. /\ RecordedByRequest' = [RecordedByRequest EXCEPT ![r] = t]
        /\ RecordedByRequest[r] = Null /\ t \in MintsByRequest[r]
    BY <1>1, <2>2, <2>4 DEF RecordedByRequest, MintsByRequest
  <2>7. TokenizationPromise!Acknowledge(r)
    BY <2>5, <2>6 DEF TokenizationPromise!Acknowledge, ApprovedRequests, MintsByRequest,
                      RecordedByRequest, MintsFor, Recorded
  <2>8. QED BY <2>7
<1>5. QED BY <1>2, <1>3, <1>4 DEF RequestMoves

LEMMA StepKeepsPromise ==
  AllInv /\ AllInv' /\ [Next]_vars => [TokenizationPromise!Next]_(TokenizationPromise!vars)
<1> SUFFICES ASSUME AllInv, AllInv', [Next]_vars
             PROVE  [TokenizationPromise!Next]_(TokenizationPromise!vars)
  OBVIOUS
<1>1. BridgeInv /\ BridgeInv'
  BY DEF AllInv
<1>2. ASSUME NEW t, NEW a, MintedBy(t, a), a.type = "tokenization"
      PROVE  TokenizationPromise!Next
  BY <1>2, MintKeepsPromise DEF TokenizationPromise!Next
<1>3. ASSUME \A i : MintsOf(Tokenization(i))' = MintsOf(Tokenization(i))
      PROVE  [TokenizationPromise!Next]_(TokenizationPromise!vars)
  <2>1. MintsByRequest' = MintsByRequest
    BY <1>1, <1>3, SameMints
  <2>2. CASE RequestsKept
    <3>1. ApprovedRequests' = ApprovedRequests /\ RecordedByRequest' = RecordedByRequest
      BY <2>2 DEF RequestsKept, ApprovedRequests, IsApproved, RecordedByRequest, Recorded,
                  Fabric!IsRequest, Fabric!Has, Fabric!Exists
    <3>2. QED
      BY <2>1, <3>1 DEF TokenizationPromise!vars, ApprovedRequests, MintsByRequest,
                        RecordedByRequest, MintsFor, Recorded
  <2>3. CASE \E r \in RequestIds : /\ RequestMoves(r)
                                   /\ \A o \in RequestIds \ {r} : ledger'[o] = ledger[o]
    BY <2>1, <2>3, MoveKeepsPromise DEF TokenizationPromise!Next
  <2>4. QED BY <1>1, <2>2, <2>3, NextRequests DEF RequestsMove
<1>4. ASSUME NEW t, NEW a, MintedBy(t, a), a.type # "tokenization", NEW i
      PROVE  MintsOf(Tokenization(i))' = MintsOf(Tokenization(i))
  <2>1. Tokenization(i) # a
    BY <1>4 DEF Tokenization
  <2>2. QED BY <1>4, <2>1 DEF MintedBy
<1>5. CASE NoMint
  <2>1. \A i : MintsOf(Tokenization(i))' = MintsOf(Tokenization(i))
    BY <1>5 DEF NoMint
  <2>2. QED BY <1>3, <2>1
<1>6. QED BY <1>1, <1>2, <1>3, <1>4, <1>5, MintsMove

LEMMA InitKeepsPromise == Init => TokenizationPromise!Init
<1> SUFFICES ASSUME Init PROVE TokenizationPromise!Init
  OBVIOUS
<1>1. /\ \A k \in Keys : ledger[k] = Null
      /\ txs = <<>>
  BY DEF Init, Fabric!Init, Wallet!Init, Keys
<1>2. \A r \in RequestIds : ~Fabric!IsRequest(r)
  BY <1>1 DEF Keys, Fabric!IsRequest, Fabric!Has, Fabric!Exists
<1>3. QED BY <1>1, <1>2 DEF TokenizationPromise!Init, IsApproved

\* Fabric, the bridge and Ethereum together do what the relay promises of
\* requests for COT: approved, then minted for once, then completed with the hash
\* of the transaction that minted, whatever is lost, retried or restarted.
THEOREM BridgeKeepsTokenizationPromise == Spec => ImplementsTokenizationPromise
BY AllInvariant, InitKeepsPromise, StepKeepsPromise, PTL
   DEF Spec, ImplementsTokenizationPromise, TokenizationPromise!Spec

-----------------------------------------------------------------------------
(* The bridge keeps the promise it makes of products                       *)

TokensFor(p) == {id \in 1 .. tokenIdCounter : productData[id].fabricProductId = p}
RecordedNFT(p) == IF Fabric!IsProduct(p) THEN ledger[p].nftTokenId ELSE Null
NFTApproved(p) == Fabric!Has(p, {"manufactured"}) /\ ledger[p].status # "FINISHED"

\* The state of the promise.
ApprovedProducts == {p \in ProductIds : NFTApproved(p)}
TokensByProduct == [p \in ProductIds |-> TokensFor(p)]
RecordedByProduct == [p \in ProductIds |-> RecordedNFT(p)]

\* A product has the one token that the contract names, and Fabric no other; a
\* product without lineage has none.
ProductTokens ==
  \A p \in ProductIds :
    LET token == fabricToTokenId[p]
    IN  /\ TokensFor(p) = IF token = 0 THEN {} ELSE {token}
        /\ Fabric!IsProduct(p) =>
             /\ ledger[p].nftTokenId # Null => token # 0 /\ ledger[p].nftTokenId = token
             /\ ledger[p].kind # "manufactured" => ledger[p].nftTokenId = Null

LEMMA TokensOfProducts == AllInv => ProductTokens
<1> SUFFICES ASSUME AllInv, NEW p \in ProductIds, NEW token, token = fabricToTokenId[p]
             PROVE  /\ TokensFor(p) = IF token = 0 THEN {} ELSE {token}
                    /\ Fabric!IsProduct(p) =>
                         /\ ledger[p].nftTokenId # Null =>
                              token # 0 /\ ledger[p].nftTokenId = token
                         /\ ledger[p].kind # "manufactured" => ledger[p].nftTokenId = Null
  BY DEF ProductTokens
<1>1. LedgersInv /\ Tokens!TokensInv /\ ProductsInv
  BY DEF AllInv, BridgeInv, LedgersInv
<1>2. tokenIdCounter \in 0 .. MaxTokens /\ MaxTokens \in Nat /\ token \in 0 .. tokenIdCounter
  BY <1>1, TokenFacts, BridgeAssumption
<1>3. ASSUME NEW id \in 1 .. tokenIdCounter, productData[id].fabricProductId = p
      PROVE  id = token
  <2>1. id \in Tokens!TokenIds /\ Tokens!Minted(id)
    BY <1>1, <1>2 DEF Tokens!TokenIds, Tokens!TokensInv, Tokens!TokensNumbered
  <2>2. QED BY <1>1, <1>3, <2>1 DEF Tokens!TokensInv, Tokens!OneTokenPerProduct
<1>4. token # 0 => token \in 1 .. tokenIdCounter /\ productData[token].fabricProductId = p
  BY <1>1, <1>2 DEF Tokens!TokensInv, Tokens!OneTokenPerProduct
<1>5. TokensFor(p) = IF token = 0 THEN {} ELSE {token}
  <2>1. CASE token = 0
    BY <1>2, <1>3, <2>1 DEF TokensFor
  <2>2. CASE token # 0
    BY <1>3, <1>4, <2>2 DEF TokensFor
  <2>3. QED BY <2>1, <2>2
<1>6. ASSUME Fabric!IsProduct(p), ledger[p].nftTokenId # Null
      PROVE  token # 0 /\ ledger[p].nftTokenId = token /\ ledger[p].kind = "manufactured"
  <2>1. ledger[p].nftTokenId = token
    BY <1>1, <1>6 DEF ProductsInv, TokenKnown
  <2>2. ledger[p].nftTokenId \in NftIds \cup {Null}
    <3>1. ledger[p] \in Chaincode!Products
      BY <1>1, <1>6, ProductRecords DEF ProductsAreWhole
    <3>2. QED BY <3>1 DEF Chaincode!Products
  <2>3. token # 0
    BY <1>6, <2>1, <2>2, BridgeAssumption DEF NftIds
  <2>4. PICK i \in Mintings : TokenFits(token, i)
    BY <1>1, <1>4, <2>3 DEF ProductsInv, TokensAsked
  <2>5. events[i].complete /\ events[i].productId = p
    BY <1>4, <2>3, <2>4 DEF TokenFits
  <2>6. Fabric!Has(p, {"manufactured"})
    BY <1>1, <2>5, AskedProducts
  <2>7. QED BY <2>1, <2>3, <2>6 DEF Fabric!Has
<1>7. QED BY <1>5, <1>6

LEMMA TokensOfProductsAfterStep == AllInv' => ProductTokens'
BY TokensOfProducts, PTL

\* A mint of an NFT is one that was promised: of a product that asked for it.
LEMMA NFTMintKeepsPromise ==
  ASSUME AllInv, AllInv', [Next]_vars, NEW t, NEW a, MintedBy(t, a), a.type = "nftMinting"
  PROVE  NFTPromise!Next
<1>1. LedgersInv /\ ProductTokens /\ ProductTokens'
  BY TokensOfProducts, TokensOfProductsAfterStep DEF AllInv, BridgeInv
<1>2. PICK i \in Mintings : i = a.ref /\ events[i].complete
  <2>1. Sendable(a) /\ a \in Asked
    BY SendFacts DEF MintedBy, AllInv, BridgeInv
  <2>2. QED BY <2>1, AskedKinds DEF Sendable, Event
<1>3. PICK p \in ProductIds : p = events[i].productId /\ NFTApproved(p)
  BY <1>1, <1>2, AskedProducts DEF NFTApproved
<1>4. PICK n : n = tokenIdCounter + 1
  OBVIOUS
<1>5. /\ fabricToTokenId[p] = 0 /\ tokenIdCounter < MaxTokens
      /\ fabricToTokenId' = [fabricToTokenId EXCEPT ![p] = n]
      /\ UNCHANGED ledger
  BY <1>2, <1>3, <1>4
     DEF MintedBy, Mint, NFT!MintProduct, NFT!NotUsed, NFT!NewTokenId, Event, fabricVars
<1>6. n \in 1 .. MaxTokens /\ n \notin 1 .. tokenIdCounter /\ n # 0
  BY <1>1, <1>4, <1>5, TokenFacts, BridgeAssumption
<1>7. fabricToTokenId \in [ProductIds -> 0 .. MaxTokens]
  BY <1>1 DEF LedgersInv, Tokens!TokensInv, Tokens!TypeOK
<1>8. /\ TokensFor(p) = {} /\ TokensFor(p)' = {n}
      /\ \A q \in ProductIds \ {p} : TokensFor(q)' = TokensFor(q)
  BY <1>1, <1>5, <1>6, <1>7 DEF ProductTokens
<1>9. /\ p \in ApprovedProducts /\ TokensByProduct[p] = {}
      /\ \A q \in ProductIds : n \notin TokensByProduct[q]
      /\ TokensByProduct' = [TokensByProduct EXCEPT ![p] = {n}]
  BY <1>3, <1>6, <1>8 DEF ApprovedProducts, TokensByProduct, TokensFor
<1>10. ApprovedProducts' = ApprovedProducts /\ RecordedByProduct' = RecordedByProduct
  BY <1>5 DEF ApprovedProducts, NFTApproved, RecordedByProduct, RecordedNFT, Fabric!IsProduct,
              Fabric!Has, Fabric!Exists
<1>11. NFTPromise!Mint(p, n)
  BY <1>9, <1>10
     DEF NFTPromise!Mint, ApprovedProducts, NFTApproved, TokensByProduct, TokensFor,
         RecordedByProduct, RecordedNFT
<1>12. QED BY <1>6, <1>11 DEF NFTPromise!Next

\* A move of a product is an approval or an acknowledgment that was promised.
LEMMA ProductMoveKeepsPromise ==
  ASSUME AllInv, AllInv', fabricToTokenId' = fabricToTokenId,
         TokensByProduct' = TokensByProduct, NEW p \in ProductIds, Chaincode!NFTMove(p)
  PROVE  [NFTPromise!Next]_(NFTPromise!vars)
<1> PICK token : token = ledger'[p].nftTokenId
  OBVIOUS
<1>1. /\ ProductTokens /\ ProductTokens' /\ Chaincode!NFTInv /\ p \in Keys
      /\ \A o \in ProductIds \ {p} : ledger'[o] = ledger[o]
  BY TokensOfProducts, TokensOfProductsAfterStep
     DEF AllInv, BridgeInv, LedgersInv, Keys, Chaincode!NFTMove, Chaincode!OnlyWrites
<1>2. \A o \in ProductIds \ {p} : /\ NFTApproved(o)' <=> NFTApproved(o)
                                  /\ RecordedNFT(o)' = RecordedNFT(o)
  BY <1>1 DEF NFTApproved, RecordedNFT, Fabric!IsProduct, Fabric!Has, Fabric!Exists
<1>3. ASSUME NFTApproved(p)' <=> NFTApproved(p), RecordedNFT(p)' = RecordedNFT(p)
      PROVE  UNCHANGED NFTPromise!vars
  <2>1. ApprovedProducts' = ApprovedProducts /\ RecordedByProduct' = RecordedByProduct
    BY <1>2, <1>3 DEF ApprovedProducts, RecordedByProduct
  <2>2. QED
    BY <2>1 DEF NFTPromise!vars, ApprovedProducts, NFTApproved, TokensByProduct, TokensFor,
                RecordedByProduct, RecordedNFT
<1>4. /\ ledger'[p] # Null /\ (ledger[p] # Null => ledger'[p].kind = ledger[p].kind)
  BY DEF Chaincode!NFTMove, Chaincode!Exists
<1>5. CASE ledger'[p].kind # "manufactured"
  <2>1. ~NFTApproved(p) /\ ~NFTApproved(p)'
    BY <1>4, <1>5 DEF NFTApproved, Fabric!Has, Fabric!Exists
  <2>2. RecordedNFT(p) = Null /\ RecordedNFT(p)' = Null
    BY <1>1, <1>4, <1>5 DEF ProductTokens, RecordedNFT, Fabric!IsProduct, Fabric!Has,
                            Fabric!Exists
  <2>3. QED BY <1>3, <2>1, <2>2
<1>6. ASSUME ledger'[p].kind = "manufactured"
      PROVE  /\ RecordedNFT(p)' = token
             /\ NFTApproved(p)' <=> ledger'[p].status # "FINISHED"
             /\ ledger[p] = Null => RecordedNFT(p) = Null /\ ~NFTApproved(p)
             /\ ledger[p] # Null => /\ RecordedNFT(p) = ledger[p].nftTokenId
                                    /\ NFTApproved(p) <=> ledger[p].status # "FINISHED"
                                    /\ Chaincode!IsManufactured(p) /\ Fabric!IsProduct(p)
  BY <1>4, <1>6 DEF RecordedNFT, NFTApproved, Fabric!IsProduct, Fabric!Has, Fabric!Exists,
                    Chaincode!IsManufactured, Chaincode!Has, Chaincode!Exists
<1>7. CASE /\ ledger'[p].kind = "manufactured" /\ ~Chaincode!Exists(p)
           /\ ledger'[p].status = "FINISHED" /\ token = Null
  BY <1>3, <1>6, <1>7 DEF Chaincode!Exists
<1>8. CASE /\ ledger'[p].kind = "manufactured" /\ Chaincode!Exists(p)
           /\ token = ledger[p].nftTokenId
           /\ (ledger'[p].status = "FINISHED") <=> (ledger[p].status = "FINISHED")
  BY <1>3, <1>6, <1>8 DEF Chaincode!Exists
<1>9. CASE /\ ledger'[p].kind = "manufactured" /\ Chaincode!Exists(p)
           /\ ledger[p].status = "FINISHED" /\ ledger'[p].status = "NFT_MINT_PENDING"
           /\ token = ledger[p].nftTokenId
  <2>1. ~NFTApproved(p) /\ NFTApproved(p)' /\ RecordedNFT(p)' = RecordedNFT(p)
    BY <1>6, <1>9 DEF Chaincode!Exists
  <2>2. /\ p \notin ApprovedProducts /\ ApprovedProducts' = ApprovedProducts \cup {p}
        /\ RecordedByProduct' = RecordedByProduct
    BY <1>2, <2>1 DEF ApprovedProducts, RecordedByProduct
  <2>3. NFTPromise!Approve(p)
    BY <2>2 DEF NFTPromise!Approve, ApprovedProducts, NFTApproved, TokensByProduct, TokensFor,
                RecordedByProduct, RecordedNFT
  <2>4. QED BY <2>3 DEF NFTPromise!Next
<1>10. CASE /\ ledger'[p].kind = "manufactured" /\ Chaincode!Exists(p)
            /\ ledger[p].status = "NFT_MINT_PENDING" /\ ledger'[p].status = "TOKENIZED"
            /\ token # Null
  <2>1. NFTApproved(p) /\ NFTApproved(p)' /\ RecordedNFT(p)' = token
    BY <1>6, <1>10 DEF Chaincode!Exists
  <2>2. RecordedNFT(p) = Null
    <3>1. Chaincode!IsManufactured(p) /\ RecordedNFT(p) = ledger[p].nftTokenId
      BY <1>6, <1>10 DEF Chaincode!Exists
    <3>2. QED BY <1>1, <1>10, <3>1 DEF Chaincode!NFTInv, Chaincode!NFTStages
  <2>3. token \in TokensFor(p)
    <3>1. Fabric!IsProduct(p)'
      BY <1>4, <1>10 DEF Fabric!IsProduct, Fabric!Has, Fabric!Exists
    <3>2. token = fabricToTokenId[p] /\ fabricToTokenId[p] # 0
      BY <1>1, <1>10, <3>1 DEF ProductTokens
    <3>3. QED BY <1>1, <3>2 DEF ProductTokens
  <2>4. /\ ApprovedProducts' = ApprovedProducts
        /\ RecordedByProduct' = [RecordedByProduct EXCEPT ![p] = token]
        /\ RecordedByProduct[p] = Null /\ token \in TokensByProduct[p]
    BY <1>2, <2>1, <2>2, <2>3 DEF ApprovedProducts, RecordedByProduct, TokensByProduct
  <2>5. NFTPromise!Acknowledge(p)
    BY <2>4 DEF NFTPromise!Acknowledge, ApprovedProducts, NFTApproved, TokensByProduct,
                TokensFor, RecordedByProduct, RecordedNFT
  <2>6. QED BY <2>5 DEF NFTPromise!Next
<1>11. QED BY <1>5, <1>7, <1>8, <1>9, <1>10 DEF Chaincode!NFTMove

\* Only a mint of an NFT gives a product a token.
LEMMA OtherStepsKeepTokens ==
  ASSUME AllInv, AllInv', [Next]_vars,
         ~\E t, a : MintedBy(t, a) /\ a.type = "nftMinting"
  PROVE  fabricToTokenId' = fabricToTokenId /\ TokensByProduct' = TokensByProduct
<1>1. fabricToTokenId' = fabricToTokenId
  <2>1. ASSUME UNCHANGED tokenIdCounter PROVE fabricToTokenId' = fabricToTokenId
    <3>1. tokenIdCounter' # tokenIdCounter + 1
      BY <2>1, TokenFacts DEF AllInv, BridgeInv
    <3>2. [NFT!Next]_(NFT!nftVars)
      BY NFTStep DEF AllInv
    <3>3. QED BY <3>1, <3>2 DEF NFT!Next, NFT!nftVars, NFT!MintProduct, NFT!RecycleProduct,
                                NFT!TransferNFT
  <2>2. CASE NoMint
    BY <2>1, <2>2 DEF NoMint
  <2>3. ASSUME NEW t, NEW a, MintedBy(t, a) PROVE UNCHANGED tokenIdCounter
    <3>1. Sendable(a) /\ a.type # "nftMinting"
      BY <2>3, SendFacts DEF MintedBy, AllInv, BridgeInv
    <3>2. a.type = "tokenization"
      BY <3>1 DEF Sendable
    <3>3. QED BY <2>3, <3>2 DEF MintedBy, Mint, nftVars
  <2>4. QED BY <2>1, <2>2, <2>3, MintsMove DEF AllInv
<1>2. ProductTokens /\ ProductTokens'
  BY TokensOfProducts, TokensOfProductsAfterStep
<1>3. \A p \in ProductIds : TokensFor(p)' = TokensFor(p)
  BY <1>1, <1>2 DEF ProductTokens
<1>4. QED BY <1>1, <1>3 DEF TokensByProduct

LEMMA StepKeepsNFTPromise ==
  AllInv /\ AllInv' /\ [Next]_vars => [NFTPromise!Next]_(NFTPromise!vars)
<1> SUFFICES ASSUME AllInv, AllInv', [Next]_vars PROVE [NFTPromise!Next]_(NFTPromise!vars)
  OBVIOUS
<1>1. CASE \E t, a : MintedBy(t, a) /\ a.type = "nftMinting"
  BY <1>1, NFTMintKeepsPromise
<1>2. CASE ~\E t, a : MintedBy(t, a) /\ a.type = "nftMinting"
  <2>1. fabricToTokenId' = fabricToTokenId /\ TokensByProduct' = TokensByProduct
    BY <1>2, OtherStepsKeepTokens
  <2>2. ASSUME \A p \in ProductIds : /\ NFTApproved(p)' <=> NFTApproved(p)
                                     /\ RecordedNFT(p)' = RecordedNFT(p)
        PROVE  UNCHANGED NFTPromise!vars
    <3>1. ApprovedProducts' = ApprovedProducts /\ RecordedByProduct' = RecordedByProduct
      BY <2>2 DEF ApprovedProducts, RecordedByProduct
    <3>2. QED
      BY <2>1, <3>1 DEF NFTPromise!vars, ApprovedProducts, NFTApproved, TokensByProduct,
                        TokensFor, RecordedByProduct, RecordedNFT
  <2>3. CASE Chaincode!ProductsKept
    <3>1. ProductTokens'
      BY TokensOfProductsAfterStep
    <3>2. ASSUME NEW p \in ProductIds
          PROVE  /\ NFTApproved(p)' <=> NFTApproved(p)
                 /\ RecordedNFT(p)' = RecordedNFT(p)
      <4>1. p \in Keys
        BY DEF Keys
      <4>2. CASE ledger'[p] = ledger[p]
        BY <4>2 DEF NFTApproved, RecordedNFT, Fabric!IsProduct, Fabric!Has, Fabric!Exists
      <4>3. CASE ~Chaincode!IsProduct(p) /\ ~Chaincode!IsManufactured(p)'
        <5>1. ~Fabric!IsProduct(p) /\ ~NFTApproved(p) /\ ~NFTApproved(p)'
          BY <4>3 DEF NFTApproved, Fabric!IsProduct, Fabric!Has, Fabric!Exists,
                      Chaincode!IsProduct, Chaincode!IsManufactured, Chaincode!Has,
                      Chaincode!Exists
        <5>2. Fabric!IsProduct(p)' => ledger'[p].kind # "manufactured"
          BY <4>3 DEF Fabric!IsProduct, Fabric!Has, Fabric!Exists, Chaincode!IsManufactured,
                      Chaincode!Has, Chaincode!Exists
        <5>3. RecordedNFT(p) = Null /\ RecordedNFT(p)' = Null
          BY <3>1, <5>1, <5>2 DEF RecordedNFT, ProductTokens
        <5>4. QED BY <5>1, <5>3
      <4>4. QED BY <2>3, <4>1, <4>2, <4>3 DEF Chaincode!ProductsKept
    <3>3. QED BY <2>2, <3>2
  <2>4. ASSUME NEW k \in Keys \ ProductIds, Chaincode!NFTMove(k)
        PROVE  UNCHANGED NFTPromise!vars
    <3>1. \A p \in ProductIds : p \in Keys /\ p # k
      BY DEF Keys
    <3>2. \A p \in ProductIds : ledger'[p] = ledger[p]
      BY <2>4, <3>1 DEF Chaincode!NFTMove, Chaincode!OnlyWrites
    <3>3. \A p \in ProductIds : /\ NFTApproved(p)' <=> NFTApproved(p)
                                /\ RecordedNFT(p)' = RecordedNFT(p)
      BY <3>2 DEF NFTApproved, RecordedNFT, Fabric!IsProduct, Fabric!Has, Fabric!Exists
    <3>4. QED BY <2>2, <3>3
  <2>5. Chaincode!ProductsKept \/ \E k \in Keys : Chaincode!NFTMove(k)
    <3>1. [Fabric!Next]_(Fabric!vars) /\ LedgersInv
      BY FabricStep DEF AllInv, BridgeInv
    <3>2. [Chaincode!Next]_(Chaincode!vars)
      BY <3>1, SameTransactions, SameRecords DEF Fabric!vars, Chaincode!vars
    <3>3. QED BY <3>1, <3>2, SameRecords, ComponentsAssumption, Chaincode!NextProducts
            DEF LedgersInv, Chaincode!CottonInv
  <2>6. QED BY <2>1, <2>3, <2>4, <2>5, ProductMoveKeepsPromise
<1>3. QED BY <1>1, <1>2

LEMMA InitKeepsNFTPromise == Init => NFTPromise!Init
<1> SUFFICES ASSUME Init PROVE NFTPromise!Init
  OBVIOUS
<1>1. /\ \A k \in Keys : ledger[k] = Null
      /\ tokenIdCounter = 0
  BY DEF Init, Fabric!Init, NFT!Init, Keys
<1>2. \A p \in ProductIds : ~Fabric!IsProduct(p) /\ ~Fabric!Has(p, {"manufactured"})
  BY <1>1 DEF Keys, Fabric!IsProduct, Fabric!Has, Fabric!Exists
<1>3. QED BY <1>1, <1>2 DEF NFTPromise!Init

\* They do the same of NFTs: a product with lineage is asked for, then given one
\* token, then acknowledged on Fabric with the id of that token.
THEOREM BridgeKeepsNFTPromise == Spec => ImplementsNFTPromise
BY AllInvariant, InitKeepsNFTPromise, StepKeepsNFTPromise, PTL
   DEF Spec, ImplementsNFTPromise, NFTPromise!Spec

-----------------------------------------------------------------------------
(* No action is lost                                                       *)

\* The batch, then the queue.
Held == batch \o pendingActions

HeldElements ==
  /\ Len(batch) \in Nat /\ Len(pendingActions) \in Nat
  /\ Len(Held) = Len(batch) + Len(pendingActions) /\ DOMAIN Held = 1 .. Len(Held)
  /\ \A i \in 1 .. Len(Held) :
       Held[i] = IF i <= Len(batch) THEN batch[i] ELSE pendingActions[i - Len(batch)]
  /\ \A i \in 1 .. Len(Held) : Held[i] \in Asked

LEMMA HeldIsSequence == WorkInv => HeldElements
<1> SUFFICES ASSUME WorkInv PROVE HeldElements
  OBVIOUS
<1>1. batch \in Seq(Asked) /\ pendingActions \in Seq(Asked)
  BY DEF WorkInv
<1>2. /\ Held \in Seq(Asked) /\ Len(Held) = Len(batch) + Len(pendingActions)
      /\ \A i \in 1 .. Len(batch) + Len(pendingActions) :
           Held[i] = IF i <= Len(batch) THEN batch[i] ELSE pendingActions[i - Len(batch)]
  BY <1>1, ConcatProperties DEF Held
<1>3. Len(batch) \in Nat /\ Len(pendingActions) \in Nat /\ DOMAIN Held = 1 .. Len(Held)
  BY <1>1, <1>2, LenProperties
<1>4. \A i \in 1 .. Len(Held) : Held[i] \in Asked
  BY <1>2, ElementOfSeq
<1>5. QED BY <1>2, <1>3, <1>4 DEF HeldElements

LEMMA HeldIsSequenceAfterStep == WorkInv' => HeldElements'
BY HeldIsSequence, PTL

QueueBehind == \A k \in 1 .. Len(pendingActions) : Held[Len(batch) + k] = pendingActions[k]

LEMMA QueueBehindBatch == HeldElements => QueueBehind
<1> SUFFICES ASSUME HeldElements, NEW k \in 1 .. Len(pendingActions),
                    NEW i, i = Len(batch) + k
             PROVE  Held[i] = pendingActions[k]
  BY DEF QueueBehind
<1>1. i \in 1 .. Len(Held) /\ ~(i <= Len(batch)) /\ i - Len(batch) = k
  BY DEF HeldElements
<1>2. QED BY <1>1 DEF HeldElements

LEMMA QueueBehindBatchAfterStep == HeldElements' => QueueBehind'
BY QueueBehindBatch, PTL

\* A batch is spliced from the queue: what is held stays in its order.
LEMMA SpliceHolds ==
  ASSUME WorkInv, WorkInv', ProcessBatch
  PROVE  Len(Held') = Len(Held) /\ \A i \in 1 .. Len(Held) : Held'[i] = Held[i]
<1> PICK n : n = Len(pendingActions)
  OBVIOUS
<1> PICK k : k = Spliced
  OBVIOUS
<1>1. HeldElements /\ HeldElements'
  BY HeldIsSequence, HeldIsSequenceAfterStep
<1>2. Len(batch) = 0 /\ batch = <<>>
  BY EmptySeq DEF WorkInv, ProcessBatch
<1>3. /\ pendingActions \in Seq(Asked) /\ pendingActions # <<>> /\ n \in Nat /\ n >= 1
      /\ \A i \in 1 .. n : pendingActions[i] \in Asked
  BY EmptySeq, ElementOfSeq DEF WorkInv, ProcessBatch
<1>4. k \in 1 .. n
  BY <1>3, BridgeAssumption DEF Spliced
<1>5. /\ batch' = SubSeq(pendingActions, 1, k)
      /\ pendingActions' = SubSeq(pendingActions, k + 1, n)
  BY DEF ProcessBatch
<1>6. Len(batch') = k /\ \A i \in 1 .. k : batch'[i] = pendingActions[i]
  <2>1. \A i \in 1 .. k : pendingActions[i] \in Asked
    BY <1>3, <1>4
  <2>2. 1 \in Int /\ k \in Int /\ 1 <= k /\ k - 1 + 1 = k
    BY <1>4
  <2>3. \A i \in 1 .. k : SubSeq(pendingActions, 1, k)[i] = pendingActions[1 + i - 1]
    BY <2>1, <2>2, SubSeqProperties
  <2>4. \A i \in 1 .. k : 1 + i - 1 = i
    BY <2>2
  <2>5. Len(SubSeq(pendingActions, 1, k)) = k
    BY <2>1, <2>2, SubSeqProperties
  <2>6. QED BY <1>5, <2>3, <2>4, <2>5
<1>7. /\ Len(pendingActions') = n - k
      /\ \A i \in 1 .. n - k : pendingActions'[i] = pendingActions[k + i]
  <2>1. \A i \in k + 1 .. n : pendingActions[i] \in Asked
    BY <1>3, <1>4
  <2>2. k + 1 \in Int /\ n \in Int /\ n - (k + 1) + 1 = n - k
    BY <1>3, <1>4
  <2>3. \A i \in 1 .. n - (k + 1) + 1 :
          SubSeq(pendingActions, k + 1, n)[i] = pendingActions[k + 1 + i - 1]
    BY <2>1, <2>2, SubSeqProperties
  <2>4. \A i \in 1 .. n - k : k + 1 + i - 1 = k + i
    BY <2>2, <1>4
  <2>5. Len(SubSeq(pendingActions, k + 1, n)) = IF k + 1 <= n THEN n - (k + 1) + 1 ELSE 0
    BY <2>1, <2>2, SubSeqProperties
  <2>6. Len(SubSeq(pendingActions, k + 1, n)) = n - k
    BY <1>3, <1>4, <2>5
  <2>7. QED BY <1>5, <2>2, <2>3, <2>4, <2>6
<1>8. Len(Held) = n /\ \A i \in 1 .. n : Held[i] = pendingActions[i]
  BY <1>1, <1>2, <1>3 DEF HeldElements
<1>9. Len(Held') = n
  BY <1>1, <1>3, <1>4, <1>6, <1>7 DEF HeldElements
<1>10. ASSUME NEW i \in 1 .. n PROVE Held'[i] = pendingActions[i]
  <2>1. CASE i <= k
    BY <1>1, <1>4, <1>6, <1>9, <2>1 DEF HeldElements
  <2>2. CASE ~(i <= k)
    <3>1. Held'[i] = pendingActions'[i - k]
      BY <1>1, <1>4, <1>6, <1>9, <2>2 DEF HeldElements
    <3>2. i - k \in 1 .. n - k /\ k + (i - k) = i
      BY <1>3, <1>4, <2>2
    <3>3. QED BY <1>7, <3>1, <3>2
  <2>3. QED BY <2>1, <2>2
<1>11. QED BY <1>8, <1>9, <1>10

\* The head of what is held is done with, and dropped.
LEMMA SucceedHolds ==
  ASSUME WorkInv, WorkInv', step # "idle", Succeed
  PROVE  /\ Len(Held') = Len(Held) - 1 /\ Len(Held) >= 1 /\ Action = Held[1]
         /\ \A i \in 1 .. Len(Held) - 1 : Held'[i] = Held[i + 1]
<1>1. HeldElements /\ HeldElements'
  BY HeldIsSequence, HeldIsSequenceAfterStep
<1>2. /\ Len(batch) >= 1 /\ Len(batch') = Len(batch) - 1 /\ pendingActions' = pendingActions
      /\ \A i \in 1 .. Len(batch) - 1 : batch'[i] = batch[i + 1]
  <2>1. batch \in Seq(Asked) /\ batch # <<>>
    BY DEF WorkInv
  <2>2. QED BY <2>1, HeadTailProperties, EmptySeq, LenProperties DEF Succeed, Advance
<1>3. Action = Held[1]
  <2>1. Action = batch[1]
    BY <1>2, HeadFacts DEF Action, WorkInv
  <2>2. QED BY <1>1, <1>2, <2>1 DEF HeldElements
<1>4. Len(Held') = Len(Held) - 1 /\ Len(Held) >= 1
  BY <1>1, <1>2 DEF HeldElements
<1>5. ASSUME NEW i \in 1 .. Len(Held) - 1 PROVE Held'[i] = Held[i + 1]
  <2>1. CASE i <= Len(batch) - 1
    BY <1>1, <1>2, <1>4, <2>1 DEF HeldElements
  <2>2. CASE ~(i <= Len(batch) - 1)
    <3>1. Held'[i] = pendingActions[i - (Len(batch) - 1)]
      BY <1>1, <1>2, <1>4, <2>2 DEF HeldElements
    <3>2. Held[i + 1] = pendingActions[i + 1 - Len(batch)]
      BY <1>1, <1>2, <1>4, <2>2 DEF HeldElements
    <3>3. i - (Len(batch) - 1) = i + 1 - Len(batch)
      BY <1>1 DEF HeldElements
    <3>4. QED BY <3>1, <3>2, <3>3
  <2>3. QED BY <2>1, <2>2
<1>6. QED BY <1>3, <1>4, <1>5

\* The head of what is held has failed, and goes to the end.
LEMMA FailHolds ==
  ASSUME WorkInv, WorkInv', step # "idle", Fail
  PROVE  /\ Len(Held') = Len(Held) /\ Len(Held) >= 1
         /\ \A i \in 1 .. Len(Held) :
              Held'[i] = IF i = Len(Held) THEN Held[1] ELSE Held[i + 1]
<1> PICK n : n = Len(Held)
  OBVIOUS
<1> PICK m : m = Len(batch)
  OBVIOUS
<1>1. HeldElements /\ HeldElements'
  BY HeldIsSequence, HeldIsSequenceAfterStep
<1>2. /\ m >= 1 /\ Len(batch') = m - 1
      /\ \A i \in 1 .. m - 1 : batch'[i] = batch[i + 1]
  <2>1. batch \in Seq(Asked) /\ batch # <<>>
    BY DEF WorkInv
  <2>2. QED BY <2>1, HeadTailProperties, EmptySeq, LenProperties DEF Fail, Advance
<1>3. /\ Action = Held[1] /\ Action \in Asked
      /\ m \in Nat /\ n \in Nat /\ n >= 1 /\ n = m + Len(pendingActions)
  <2>1. Action = batch[1] /\ Action \in Asked
    BY <1>2, HeadFacts DEF Action, WorkInv
  <2>2. QED BY <1>1, <1>2, <2>1 DEF HeldElements
<1>4. /\ Len(pendingActions') = n - m + 1
      /\ pendingActions'[n - m + 1] = Action
      /\ \A i \in 1 .. n - m : pendingActions'[i] = pendingActions[i]
  <2>1. pendingActions' = Append(pendingActions, Action) /\ pendingActions \in Seq(Asked)
    BY DEF Fail, WorkInv
  <2>2. Len(pendingActions) = n - m
    BY <1>1, <1>3 DEF HeldElements
  <2>3. QED BY <1>3, <2>1, <2>2, AppendProperties
<1>5. Len(Held') = n
  BY <1>1, <1>2, <1>3, <1>4 DEF HeldElements
<1>6. ASSUME NEW i \in 1 .. n
      PROVE  Held'[i] = IF i = n THEN Held[1] ELSE Held[i + 1]
  <2>1. CASE i <= m - 1
    <3>1. Held'[i] = batch[i + 1]
      <4>1. i \in 1 .. Len(Held') /\ i <= Len(batch') /\ i \in 1 .. m - 1
        BY <1>2, <1>3, <1>5, <2>1
      <4>2. Held'[i] = batch'[i]
        BY <1>1, <4>1 DEF HeldElements
      <4>3. QED BY <1>2, <4>1, <4>2
    <3>2. Held[i + 1] = batch[i + 1] /\ i # n
      <4>1. i + 1 \in 1 .. n /\ i + 1 <= m /\ i # n
        BY <1>1, <1>3, <2>1 DEF HeldElements
      <4>2. QED BY <1>1, <4>1 DEF HeldElements
    <3>3. QED BY <3>1, <3>2
  <2>2. CASE ~(i <= m - 1)
    <3>1. Held'[i] = pendingActions'[i - (m - 1)] /\ i - (m - 1) = i - m + 1
      <4>1. i \in 1 .. Len(Held') /\ ~(i <= Len(batch'))
        BY <1>2, <1>3, <1>5, <2>2
      <4>2. Held'[i] = pendingActions'[i - Len(batch')]
        BY <1>1, <4>1 DEF HeldElements
      <4>3. i - Len(batch') = i - (m - 1) /\ i - (m - 1) = i - m + 1
        BY <1>2, <1>3
      <4>4. QED BY <4>2, <4>3
    <3>2. CASE i = n
      BY <1>3, <1>4, <3>1, <3>2
    <3>3. CASE i # n
      <4>1. i + 1 \in 1 .. n /\ ~(i + 1 <= m) /\ i + 1 - m \in 1 .. n - m
            /\ i + 1 - m = i - m + 1
        BY <1>3, <2>2, <3>3
      <4>2. Held[i + 1] = pendingActions[i + 1 - m]
        BY <1>1, <4>1 DEF HeldElements
      <4>3. QED BY <1>4, <3>1, <3>3, <4>1, <4>2
    <3>4. QED BY <3>2, <3>3
  <2>3. QED BY <2>1, <2>2
<1>7. QED BY <1>3, <1>5, <1>6

\* What is received is held behind the rest.
LEMMA ReceiveHolds ==
  ASSUME WorkInv, WorkInv', NEW new \in Seq(Asked), batch' = batch,
         pendingActions' = pendingActions \o new
  PROVE  /\ Len(new) \in Nat /\ Len(Held') = Len(Held) + Len(new)
         /\ \A i \in 1 .. Len(Held) : Held'[i] = Held[i]
         /\ \A i \in 1 .. Len(new) : Held'[Len(Held) + i] = new[i]
<1> PICK n : n = Len(Held)
  OBVIOUS
<1> PICK m : m = Len(batch)
  OBVIOUS
<1>1. /\ HeldElements /\ HeldElements' /\ Len(new) \in Nat /\ Len(batch') = m
      /\ m \in Nat /\ n \in Nat /\ n = m + Len(pendingActions)
  BY HeldIsSequence, HeldIsSequenceAfterStep, LenProperties DEF HeldElements
<1>2. /\ Len(pendingActions') = n - m + Len(new)
      /\ \A i \in 1 .. n - m + Len(new) :
           pendingActions'[i] = IF i <= n - m THEN pendingActions[i] ELSE new[i - (n - m)]
  <2>1. pendingActions \in Seq(Asked)
    BY DEF WorkInv
  <2>2. Len(pendingActions) = n - m
    BY <1>1 DEF HeldElements
  <2>3. QED BY <2>1, <2>2, ConcatProperties
<1>3. Len(Held') = n + Len(new)
  BY <1>1, <1>2 DEF HeldElements
<1>4. ASSUME NEW i \in 1 .. n PROVE Held'[i] = Held[i]
  <2>1. CASE i <= m
    BY <1>1, <1>3, <2>1 DEF HeldElements
  <2>2. CASE ~(i <= m)
    <3>1. Held'[i] = pendingActions'[i - m] /\ Held[i] = pendingActions[i - m]
      BY <1>1, <1>3, <2>2 DEF HeldElements
    <3>2. i - m \in 1 .. n - m + Len(new) /\ i - m <= n - m
      BY <1>1, <2>2
    <3>3. QED BY <1>2, <3>1, <3>2
  <2>3. QED BY <2>1, <2>2
<1>5. ASSUME NEW i \in 1 .. Len(new) PROVE Held'[n + i] = new[i]
  <2>1. n + i \in 1 .. n + Len(new) /\ ~(n + i <= m) /\ n + i - m \in 1 .. n - m + Len(new)
        /\ ~(n + i - m <= n - m) /\ n + i - m - (n - m) = i
    BY <1>1 DEF HeldElements
  <2>2. Held'[n + i] = pendingActions'[n + i - m]
    <3>1. \A k \in 1 .. Len(pendingActions') : Held'[Len(batch') + k] = pendingActions'[k]
      BY <1>1, QueueBehindBatchAfterStep DEF QueueBehind
    <3>2. PICK k : k = n + i - m
      OBVIOUS
    <3>3. k \in 1 .. Len(pendingActions') /\ m + k = n + i
      BY <1>1, <1>2, <2>1, <3>2
    <3>4. Len(batch') = m
      BY <1>1
    <3>5. Held'[m + k] = pendingActions'[k]
      BY <3>1, <3>3, <3>4, Zenon
    <3>6. QED BY <3>2, <3>3, <3>5, Zenon
  <2>3. QED BY <1>2, <2>1, <2>2
<1>6. QED BY <1>1, <1>3, <1>4, <1>5

\* What has been received: a request in an event that was read, or a recycling.
ReadRequests(a) ==
  \E i \in 1 .. cursor : \/ i \in Approvals /\ a = Tokenization(i)
                         \/ i \in Mintings /\ a = NFTMinting(i)
HeardRecyclings(a) == \E i \in 1 .. heard : a = Recycling(recycledLog[i].tokenId)

ReceivedElements == \A a : a \in Received <=> ReadRequests(a) \/ HeardRecyclings(a)

LEMMA ReceivedIs == LedgersInv /\ InputsInv => ReceivedElements
<1> SUFFICES ASSUME LedgersInv, InputsInv PROVE ReceivedElements
  OBVIOUS
<1>1. /\ Len(events) \in Nat /\ DOMAIN events = 1 .. Len(events) /\ cursor \in 0 .. Len(events)
  BY LenProperties DEF LedgersInv, Chaincode!CottonInv, Chaincode!TypeOK, InputsInv
<1>2. ASSUME NEW i \in 1 .. cursor, NEW a
      PROVE  a \in Range(Requested(i)) <=> \/ i \in Approvals /\ a = Tokenization(i)
                                           \/ i \in Mintings /\ a = NFTMinting(i)
  <2>1. i \in DOMAIN events
    BY <1>1
  <2>2. CASE events[i].name = "TokenizationRequested"
    <3>1. Requested(i) = <<Tokenization(i)>> /\ i \in Approvals /\ i \notin Mintings
      BY <2>1, <2>2 DEF Requested, Approvals, Mintings
    <3>2. Range(<<Tokenization(i)>>) = {Tokenization(i)}
      BY DEF Range
    <3>3. QED BY <3>1, <3>2
  <2>3. CASE events[i].name = "NFTMintingRequested"
    <3>1. Requested(i) = <<NFTMinting(i)>> /\ i \notin Approvals /\ i \in Mintings
      BY <2>1, <2>3 DEF Requested, Approvals, Mintings
    <3>2. Range(<<NFTMinting(i)>>) = {NFTMinting(i)}
      BY DEF Range
    <3>3. QED BY <3>1, <3>2
  <2>4. CASE events[i].name \notin {"TokenizationRequested", "NFTMintingRequested"}
    <3>1. Requested(i) = <<>> /\ i \notin Approvals /\ i \notin Mintings
      BY <2>4 DEF Requested, Approvals, Mintings
    <3>2. Range(<<>>) = {}
      BY DEF Range
    <3>3. QED BY <3>1, <3>2
  <2>5. QED BY <2>2, <2>3, <2>4
<1>3. ASSUME NEW a PROVE a \in Received <=> ReadRequests(a) \/ HeardRecyclings(a)
  <2>1. a \in Received <=> \/ \E i \in 1 .. cursor : a \in Range(Requested(i))
                          \/ \E i \in 1 .. heard : a = Recycling(recycledLog[i].tokenId)
    <3> DEFINE read == UNION {Range(Requested(i)) : i \in 1 .. cursor}
               recycled == {Recycling(recycledLog[i].tokenId) : i \in 1 .. heard}
    <3>1. a \in read <=> \E i \in 1 .. cursor : a \in Range(Requested(i))
      OBVIOUS
    <3>2. a \in recycled <=> \E i \in 1 .. heard : a = Recycling(recycledLog[i].tokenId)
      OBVIOUS
    <3>3. Received = read \cup recycled
      BY DEF Received
    <3> HIDE DEF read, recycled
    <3>4. QED BY <3>1, <3>2, <3>3
  <2>2. (\E i \in 1 .. cursor : a \in Range(Requested(i))) <=> ReadRequests(a)
    BY <1>2 DEF ReadRequests
  <2>3. QED BY <2>1, <2>2 DEF HeardRecyclings
<1>4. QED BY <1>3 DEF ReceivedElements

LEMMA ReceivedIsAfterStep == LedgersInv' /\ InputsInv' => ReceivedElements'
BY ReceivedIs, PTL

\* What is settled stays settled.
LEMMA SettledStays ==
  ASSUME AllInv, [Next]_vars, NEW a \in Asked, Settled(a)
  PROVE  Settled(a)'
<1>1. /\ LedgerStays /\ Tokens!TokensStay /\ LedgersInv /\ BridgeInv /\ AskedStays
      /\ ProductIds \subseteq Keys /\ RequestIds \subseteq Keys
  BY StepKeepsLedger, StepKeepsNFTs, StepKeepsAsked DEF AllInv, BridgeInv, Keys
<1>2. ASSUME NEW p \in ProductIds, Fabric!IsProduct(p), ledger[p].nftTokenId # Null
      PROVE  /\ ledger'[p].nftTokenId # Null
             /\ ledger[p].recyclingTx # Null => ledger'[p].recyclingTx # Null
  BY <1>1, <1>2, SameRecords DEF LedgerStays, Chaincode!AcknowledgmentsStay
<1>3. CASE a.type = "tokenization"
  <2> PICK r \in RequestIds : r = events[a.ref].requestId /\ IsApproved(r)
    BY <1>1, <1>3, AskedKinds, ApprovedRequest
  <2>1. ledger[r].status = "COMPLETED" /\ events'[a.ref] = events[a.ref]
    BY <1>1, <1>3 DEF Settled, Event, AskedStays
  <2>2. ledger'[r] = ledger[r] \/ RequestMoves(r)
    BY <1>1, NextRequests DEF RequestsMove, RequestsKept
  <2>3. ledger'[r].status = "COMPLETED"
    BY <2>1, <2>2 DEF RequestMoves, IsApproved, Fabric!IsRequest, Fabric!Has
  <2>4. QED BY <1>3, <2>1, <2>3 DEF Settled, Event
<1>4. CASE a.type = "nftMinting"
  <2> PICK p \in ProductIds : p = events[a.ref].productId /\ Fabric!IsProduct(p)
    BY <1>1, <1>4, AskedKinds, EventFacts DEF LedgersInv, MintingsFit
  <2>1. ledger[p].nftTokenId # Null /\ events'[a.ref] = events[a.ref]
    BY <1>1, <1>4 DEF Settled, Event, AskedStays
  <2>2. ledger'[p].nftTokenId # Null
    BY <1>2, <2>1
  <2>3. QED BY <1>4, <2>1, <2>2 DEF Settled, Event
<1>5. CASE a.type = "recycling"
  <2>1. a.ref \in 1 .. tokenIdCounter
    BY <1>5, AskedKinds
  <2>2. PICK i \in Mintings : TokenFits(a.ref, i)
    BY <2>1 DEF AllInv, ProductsInv, TokensAsked
  <2> PICK p \in ProductIds : /\ p = productData[a.ref].fabricProductId
                              /\ Fabric!Has(p, {"manufactured"})
    BY <1>1, <2>2, AskedProducts DEF TokenFits
  <2>3. ledger[p].recyclingTx # Null
    BY <1>5 DEF Settled
  <2>4. p \in Keys /\ Chaincode!IsManufactured(p) /\ Fabric!IsProduct(p)
    BY <1>1 DEF Chaincode!IsManufactured, Chaincode!Has, Chaincode!Exists, Fabric!Has,
                Fabric!Exists, Fabric!IsProduct
  <2>5. ledger[p].nftTokenId # Null
    BY <1>1, <2>3, <2>4 DEF LedgersInv, Chaincode!NFTInv, Chaincode!NFTStages
  <2>6. ledger'[p].recyclingTx # Null
    BY <1>2, <2>3, <2>4, <2>5
  <2>7. productData'[a.ref].fabricProductId = p
    BY <1>1, <2>1 DEF Tokens!TokensStay
  <2>8. QED BY <1>5, <2>6, <2>7 DEF Settled
<1>6. QED BY <1>3, <1>4, <1>5, AskedKinds

\* An acknowledgment that commits settles its action.
LEMMA SubmitSettles ==
  ASSUME AllInv, AllInv', [Next]_vars, NEW a \in Asked, NEW hash \in Hashes,
         AckReady(a, hash), Submit(a, hash), UNCHANGED nftVars
  PROVE  Settled(a)'
<1>1. /\ LedgersInv /\ AskedStays /\ BridgeInv /\ ComponentsAssumption
      /\ ledger \in [Keys -> Chaincode!Records \cup {Null}]
      /\ ProductIds \subseteq Keys /\ RequestIds \subseteq Keys
  BY StepKeepsAsked, ComponentsAssumption
     DEF AllInv, BridgeInv, LedgersInv, Chaincode!CottonInv, Chaincode!TypeOK, Keys
<1>2. CASE a.type = "tokenization"
  <2> PICK r \in RequestIds : r = events[a.ref].requestId /\ IsApproved(r)
    BY <1>1, <1>2, AskedKinds, ApprovedRequest
  <2>1. Fabric!CompleteTokenization(r, hash) /\ events'[a.ref] = events[a.ref]
    BY <1>1, <1>2 DEF Submit, Event, AskedStays
  <2>2. ledger'[r] = ledger[r] \/ RequestMoves(r)
    BY <1>1, NextRequests DEF RequestsMove, RequestsKept
  <2>3. CASE Fabric!AlreadyCompleted(r, hash) /\ UNCHANGED Fabric!vars
    BY <1>2, <2>1, <2>3 DEF Fabric!AlreadyCompleted, Fabric!vars, Settled, Event
  <2>4. CASE Fabric!Completable(r)
    <3>1. /\ Fabric!IsRequest(r) /\ Chaincode!IsRequest(r) /\ r \in Keys
      BY <1>1, <2>4, SameRecords DEF Fabric!Completable
    <3>2. ledger'[r].status # ledger[r].status
      <4>1. PICK b : b = ledger[r].batchId
        OBVIOUS
      <4>2. b \in Keys /\ ledger[r] \in Chaincode!Requests
        BY <1>1, <3>1, <4>1, SameRecords, Chaincode!KindsOfRecords
           DEF LedgersInv, Chaincode!CottonInv, Chaincode!Requests
      <4>3. Chaincode!IsBatch(b)
        BY <1>1, <3>1, <4>1 DEF LedgersInv, Chaincode!CottonInv, Chaincode!RequestsBacked
      <4>4. b # r
        BY SMTT(30), <3>1, <4>3 DEF Chaincode!IsBatch, Chaincode!IsRequest, Chaincode!Has
      <4>5. ledger'[r] = [ledger[r] EXCEPT !.status = "COMPLETED", !.ethTx = hash]
        BY <1>1, <2>1, <2>4, <3>1, <4>1, <4>2, <4>4
           DEF Fabric!CompleteTokenization, Fabric!AlreadyCompleted, Fabric!Completable
      <4>6. QED BY <2>4, <4>2, <4>5 DEF Fabric!Completable, Chaincode!Requests
    <3>3. ledger'[r].status = "COMPLETED"
      BY <2>2, <2>4, <3>1, <3>2
         DEF RequestMoves, Fabric!Completable, Fabric!IsRequest, Fabric!Has
    <3>4. QED BY <1>2, <2>1, <3>3 DEF Settled, Event
  <2>5. QED BY <2>1, <2>3, <2>4 DEF Fabric!CompleteTokenization
<1>3. CASE a.type = "nftMinting"
  <2> PICK p \in ProductIds : p = events[a.ref].productId /\ Fabric!IsProduct(p)
    BY <1>1, <1>3, AskedKinds, EventFacts DEF LedgersInv, MintingsFit
  <2> PICK id : id = fabricToTokenId[p]
    OBVIOUS
  <2>1. Fabric!MintNFT(p, id) /\ events'[a.ref] = events[a.ref]
    BY <1>1, <1>3 DEF Submit, Event, AskedStays
  <2>2. id # Null
    <3>1. id # 0
      BY <1>3 DEF AckReady, Event
    <3>2. id \in NftIds
      BY <1>1, <3>1, TokenFacts, BridgeAssumption DEF NftIds
    <3>3. QED BY <3>2, ComponentsAssumption DEF NftIds, Fabric!ChaincodeAssumption
  <2>3. ledger'[p].nftTokenId = id
    <3>1. CASE ledger[p].nftTokenId = id /\ UNCHANGED Fabric!vars
      BY <3>1 DEF Fabric!vars
    <3>2. CASE Fabric!Put(p, [ledger[p] EXCEPT !.nftTokenId = id, !.status = "TOKENIZED"])
      <4>1. ledger[p] \in Chaincode!Products
        BY <1>1, ProductRecords DEF ProductsAreWhole
      <4>2. ledger'[p] = [ledger[p] EXCEPT !.nftTokenId = id, !.status = "TOKENIZED"]
        BY <1>1, <3>2 DEF Fabric!Put
      <4>3. QED BY <4>1, <4>2 DEF Chaincode!Products
    <3>3. QED BY <2>1, <3>1, <3>2 DEF Fabric!MintNFT
  <2>4. QED BY <1>3, <2>1, <2>2, <2>3 DEF Settled, Event
<1>4. CASE a.type = "recycling"
  <2> PICK p \in ProductIds : p = productData[a.ref].fabricProductId
    BY <1>1, <1>4, AskedKinds, TokenFacts
  <2>1. Fabric!RecordRecycling(p, a.ref, hash)
    BY <1>4 DEF Submit
  <2>2. hash # Null
    <3>1. hash \in EthTxs
      BY <1>1, <1>4, TokenFacts, BridgeAssumption DEF AckReady, RecyclingTx, EthTxs
    <3>2. QED BY <3>1, ComponentsAssumption DEF EthTxs, Fabric!ChaincodeAssumption
  <2>3. ledger'[p].recyclingTx = hash
    <3>1. CASE ledger[p].recyclingTx = hash /\ UNCHANGED Fabric!vars
      BY <3>1 DEF Fabric!vars
    <3>2. CASE Fabric!Put(p, [ledger[p] EXCEPT !.status = "RECYCLING_INITIATED",
                                               !.recyclingTx = hash])
      <4>1. ledger[p] \in Chaincode!Products
        BY <1>1, <2>1, ProductRecords DEF ProductsAreWhole, Fabric!RecordRecycling
      <4>2. ledger'[p] = [ledger[p] EXCEPT !.status = "RECYCLING_INITIATED",
                                           !.recyclingTx = hash]
        BY <1>1, <3>2 DEF Fabric!Put
      <4>3. QED BY <4>1, <4>2 DEF Chaincode!Products
    <3>3. QED BY <2>1, <3>1, <3>2 DEF Fabric!RecordRecycling
  <2>4. productData' = productData
    BY DEF nftVars
  <2>5. QED BY <1>4, <2>2, <2>3, <2>4 DEF Settled
<1>5. QED BY <1>2, <1>3, <1>4, AskedKinds

\* What the process still owes, it holds; it holds no request twice, and none
\* that it has not read.
IsHeld(a) == \E i \in DOMAIN Held : Held[i] = a
OwedIsHeld == process = "running" => \A a \in Received : Settled(a) \/ IsHeld(a)
HeldOnce ==
  \A i, j \in DOMAIN Held : Held[i] = Held[j] /\ Held[i].type # "recycling" => i = j
HeldWasRead == \A i \in DOMAIN Held : Held[i].type # "recycling" => Held[i].ref <= cursor

\* The inductive form of NoActionLost, on top of AllInv.
QueueInv ==
  /\ OwedIsHeld /\ HeldOnce /\ HeldWasRead
  /\ process # "running" => cursor = 0

LEMMA ReceivedIsAsked ==
  ASSUME LedgersInv, InputsInv, NEW a \in Received
  PROVE  a \in Asked
<1>1. ReadRequests(a) \/ HeardRecyclings(a)
  BY ReceivedIs DEF ReceivedElements
<1>2. CASE ReadRequests(a)
  BY <1>2 DEF ReadRequests, Asked
<1>3. CASE HeardRecyclings(a)
  <2>1. \A i \in 1 .. heard : recycledLog[i].tokenId \in 1 .. tokenIdCounter
    BY TokenFacts DEF InputsInv
  <2>2. QED BY <1>3, <2>1 DEF HeardRecyclings, Asked
<1>4. QED BY <1>1, <1>2, <1>3

\* What has been received after a step was before, unless the step received it.
LEMMA ReceivedBefore ==
  ASSUME BridgeInv, BridgeInv', [Next]_vars, NEW a \in Received'
  PROVE  \/ a \in Received
         \/ \E i \in 1 .. cursor' : i \notin 1 .. cursor /\ a \in {Tokenization(i), NFTMinting(i)}
                                      /\ (a = Tokenization(i) => i \in Approvals')
                                      /\ (a = NFTMinting(i) => i \in Mintings')
         \/ \E i \in 1 .. heard' : i \notin 1 .. heard
                                     /\ a = Recycling(recycledLog'[i].tokenId)
<1>1. LedgersInv /\ InputsInv /\ LedgerStays /\ Tokens!TokensStay
  BY StepKeepsLedger, StepKeepsNFTs DEF BridgeInv
<1>2. ReceivedElements /\ ReceivedElements'
  BY ReceivedIs, ReceivedIsAfterStep DEF BridgeInv
<1>3. \A i \in 1 .. cursor : /\ i \in Approvals' => i \in Approvals
                             /\ i \in Mintings' => i \in Mintings
  <2>1. Len(events) \in Nat /\ DOMAIN events = 1 .. Len(events) /\ cursor \in 0 .. Len(events)
    BY <1>1, LenProperties DEF LedgersInv, Chaincode!CottonInv, Chaincode!TypeOK, InputsInv
  <2>2. \A i \in 1 .. cursor : i \in DOMAIN events
    BY <2>1
  <2>3. QED BY <1>1, <2>2 DEF LedgerStays, Approvals, Mintings
<1>4. \A i \in 1 .. heard : recycledLog'[i] = recycledLog[i]
  BY <1>1, TokenFacts DEF InputsInv, Tokens!TokensStay
<1>5. Tokenization(1).type = "tokenization" /\ NFTMinting(1).type = "nftMinting"
  BY DEF Tokenization, NFTMinting
<1>6. CASE ReadRequests(a)'
  <2>1. PICK i \in 1 .. cursor' : \/ i \in Approvals' /\ a = Tokenization(i)
                                  \/ i \in Mintings' /\ a = NFTMinting(i)
    BY <1>6 DEF ReadRequests, Tokenization, NFTMinting
  <2>2. CASE i \in 1 .. cursor
    BY <1>2, <1>3, <2>1, <2>2 DEF ReceivedElements, ReadRequests
  <2>3. Tokenization(i) # NFTMinting(i)
    BY DEF Tokenization, NFTMinting
  <2>4. QED BY <2>1, <2>2, <2>3
<1>7. CASE HeardRecyclings(a)'
  <2>1. PICK i \in 1 .. heard' : a = Recycling(recycledLog'[i].tokenId)
    BY <1>7 DEF HeardRecyclings, Recycling
  <2>2. CASE i \in 1 .. heard
    BY <1>2, <1>4, <2>1, <2>2 DEF ReceivedElements, HeardRecyclings
  <2>3. QED BY <2>1, <2>2
<1>8. QED BY <1>2, <1>6, <1>7 DEF ReceivedElements

\* Everything held after the step was held before, at another place maybe, but
\* no two things at one place.
HeldFrom(place) ==
  \A i \in 1 .. Len(Held') : place[i] \in 1 .. Len(Held) /\ Held'[i] = Held[place[i]]
UsedOnce(place) == \A i, j \in 1 .. Len(Held') : place[i] = place[j] => i = j

\* A step that receives nothing, and drops only what is settled.
LEMMA QueueKept ==
  ASSUME AllInv, AllInv', [Next]_vars, QueueInv, UNCHANGED inputVars,
         NEW place, HeldFrom(place), UsedOnce(place),
         \A a : IsHeld(a) => IsHeld(a)' \/ Settled(a)'
  PROVE  QueueInv'
<1>1. BridgeInv /\ BridgeInv' /\ HeldElements /\ HeldElements'
  BY HeldIsSequence, HeldIsSequenceAfterStep DEF AllInv, BridgeInv
<1>2. DOMAIN Held = 1 .. Len(Held) /\ DOMAIN Held' = 1 .. Len(Held')
  BY <1>1 DEF HeldElements
<1>3. cursor' = cursor /\ heard' = heard /\ process' = process
  BY DEF inputVars
<1>4. HeldWasRead'
  BY <1>2, <1>3 DEF QueueInv, HeldWasRead, HeldFrom
<1>5. HeldOnce'
  BY <1>2 DEF QueueInv, HeldOnce, HeldFrom, UsedOnce
<1>6. \A a \in Received' : a \in Received
  BY <1>1, <1>3, ReceivedBefore
<1>7. ASSUME process = "running", NEW a \in Received' PROVE Settled(a)' \/ IsHeld(a)'
  <2>1. a \in Received /\ a \in Asked
    BY <1>1, <1>6, <1>7, ReceivedIsAsked DEF BridgeInv
  <2>2. Settled(a) \/ IsHeld(a)
    BY <1>7, <2>1 DEF QueueInv, OwedIsHeld
  <2>3. QED BY <2>1, <2>2, SettledStays
<1>8. OwedIsHeld'
  BY <1>3, <1>7 DEF OwedIsHeld
<1>9. QED BY <1>3, <1>4, <1>5, <1>8 DEF QueueInv

\* A step that receives: recyclings, or the one request of the next event.
LEMMA QueueGrows ==
  ASSUME WorkInv, WorkInv', LedgersInv, HeldOnce, HeldWasRead, cursor \in Nat,
         NEW new \in Seq(Asked), batch' = batch, pendingActions' = pendingActions \o new,
         \/ cursor' = cursor /\ \A i \in 1 .. Len(new) : new[i].type = "recycling"
         \/ cursor' = cursor + 1 /\ Len(new) <= 1 /\ \A i \in 1 .. Len(new) : new[i].ref = cursor'
  PROVE  /\ HeldOnce' /\ HeldWasRead'
         /\ \A a : IsHeld(a) => IsHeld(a)'
         /\ \A i \in 1 .. Len(new) : IsHeld(new[i])'
<1> PICK n : n = Len(Held)
  OBVIOUS
<1> PICK k : k = Len(new)
  OBVIOUS
<1>1. /\ n \in Nat /\ k \in Nat /\ DOMAIN Held = 1 .. n /\ DOMAIN Held' = 1 .. n + k
      /\ \A i \in 1 .. n : Held'[i] = Held[i]
      /\ \A i \in 1 .. k : Held'[n + i] = new[i]
  <2>1. HeldElements /\ HeldElements'
    BY HeldIsSequence, HeldIsSequenceAfterStep
  <2>2. /\ k \in Nat /\ Len(Held') = n + k
        /\ \A i \in 1 .. n : Held'[i] = Held[i]
        /\ \A i \in 1 .. k : Held'[n + i] = new[i]
    BY ReceiveHolds
  <2>3. n \in Nat /\ DOMAIN Held = 1 .. n /\ DOMAIN Held' = 1 .. Len(Held')
    BY <2>1 DEF HeldElements
  <2>4. QED BY <2>2, <2>3
<1>2. \A i \in 1 .. n : i \in 1 .. n + k
  BY <1>1
<1>3. \A i \in 1 .. k : n + i \in 1 .. n + k
  BY <1>1
<1>4. \A a : IsHeld(a) => IsHeld(a)'
  BY <1>1, <1>2 DEF IsHeld
<1>5. \A i \in 1 .. k : IsHeld(new[i])'
  BY <1>1, <1>3 DEF IsHeld
<1>6. ASSUME NEW i \in 1 .. n + k
      PROVE  i \in 1 .. n \/ (i - n \in 1 .. k /\ Held'[i] = new[i - n])
  <2>1. i \in 1 .. n \/ (i - n \in 1 .. k /\ n + (i - n) = i)
    BY <1>1
  <2>2. QED BY <1>1, <2>1
<1>7. CASE cursor' = cursor /\ \A i \in 1 .. k : new[i].type = "recycling"
  <2>1. \A i \in 1 .. n + k :
          Held'[i].type # "recycling" => i \in 1 .. n /\ Held'[i] = Held[i]
    BY <1>1, <1>6, <1>7
  <2>2. HeldWasRead'
    BY <1>1, <1>7, <2>1 DEF HeldWasRead
  <2>3. HeldOnce'
    BY <1>1, <2>1 DEF HeldOnce
  <2>4. QED BY <1>4, <1>5, <2>2, <2>3
<1>8. CASE cursor' = cursor + 1 /\ k <= 1 /\ \A i \in 1 .. k : new[i].ref = cursor'
  <2> PICK c : c = cursor'
    OBVIOUS
  <2>1. \A i \in 1 .. n + k :
          Held'[i].type # "recycling" =>
            \/ i \in 1 .. n /\ Held'[i] = Held[i] /\ Held'[i].ref <= cursor
            \/ i = n + 1 /\ Held'[i].ref = c
    <3> SUFFICES ASSUME NEW i \in 1 .. n + k, Held'[i].type # "recycling"
                 PROVE  \/ i \in 1 .. n /\ Held'[i] = Held[i] /\ Held'[i].ref <= cursor
                        \/ i = n + 1 /\ Held'[i].ref = c
      OBVIOUS
    <3>1. CASE i \in 1 .. n
      BY <1>1, <3>1 DEF HeldWasRead
    <3>2. CASE i - n \in 1 .. k /\ Held'[i] = new[i - n]
      <4>1. i = n + 1
        BY <1>1, <1>8, <3>2
      <4>2. Held'[i].ref = c
        BY <1>8, <3>2
      <4>3. QED BY <4>1, <4>2
    <3>3. QED BY <1>6, <3>1, <3>2
  <2>2. c = cursor + 1 /\ c \in Nat
    BY <1>8
  <2>3. \A i \in 1 .. n : Held[i].type # "recycling" => Held[i].ref \in Nat
    <3>1. \A i \in 1 .. n : Held[i] \in Asked
      BY <1>1, HeldIsSequence DEF HeldElements
    <3>2. \A i \in Approvals \cup Mintings : i \in Nat
      BY EventFacts, BridgeAssumption DEF Approvals, Mintings
    <3>3. QED BY <3>1, <3>2, AskedKinds
  <2>4. HeldWasRead'
    <3>1. ASSUME NEW i \in 1 .. n + k, Held'[i].type # "recycling" PROVE Held'[i].ref <= c
      <4>1. CASE i \in 1 .. n /\ Held'[i] = Held[i] /\ Held'[i].ref <= cursor
        BY <2>2, <2>3, <3>1, <4>1
      <4>2. CASE i = n + 1 /\ Held'[i].ref = c
        BY <2>2, <4>2
      <4>3. QED BY <2>1, <3>1, <4>1, <4>2
    <3>2. QED BY <1>1, <3>1 DEF HeldWasRead
  <2>5. HeldOnce'
    <3>1. ASSUME NEW i \in 1 .. n + k, NEW j \in 1 .. n + k,
                 Held'[i] = Held'[j], Held'[i].type # "recycling"
          PROVE  i = j
      <4>1. ~(c <= cursor)
        BY <2>2
      <4>2. CASE i \in 1 .. n /\ Held'[i] = Held[i] /\ Held'[i].ref <= cursor
        <5>1. ~(Held'[j].ref = c)
          BY <3>1, <4>1, <4>2
        <5>2. j \in 1 .. n /\ Held'[j] = Held[j]
          BY <2>1, <3>1, <5>1
        <5>3. QED BY <1>1, <3>1, <4>2, <5>2 DEF HeldOnce
      <4>3. CASE i = n + 1 /\ Held'[i].ref = c
        <5>1. ~(Held'[j].ref <= cursor)
          BY <3>1, <4>1, <4>3
        <5>2. QED BY <2>1, <3>1, <4>3, <5>1
      <4>4. QED BY <2>1, <3>1, <4>2, <4>3
    <3>2. QED BY <1>1, <3>1 DEF HeldOnce
  <2>6. QED BY <1>4, <1>5, <2>4, <2>5
<1>9. QED BY <1>7, <1>8

\* Nothing held moves.
LEMMA QueueStill ==
  ASSUME AllInv, AllInv', [Next]_vars, QueueInv, UNCHANGED inputVars,
         Len(Held') = Len(Held), \A i \in 1 .. Len(Held) : Held'[i] = Held[i]
  PROVE  QueueInv'
<1> PICK n : n = Len(Held)
  OBVIOUS
<1> DEFINE place == [i \in 1 .. n |-> i]
<1>1. DOMAIN Held = 1 .. n /\ DOMAIN Held' = 1 .. n
  BY HeldIsSequence, HeldIsSequenceAfterStep DEF HeldElements, AllInv, BridgeInv
<1>2. HeldFrom(place) /\ UsedOnce(place)
  BY DEF HeldFrom, UsedOnce
<1>3. \A a : IsHeld(a) => IsHeld(a)'
  BY <1>1 DEF IsHeld
<1> HIDE DEF place
<1>4. QED BY <1>2, <1>3, QueueKept

\* The action that failed is still held.
LEMMA QueueTurns ==
  ASSUME AllInv, AllInv', [Next]_vars, QueueInv, UNCHANGED inputVars, step # "idle", Fail
  PROVE  QueueInv'
<1> PICK n : n = Len(Held)
  OBVIOUS
<1> DEFINE place == [i \in 1 .. n |-> IF i = n THEN 1 ELSE i + 1]
<1>1. /\ DOMAIN Held = 1 .. n /\ DOMAIN Held' = 1 .. n /\ n \in Nat /\ n >= 1
      /\ Len(Held') = n
      /\ \A i \in 1 .. n : Held'[i] = IF i = n THEN Held[1] ELSE Held[i + 1]
  <2>1. HeldElements /\ HeldElements' /\ WorkInv /\ WorkInv'
    BY HeldIsSequence, HeldIsSequenceAfterStep DEF AllInv, BridgeInv
  <2>2. DOMAIN Held = 1 .. n /\ DOMAIN Held' = 1 .. Len(Held') /\ n \in Nat
    BY <2>1 DEF HeldElements
  <2>3. QED BY <2>1, <2>2, FailHolds
<1>2. \A i \in 1 .. n : place[i] \in 1 .. n /\ Held'[i] = Held[place[i]]
  BY <1>1
<1>3. \A i, j \in 1 .. n : place[i] = place[j] => i = j
  BY <1>1
<1>4. ASSUME NEW i \in 1 .. n PROVE \E j \in 1 .. n : Held'[j] = Held[i]
  <2>1. CASE i = 1
    BY <1>1, <2>1
  <2>2. CASE i # 1
    <3>1. i - 1 \in 1 .. n /\ i - 1 # n /\ (i - 1) + 1 = i
      BY <1>1, <2>2
    <3>2. QED BY <1>1, <3>1
  <2>3. QED BY <2>1, <2>2
<1>5. \A a : IsHeld(a) => IsHeld(a)'
  BY <1>1, <1>4 DEF IsHeld
<1> HIDE DEF place
<1>6. HeldFrom(place) /\ UsedOnce(place)
  BY <1>1, <1>2, <1>3 DEF HeldFrom, UsedOnce
<1>7. QED BY <1>5, <1>6, QueueKept

\* The action that is done is settled.
LEMMA QueueServed ==
  ASSUME AllInv, AllInv', [Next]_vars, QueueInv, UNCHANGED <<inputVars, nftVars>>, step = "ack",
         Submit(Action, receipt), Succeed
  PROVE  QueueInv'
<1> PICK n : n = Len(Held)
  OBVIOUS
<1> DEFINE place == [i \in 1 .. n |-> i + 1]
<1>1. /\ DOMAIN Held = 1 .. n /\ DOMAIN Held' = 1 .. n - 1 /\ n \in Nat /\ n >= 1
      /\ Len(Held') = n - 1 /\ Action = Held[1] /\ Held[1] \in Asked
      /\ \A i \in 1 .. n - 1 : Held'[i] = Held[i + 1]
  <2>1. HeldElements /\ HeldElements' /\ WorkInv /\ WorkInv'
    BY HeldIsSequence, HeldIsSequenceAfterStep DEF AllInv, BridgeInv
  <2>2. /\ DOMAIN Held = 1 .. n /\ DOMAIN Held' = 1 .. Len(Held') /\ n \in Nat
        /\ \A i \in 1 .. n : Held[i] \in Asked
    BY <2>1 DEF HeldElements
  <2>3. QED BY <2>1, <2>2, SucceedHolds
<1>2. \A i \in 1 .. n - 1 : place[i] \in 1 .. n /\ Held'[i] = Held[place[i]]
  BY <1>1
<1>3. \A i, j \in 1 .. n - 1 : place[i] = place[j] => i = j
  BY <1>1
<1> PICK done : done = Held[1]
  OBVIOUS
<1>4. Settled(done)'
  <2> PICK hash : hash = receipt
    OBVIOUS
  <2>1. hash \in Hashes /\ AckReady(done, hash) /\ Submit(done, hash)
    BY <1>1 DEF AllInv, BridgeInv, WorkInv, HeadInv
  <2>2. QED BY <1>1, <2>1, SubmitSettles
<1>5. ASSUME NEW i \in 1 .. n PROVE Held[i] = done \/ \E j \in 1 .. n - 1 : Held'[j] = Held[i]
  <2>1. CASE i # 1
    <3>1. i - 1 \in 1 .. n - 1 /\ (i - 1) + 1 = i
      BY <1>1, <2>1
    <3>2. QED BY <1>1, <3>1
  <2>2. QED BY <2>1
<1>6. ASSUME NEW a, IsHeld(a) PROVE IsHeld(a)' \/ Settled(a)'
  <2>1. PICK i \in 1 .. n : Held[i] = a
    BY <1>1, <1>6 DEF IsHeld
  <2>2. CASE a = done
    BY <1>4, <2>2
  <2>3. CASE \E j \in 1 .. n - 1 : Held'[j] = a
    BY <1>1, <2>3 DEF IsHeld
  <2>4. QED BY <1>5, <2>1, <2>2, <2>3
<1> HIDE DEF place
<1>7. HeldFrom(place) /\ UsedOnce(place)
  BY <1>1, <1>2, <1>3 DEF HeldFrom, UsedOnce
<1>8. QED BY <1>6, <1>7, QueueKept

\* What was received before is settled or held as before.
LEMMA QueueOwes ==
  ASSUME AllInv, AllInv', [Next]_vars, QueueInv, process' = process,
         \A a : IsHeld(a) => IsHeld(a)',
         \A a \in Received' : a \in Received \/ IsHeld(a)'
  PROVE  OwedIsHeld'
<1>1. ASSUME process = "running", NEW a \in Received PROVE Settled(a)' \/ IsHeld(a)'
  <2>1. a \in Asked
    BY <1>1, ReceivedIsAsked DEF AllInv, BridgeInv
  <2>2. Settled(a) \/ IsHeld(a)
    BY <1>1 DEF QueueInv, OwedIsHeld
  <2>3. QED BY <2>1, <2>2, SettledStays
<1>2. QED BY <1>1 DEF OwedIsHeld

LEMMA FewActions ==
  ASSUME NEW c, NEW new, new = <<>> \/ \E a \in Asked : a.ref = c /\ new = <<a>>
  PROVE  new \in Seq(Asked) /\ Len(new) <= 1 /\ \A i \in 1 .. Len(new) : new[i].ref = c
<1>1. CASE new = <<>>
  BY <1>1, EmptySeq
<1>2. ASSUME NEW a \in Asked, a.ref = c, new = <<a>>
      PROVE  new \in Seq(Asked) /\ Len(new) <= 1 /\ \A i \in 1 .. Len(new) : new[i].ref = c
  BY <1>2
<1>3. QED BY <1>1, <1>2

\* What is received goes behind the rest.
LEMMA QueueReceives ==
  ASSUME AllInv, AllInv', QueueInv, Receive
  PROVE  QueueInv'
<1>1. /\ WorkInv /\ WorkInv' /\ LedgersInv /\ LedgersInv' /\ InputsInv /\ InputsInv'
      /\ HeldElements /\ HeldElements' /\ BridgeInv /\ BridgeInv' /\ [Next]_vars
      /\ UNCHANGED <<chainVars, workVars>>
  BY HeldIsSequence, HeldIsSequenceAfterStep
     DEF AllInv, BridgeInv, Next, Receive, Subscribe, Reconcile, HearRecycled, ReadEvent
<1>2. /\ cursor \in Nat /\ Len(events) \in Nat /\ DOMAIN events = 1 .. Len(events)
  BY <1>1, LenProperties DEF LedgersInv, Chaincode!CottonInv, Chaincode!TypeOK, InputsInv
<1>3. CASE Subscribe
  <2>1. Held' = Held /\ cursor' = cursor /\ cursor = 0 /\ process' = "starting"
    BY <1>1, <1>3 DEF Subscribe, workVars, QueueInv, Held
  <2>2. QED BY <2>1 DEF QueueInv, OwedIsHeld, HeldOnce, HeldWasRead
<1>4. CASE Reconcile
  <2> PICK past : past = [i \in DOMAIN recycledLog |-> Recycling(recycledLog[i].tokenId)]
    OBVIOUS
  <2>1. /\ past \in Seq(Asked) /\ Len(past) = Len(recycledLog)
        /\ \A i \in 1 .. Len(recycledLog) : past[i] = Recycling(recycledLog[i].tokenId)
        /\ DOMAIN recycledLog = 1 .. Len(recycledLog)
    <3>1. DOMAIN recycledLog = 1 .. Len(recycledLog) /\ Len(recycledLog) \in Nat
      BY <1>1, TokenFacts DEF InputsInv
    <3>2. \A i \in 1 .. Len(recycledLog) : Recycling(recycledLog[i].tokenId) \in Asked
      BY <1>1, TokenFacts DEF Asked
    <3>3. past \in [1 .. Len(recycledLog) -> Asked]
      BY <3>1, <3>2
    <3>4. past \in Seq(Asked) /\ DOMAIN past = 1 .. Len(recycledLog)
      BY <3>1, <3>3, SeqDef
    <3>5. QED BY <3>1, <3>4, LenProperties
  <2>2. /\ pendingActions' = pendingActions \o past /\ batch' = batch /\ cursor' = cursor
        /\ cursor' = 0 /\ process' = "running" /\ heard' = heard /\ recycledLog' = recycledLog
    BY <1>1, <1>4 DEF Reconcile, FromGenesis, chainVars, nftVars, workVars, QueueInv
  <2>3. \A i \in 1 .. Len(past) : past[i].type = "recycling"
    BY <2>1 DEF Recycling
  <2>4. /\ HeldOnce' /\ HeldWasRead' /\ \A i \in 1 .. Len(past) : IsHeld(past[i])'
    BY <1>1, <1>2, <2>1, <2>2, <2>3, QueueGrows DEF QueueInv
  <2>5. ASSUME NEW a \in Received' PROVE IsHeld(a)'
    <3>1. HeardRecyclings(a)'
      BY <1>1, <2>2, ReceivedIsAfterStep DEF ReceivedElements, ReadRequests
    <3>2. PICK i \in 1 .. heard : a = Recycling(recycledLog[i].tokenId)
      BY <2>2, <3>1 DEF HeardRecyclings, Recycling
    <3>3. i \in 1 .. Len(past) /\ a = past[i]
      BY <1>1, <2>1, <3>2 DEF InputsInv
    <3>4. QED BY <2>4, <3>3
  <2>6. QED BY <2>2, <2>4, <2>5 DEF QueueInv, OwedIsHeld
<1>5. CASE HearRecycled
  <2> PICK h : h = heard + 1
    OBVIOUS
  <2> PICK new : new = <<Recycling(recycledLog[h].tokenId)>>
    OBVIOUS
  <2>1. /\ h \in 1 .. Len(recycledLog) /\ heard' = h /\ cursor' = cursor /\ process' = process
        /\ recycledLog' = recycledLog /\ batch' = batch
        /\ pendingActions' = Append(pendingActions, Recycling(recycledLog[h].tokenId))
    BY <1>1, <1>5, TokenFacts DEF HearRecycled, InputsInv, chainVars, nftVars, workVars
  <2>2. Recycling(recycledLog[h].tokenId) \in Asked
    BY <1>1, <2>1, TokenFacts DEF Asked
  <2>3. /\ new \in Seq(Asked) /\ Len(new) = 1 /\ new[1] = Recycling(recycledLog[h].tokenId)
        /\ pendingActions' = pendingActions \o new
    BY <1>1, <2>1, <2>2, AppendIsConcat DEF WorkInv
  <2>4. \A i \in 1 .. Len(new) : new[i].type = "recycling"
    BY <2>3 DEF Recycling
  <2>5. /\ HeldOnce' /\ HeldWasRead' /\ (\A a : IsHeld(a) => IsHeld(a)')
        /\ \A i \in 1 .. Len(new) : IsHeld(new[i])'
    BY <1>1, <1>2, <2>1, <2>3, <2>4, QueueGrows DEF QueueInv
  <2>6. ASSUME NEW a \in Received' PROVE a \in Received \/ IsHeld(a)'
    <3>1. CASE a \in Received
      BY <3>1
    <3>2. CASE \E i \in 1 .. heard' : i \notin 1 .. heard
                                     /\ a = Recycling(recycledLog'[i].tokenId)
      <4>1. PICK i \in 1 .. heard' : i \notin 1 .. heard
                                   /\ a = Recycling(recycledLog'[i].tokenId)
        BY <3>2
      <4>2. i = h
        BY <1>1, <2>1, <4>1 DEF InputsInv
      <4>3. a = new[1]
        BY <2>1, <2>3, <4>1, <4>2
      <4>4. QED BY <2>3, <2>5, <4>3
    <3>3. QED BY <1>1, <2>1, <3>1, <3>2, ReceivedBefore
  <2>7. OwedIsHeld'
    BY <1>1, <2>1, <2>5, <2>6, QueueOwes
  <2>8. QED BY <2>1, <2>5, <2>7 DEF QueueInv
<1>6. CASE ReadEvent
  <2> PICK c : c = cursor + 1
    OBVIOUS
  <2> PICK new : new = Requested(c)
    OBVIOUS
  <2>1. /\ c \in DOMAIN events /\ cursor' = c /\ heard' = heard /\ process' = process
        /\ events' = events /\ batch' = batch /\ pendingActions' = pendingActions \o new
        /\ recycledLog' = recycledLog
    BY <1>1, <1>2, <1>6 DEF ReadEvent, InputsInv, chainVars, fabricVars, nftVars, workVars
  <2>2. \/ c \in Approvals /\ c \notin Mintings /\ new = <<Tokenization(c)>>
        \/ c \in Mintings /\ c \notin Approvals /\ new = <<NFTMinting(c)>>
        \/ c \notin Mintings /\ c \notin Approvals /\ new = <<>>
    BY <2>1 DEF Requested, Approvals, Mintings
  <2>3. new \in Seq(Asked) /\ Len(new) <= 1 /\ \A i \in 1 .. Len(new) : new[i].ref = c
    <3>1. CASE c \in Approvals /\ new = <<Tokenization(c)>>
      <4>1. Tokenization(c) \in Asked /\ Tokenization(c).ref = c
        BY <3>1 DEF Asked, Tokenization
      <4>2. QED BY <3>1, <4>1, FewActions
    <3>2. CASE c \in Mintings /\ new = <<NFTMinting(c)>>
      <4>1. NFTMinting(c) \in Asked /\ NFTMinting(c).ref = c
        BY <3>2 DEF Asked, NFTMinting
      <4>2. QED BY <3>2, <4>1, FewActions
    <3>3. CASE new = <<>>
      BY <3>3, FewActions
    <3>4. QED BY <2>2, <3>1, <3>2, <3>3
  <2>4. /\ HeldOnce' /\ HeldWasRead' /\ (\A a : IsHeld(a) => IsHeld(a)')
        /\ \A i \in 1 .. Len(new) : IsHeld(new[i])'
    BY <1>1, <1>2, <2>1, <2>3, QueueGrows DEF QueueInv
  <2>5. ASSUME NEW a \in Received' PROVE a \in Received \/ IsHeld(a)'
    <3>1. CASE \E i \in 1 .. cursor' : i \notin 1 .. cursor /\ a \in {Tokenization(i), NFTMinting(i)}
                                      /\ (a = Tokenization(i) => i \in Approvals')
                                      /\ (a = NFTMinting(i) => i \in Mintings')
      <4>1. PICK i \in 1 .. cursor' : i \notin 1 .. cursor /\ a \in {Tokenization(i), NFTMinting(i)}
                                      /\ (a = Tokenization(i) => i \in Approvals')
                                      /\ (a = NFTMinting(i) => i \in Mintings')
        BY <3>1
      <4>2. i = c
        BY <1>2, <2>1, <4>1
      <4>3. Approvals' = Approvals /\ Mintings' = Mintings
        BY <2>1 DEF Approvals, Mintings
      <4>4. Len(new) = 1 /\ a = new[1]
        BY <2>2, <4>1, <4>2, <4>3
      <4>5. QED BY <2>4, <4>4
    <3>2. QED BY <1>1, <2>1, <3>1, ReceivedBefore
  <2>6. OwedIsHeld'
    BY <1>1, <2>1, <2>4, <2>5, QueueOwes
  <2>7. process = "running"
    BY <1>6 DEF ReadEvent
  <2>8. QED BY <2>1, <2>4, <2>6, <2>7 DEF QueueInv
<1>7. QED BY <1>3, <1>4, <1>5, <1>6 DEF Receive

LEMMA InitQueue == Init => QueueInv
<1> SUFFICES ASSUME Init PROVE QueueInv
  OBVIOUS
<1>1. Held = <<>> /\ DOMAIN Held = {} /\ process = "down" /\ cursor = 0
  BY DEF Init, Held
<1>2. QED BY <1>1 DEF QueueInv, OwedIsHeld, HeldOnce, HeldWasRead

LEMMA NextQueue == AllInv /\ AllInv' /\ QueueInv /\ [Next]_vars => QueueInv'
<1> SUFFICES ASSUME AllInv, AllInv', QueueInv, [Next]_vars PROVE QueueInv'
  OBVIOUS
<1>1. WorkInv /\ WorkInv'
  BY DEF AllInv, BridgeInv
<1>2. CASE UNCHANGED <<inputVars, pendingActions, batch>>
  <2>1. Held' = Held
    BY <1>2 DEF Held
  <2>2. QED BY <1>2, <2>1, QueueStill
<1>3. CASE ProcessBatch
  BY <1>1, <1>3, SpliceHolds, QueueStill DEF ProcessBatch
<1>4. CASE step # "idle" /\ Fail /\ UNCHANGED inputVars
  BY <1>4, QueueTurns
<1>5. CASE CheckTokenization \/ CheckNFTMinting \/ CheckRecycling
  BY <1>2, <1>4, <1>5
     DEF CheckTokenization, CheckNFTMinting, CheckRecycling, AckNext, SendNext
<1>6. CASE SendMint \/ AwaitReceipt
  BY <1>2, <1>4, <1>6 DEF SendMint, AwaitReceipt, AckNext, Sent
<1>7. CASE Acknowledge \/ AcknowledgeUnanswered
  <2>1. CASE Submit(Action, receipt) /\ Succeed /\ Acknowledge
    BY <2>1, QueueServed DEF Acknowledge
  <2>2. QED BY <1>4, <1>7, <2>1 DEF Acknowledge, AcknowledgeUnanswered
<1>8. CASE Receive
  BY <1>8, QueueReceives
<1>9. CASE Crash
  <2>1. Held' = <<>> /\ DOMAIN Held' = {} /\ process' = "down" /\ cursor' = 0
    BY <1>9 DEF Crash, Held
  <2>2. QED BY <2>1 DEF QueueInv, OwedIsHeld, HeldOnce, HeldWasRead
<1>10. CASE \/ Members \/ Owners \/ (\E b \in BatchIds : Attest(b))
            \/ (\E t \in DOMAIN txs : Include(t)) \/ (\E u \in unanswered : CommitUnanswered(u))
  BY <1>2, <1>10 DEF Members, Owners, Attest, Include, CommitUnanswered, workVars
<1>11. CASE UNCHANGED vars
  BY <1>2, <1>11 DEF vars, workVars
<1>12. QED
  BY <1>3, <1>5, <1>6, <1>7, <1>8, <1>9, <1>10, <1>11 DEF Next, Process

\* Whatever the process has read and Fabric does not show as settled, it still
\* holds, however its batches failed and were put back; and no request for a mint
\* is held twice.
THEOREM NoActionIsLost == Spec => []NoActionLost
<1>1. AllInv /\ QueueInv => NoActionLost
  <2> SUFFICES ASSUME AllInv, QueueInv PROVE NoActionLost
    OBVIOUS
  <2>1. \A a : IsHeld(a) => a \in Range(Held)
    BY DEF IsHeld, Range
  <2>2. QED BY <2>1 DEF QueueInv, OwedIsHeld, HeldOnce, NoActionLost, Held
<1>2. Init => QueueInv
  BY InitQueue
<1>3. AllInv /\ AllInv' /\ QueueInv /\ [Next]_vars => QueueInv'
  BY NextQueue
<1>4. QED BY <1>1, <1>2, <1>3, AllInvariant, PTL DEF Spec
=============================================================================
