--------------------------- MODULE ProductNFTProofs ---------------------------
(***************************************************************************)
(* Proofs about ProductNFT for every set of products, terms and accounts.  *)
(* The lemmas about its steps do not ask who calls, so that they hold for  *)
(* the contracts and the bridge that use the token as well.                *)
(***************************************************************************)
EXTENDS ProductNFT, FiniteSetTheorems, SequenceTheorems, TLAPS

\* The inductive form of the part of LogsFaithful about recyclings: there is no
\* event of a token that is not recycled, and one of a token that is.
RecyclingsLogged ==
  \A id \in TokenIds :
    IF Minted(id) /\ productData[id].recycled
      THEN \E i \in DOMAIN recycledLog : RecyclingsOf(id) = {i}
      ELSE RecyclingsOf(id) = {}

\* The inductive form of OneTokenPerProduct and of the part of LogsFaithful
\* about transfers: the tokens are numbered 1 .. tokenIdCounter, which is also
\* how long the log is, and no product has a token with a higher number.
TokensNumbered ==
  /\ \A id \in TokenIds : /\ Minted(id) <=> id <= tokenIdCounter
                          /\ productData[id] # Null <=> Minted(id)
  /\ \A p \in ProductIds : fabricToTokenId[p] <= tokenIdCounter
  /\ Len(transferLog) = tokenIdCounter
  /\ \A i \in 1 .. tokenIdCounter : transferLog[i].tokenId = i

\* The inductive invariant.
TokensInv ==
  /\ TypeOK
  /\ OneTokenPerProduct
  /\ TokensNumbered
  /\ RecyclingsLogged

LEMMA InitTokens == Init => TokensInv
<1> SUFFICES ASSUME Init PROVE TokensInv
  OBVIOUS
<1> USE ProductNFTAssumption DEF Init, TokenIds
<1>1. TypeOK
  BY DEF TypeOK
<1>2. \A id \in TokenIds : ~Minted(id) /\ RecyclingsOf(id) = {}
  BY DEF Minted, RecyclingsOf
<1>3. OneTokenPerProduct
  BY <1>2 DEF OneTokenPerProduct
<1>4. TokensNumbered
  BY <1>2 DEF TokensNumbered
<1>5. RecyclingsLogged
  BY <1>2 DEF RecyclingsLogged
<1>6. QED BY <1>1, <1>3, <1>4, <1>5 DEF TokensInv

\* Appending to the log of recyclings adds one number to one token.
LEMMA RecyclingAppended ==
  ASSUME NEW S, recycledLog \in Seq(S), NEW e \in S, recycledLog' = Append(recycledLog, e)
  PROVE  /\ recycledLog' \in Seq(S)
         /\ Len(recycledLog') = Len(recycledLog) + 1
         /\ DOMAIN recycledLog' = DOMAIN recycledLog \cup {Len(recycledLog')}
         /\ Len(recycledLog') \notin DOMAIN recycledLog
         /\ recycledLog'[Len(recycledLog')] = e
         /\ \A i \in DOMAIN recycledLog : recycledLog'[i] = recycledLog[i]
<1>1. /\ recycledLog' \in Seq(S)
      /\ Len(recycledLog') = Len(recycledLog) + 1
      /\ \A i \in 1 .. Len(recycledLog) : recycledLog'[i] = recycledLog[i]
      /\ recycledLog'[Len(recycledLog) + 1] = e
  BY AppendProperties
<1>2. /\ DOMAIN recycledLog = 1 .. Len(recycledLog)
      /\ DOMAIN recycledLog' = 1 .. Len(recycledLog')
      /\ Len(recycledLog) \in Nat
  BY <1>1, LenProperties
<1>3. QED BY <1>1, <1>2

LEMMA MintKeepsTokens ==
  ASSUME TokensInv, NEW to \in Users, NEW p \in ProductIds, NEW t \in Terms,
         MintProduct(to, p, t)
  PROVE  TokensInv'
<1> PICK n : n = tokenIdCounter + 1
  OBVIOUS
<1> DEFINE data == [fabricProductId |-> p, terms |-> t, recycled |-> FALSE]
           entry == [to |-> to, tokenId |-> n]
<1> USE ProductNFTAssumption
<1>1. /\ n \in TokenIds /\ tokenIdCounter \in Nat /\ tokenIdCounter' = n
      /\ n \in 0 .. MaxTokens /\ n # 0
      /\ fabricToTokenId[p] = 0
  BY DEF MintProduct, NotUsed, TokensInv, TypeOK, TokenIds
<1>2. data \in ProductData /\ data.fabricProductId = p /\ ~data.recycled
  BY DEF ProductData
<1>3. /\ productData' = [productData EXCEPT ![n] = data]
      /\ fabricToTokenId' = [fabricToTokenId EXCEPT ![p] = n]
      /\ owner' = [owner EXCEPT ![n] = to]
      /\ transferLog' = Append(transferLog, entry)
      /\ recycledLog' = recycledLog
  BY DEF MintProduct, NewTokenId
<1> HIDE DEF data
<1>4. /\ transferLog \in Seq([to : Users, tokenId : TokenIds])
      /\ entry \in [to : Users, tokenId : TokenIds] /\ entry.tokenId = n
  BY <1>1 DEF TokensInv, TypeOK
<1> HIDE DEF entry
<1>5. /\ transferLog' \in Seq([to : Users, tokenId : TokenIds])
      /\ Len(transferLog') = Len(transferLog) + 1
      /\ \A i \in 1 .. Len(transferLog) : transferLog'[i] = transferLog[i]
      /\ transferLog'[Len(transferLog) + 1] = entry
  BY <1>3, <1>4, AppendProperties
<1>6. TypeOK'
  BY <1>1, <1>2, <1>3, <1>5 DEF TokensInv, TypeOK
<1>7. /\ productData'[n] = data /\ owner'[n] = to /\ to # Null
      /\ \A id \in TokenIds \ {n} : productData'[id] = productData[id] /\ owner'[id] = owner[id]
      /\ fabricToTokenId'[p] = n
      /\ \A q \in ProductIds \ {p} : fabricToTokenId'[q] = fabricToTokenId[q]
  BY <1>1, <1>3 DEF TokensInv, TypeOK
<1>8. /\ ~Minted(n) /\ Minted(n)'
      /\ \A id \in TokenIds \ {n} : Minted(id)' <=> Minted(id)
  <2>1. ~(n <= tokenIdCounter)
    BY <1>1
  <2>2. ~Minted(n)
    BY <1>1, <2>1 DEF TokensInv, TokensNumbered
  <2>3. QED BY <1>1, <1>7, <2>2 DEF Minted
<1>9. \A id \in TokenIds : (id <= tokenIdCounter') <=> (id <= tokenIdCounter \/ id = n)
  BY <1>1 DEF TokenIds
<1>10. OneTokenPerProduct'
  <2>1. \A id \in TokenIds : Minted(id)' <=> id <= tokenIdCounter'
    BY <1>1, <1>8, <1>9 DEF TokensInv, OneTokenPerProduct
  <2>2. \A id \in TokenIds \ {n} : Minted(id) =>
          productData[id].fabricProductId # p /\ productData[id].fabricProductId \in ProductIds
    BY <1>1 DEF TokensInv, OneTokenPerProduct, TokensNumbered, TypeOK, ProductData, TokenIds
  <2>3. \A id \in TokenIds : Minted(id)' =>
          fabricToTokenId'[productData'[id].fabricProductId] = id
    <3>1. fabricToTokenId'[productData'[n].fabricProductId] = n
      BY <1>2, <1>7
    <3>2. ASSUME NEW id \in TokenIds \ {n}, Minted(id)'
          PROVE  fabricToTokenId'[productData'[id].fabricProductId] = id
      <4>1. /\ fabricToTokenId[productData[id].fabricProductId] = id
            /\ productData'[id] = productData[id]
        BY <1>7, <1>8, <3>2 DEF TokensInv, OneTokenPerProduct
      <4>2. QED BY <1>7, <1>8, <2>2, <3>2, <4>1
    <3>3. QED BY <3>1, <3>2
  <2>4. \A q \in ProductIds \ {p} : fabricToTokenId[q] # 0 => fabricToTokenId[q] \in TokenIds \ {n}
    BY <1>1 DEF TokensInv, TokensNumbered, TypeOK, TokenIds
  <2>5. \A q \in ProductIds : fabricToTokenId'[q] # 0 =>
          productData'[fabricToTokenId'[q]].fabricProductId = q
    BY <1>2, <1>7, <2>4 DEF TokensInv, OneTokenPerProduct
  <2>6. QED BY <2>1, <2>3, <2>5 DEF OneTokenPerProduct
<1>11. TokensNumbered'
  <2>1. \A id \in TokenIds : /\ Minted(id)' <=> id <= tokenIdCounter'
                             /\ productData'[id] # Null <=> Minted(id)'
    BY <1>1, <1>2, <1>7, <1>8, <1>9 DEF TokensInv, TokensNumbered
  <2>2. \A q \in ProductIds : fabricToTokenId'[q] <= tokenIdCounter'
    BY <1>1, <1>7 DEF TokensInv, TokensNumbered, TypeOK
  <2>3. /\ Len(transferLog') = tokenIdCounter'
        /\ \A i \in 1 .. tokenIdCounter' : transferLog'[i].tokenId = i
    BY <1>1, <1>4, <1>5 DEF TokensInv, TokensNumbered
  <2>4. QED BY <2>1, <2>2, <2>3 DEF TokensNumbered
<1>12. RecyclingsLogged'
  BY <1>2, <1>3, <1>7, <1>8 DEF TokensInv, RecyclingsLogged, RecyclingsOf
<1>13. QED BY <1>6, <1>10, <1>11, <1>12 DEF TokensInv

LEMMA RecycleKeepsTokens ==
  ASSUME TokensInv, NEW id \in TokenIds, NEW sender \in Users \cup BridgeRole,
         RecycleProduct(id, sender)
  PROVE  /\ TokensInv'
         /\ RecyclingsOf(id) = {}
<1> DEFINE entry == [tokenId |-> id, recycler |-> sender]
           data == [productData[id] EXCEPT !.recycled = TRUE]
<1> USE ProductNFTAssumption
<1>1. /\ Minted(id) /\ ~productData[id].recycled
      /\ productData[id] \in ProductData
      /\ productData' = [productData EXCEPT ![id] = data]
      /\ recycledLog' = Append(recycledLog, entry)
      /\ UNCHANGED <<tokenIdCounter, fabricToTokenId, owner, transferLog>>
  BY DEF RecycleProduct, NotRecycled, TokensInv, TokensNumbered, TypeOK
<1>2. data \in ProductData /\ data.recycled
      /\ data.fabricProductId = productData[id].fabricProductId
  BY <1>1 DEF ProductData
<1>3. entry \in [tokenId : TokenIds, recycler : Users \cup BridgeRole] /\ entry.tokenId = id
  OBVIOUS
<1> HIDE DEF entry, data
<1>4. RecyclingsOf(id) = {}
  BY <1>1 DEF TokensInv, RecyclingsLogged
<1>5. /\ recycledLog' \in Seq([tokenId : TokenIds, recycler : Users \cup BridgeRole])
      /\ RecyclingsOf(id)' = {Len(recycledLog')} /\ Len(recycledLog') \in DOMAIN recycledLog'
      /\ \A other \in TokenIds \ {id} : RecyclingsOf(other)' = RecyclingsOf(other)
      /\ \A i \in DOMAIN recycledLog : i \in DOMAIN recycledLog'
  BY <1>1, <1>3, <1>4, RecyclingAppended DEF TokensInv, TypeOK, RecyclingsOf
<1>6. /\ productData'[id] = data
      /\ \A other \in TokenIds \ {id} : productData'[other] = productData[other]
  BY <1>1 DEF TokensInv, TypeOK
<1>7. \A other \in TokenIds : Minted(other)' <=> Minted(other)
  BY <1>1 DEF Minted
<1>8. TypeOK'
  BY <1>1, <1>2, <1>5 DEF TokensInv, TypeOK
<1>9. OneTokenPerProduct'
  <2>1. \A p \in ProductIds : fabricToTokenId[p] # 0 => fabricToTokenId[p] \in TokenIds
    BY DEF TokensInv, TypeOK, TokenIds
  <2>2. \A other \in TokenIds : Minted(other) =>
          productData'[other].fabricProductId = productData[other].fabricProductId
    BY <1>2, <1>6
  <2>3. \A other \in TokenIds : Minted(other) =>
          fabricToTokenId[productData[other].fabricProductId] = other
    BY DEF TokensInv, OneTokenPerProduct
  <2>4. \A p \in ProductIds : fabricToTokenId[p] # 0 =>
          productData'[fabricToTokenId[p]].fabricProductId = p
    BY <1>2, <1>6, <2>1 DEF TokensInv, OneTokenPerProduct
  <2>5. QED BY <1>1, <1>7, <2>2, <2>3, <2>4 DEF TokensInv, OneTokenPerProduct
<1>10. TokensNumbered'
  BY <1>1, <1>2, <1>6, <1>7 DEF TokensInv, TokensNumbered
<1>11. RecyclingsLogged'
  BY <1>1, <1>2, <1>5, <1>6, <1>7 DEF TokensInv, RecyclingsLogged
<1>12. QED BY <1>4, <1>8, <1>9, <1>10, <1>11 DEF TokensInv

LEMMA TransferKeepsTokens ==
  ASSUME TokensInv, NEW id \in TokenIds, NEW to \in Users, TransferNFT(id, to)
  PROVE  TokensInv'
<1>1. /\ Minted(id) /\ owner' = [owner EXCEPT ![id] = to] /\ to # Null
      /\ UNCHANGED <<tokenIdCounter, productData, fabricToTokenId, transferLog, recycledLog>>
  BY ProductNFTAssumption DEF TransferNFT
<1>2. \A other \in TokenIds : Minted(other)' <=> Minted(other)
  BY <1>1 DEF TokensInv, TypeOK, Minted
<1>3. TypeOK'
  BY <1>1 DEF TokensInv, TypeOK
<1>4. OneTokenPerProduct' /\ TokensNumbered'
  BY <1>1, <1>2 DEF TokensInv, OneTokenPerProduct, TokensNumbered
<1>5. RecyclingsLogged'
  BY <1>1, <1>2 DEF TokensInv, RecyclingsLogged, RecyclingsOf
<1>6. QED BY <1>3, <1>4, <1>5 DEF TokensInv

LEMMA UnchangedTokens == TokensInv /\ UNCHANGED nftVars => TokensInv'
BY DEF nftVars, TokensInv, TypeOK, OneTokenPerProduct, TokensNumbered,
       RecyclingsLogged, RecyclingsOf, Minted

\* What the bridge needs of the logs follows from the inductive invariant.
LEMMA TokensFaithfulFromInv == TokensInv => TokensFaithful
<1> SUFFICES ASSUME TokensInv PROVE TokensFaithful
  OBVIOUS
<1>1. \A i : Cardinality({i}) = 1
  BY FS_Singleton
<1>2. Cardinality({}) = 0
  BY FS_EmptySet
<1>3. \A id \in TokenIds :
        Cardinality(RecyclingsOf(id)) = IF Minted(id) /\ productData[id].recycled THEN 1 ELSE 0
  BY <1>1, <1>2 DEF TokensInv, RecyclingsLogged
<1>4. [i \in DOMAIN transferLog |-> transferLog[i].tokenId] = [i \in 1 .. tokenIdCounter |-> i]
  <2>1. DOMAIN transferLog = 1 .. tokenIdCounter
    BY LenProperties DEF TokensInv, TokensNumbered, TypeOK
  <2>2. QED BY <2>1 DEF TokensInv, TokensNumbered
<1>5. QED BY <1>3, <1>4 DEF TokensInv, TokensFaithful, LogsFaithful

LEMMA NextKeepsTokens == TokensInv /\ [Next]_nftVars => TokensInv'
BY MintKeepsTokens, RecycleKeepsTokens, TransferKeepsTokens, UnchangedTokens DEF Next

\* Nothing that a step of the contract has said of a product or of a token is
\* taken back, and the logs only grow.
TokensStay ==
  /\ tokenIdCounter <= tokenIdCounter'
  /\ \A p \in ProductIds : fabricToTokenId[p] # 0 => fabricToTokenId'[p] = fabricToTokenId[p]
  /\ \A id \in 1 .. tokenIdCounter :
       /\ productData'[id].fabricProductId = productData[id].fabricProductId
       /\ productData'[id].terms = productData[id].terms
       /\ productData[id].recycled => productData'[id].recycled
       /\ transferLog'[id] = transferLog[id]
  /\ Len(recycledLog) <= Len(recycledLog')
  /\ \A i \in DOMAIN recycledLog : i \in DOMAIN recycledLog' /\ recycledLog'[i] = recycledLog[i]

LEMMA StepKeepsTokens == TokensInv /\ [Next]_nftVars => TokensStay
<1> SUFFICES ASSUME TokensInv, [Next]_nftVars PROVE TokensStay
  OBVIOUS
<1> tokenIdCounter \in Nat /\ 1 .. tokenIdCounter \subseteq TokenIds /\ Len(recycledLog) \in Nat
  BY ProductNFTAssumption, LenProperties DEF TokensInv, TypeOK, TokenIds
<1>1. CASE UNCHANGED nftVars
  BY <1>1 DEF nftVars, TokensStay
<1>2. ASSUME NEW to \in Users, NEW p \in ProductIds, NEW t \in Terms, MintProduct(to, p, t)
      PROVE  TokensStay
  <2> DEFINE entry == [to |-> to, tokenId |-> tokenIdCounter + 1]
  <2>1. /\ transferLog \in Seq([to : Users, tokenId : TokenIds])
        /\ entry \in [to : Users, tokenId : TokenIds]
        /\ transferLog' = Append(transferLog, entry)
        /\ Len(transferLog) = tokenIdCounter
    BY <1>2, ProductNFTAssumption
       DEF MintProduct, NewTokenId, TokensInv, TokensNumbered, TypeOK, TokenIds
  <2> HIDE DEF entry
  <2>2. \A id \in 1 .. tokenIdCounter : transferLog'[id] = transferLog[id]
    BY <2>1, AppendProperties
  <2>3. /\ tokenIdCounter' = tokenIdCounter + 1 /\ recycledLog' = recycledLog
        /\ \A q \in ProductIds :
             fabricToTokenId[q] # 0 => fabricToTokenId'[q] = fabricToTokenId[q]
        /\ \A id \in 1 .. tokenIdCounter : productData'[id] = productData[id]
    BY <1>2 DEF MintProduct, NewTokenId, NotUsed, TokensInv, TypeOK
  <2>4. QED BY <2>2, <2>3 DEF TokensStay
<1>3. ASSUME NEW id \in TokenIds, NEW sender \in Users \cup BridgeRole,
             RecycleProduct(id, sender)
      PROVE  TokensStay
  <2> DEFINE data == [productData[id] EXCEPT !.recycled = TRUE]
  <2>1. /\ productData[id] \in ProductData
        /\ productData' = [productData EXCEPT ![id] = data]
        /\ UNCHANGED <<tokenIdCounter, fabricToTokenId, transferLog>>
    BY <1>3 DEF RecycleProduct, NotRecycled, TokensInv, TokensNumbered, TypeOK
  <2>2. /\ data.fabricProductId = productData[id].fabricProductId
        /\ data.terms = productData[id].terms /\ data.recycled
    BY <2>1 DEF ProductData
  <2> HIDE DEF data
  <2>3. productData'[id] = data /\ \A o \in TokenIds \ {id} : productData'[o] = productData[o]
    BY <2>1 DEF TokensInv, TypeOK
  <2>4. /\ Len(recycledLog) <= Len(recycledLog')
        /\ \A i \in DOMAIN recycledLog :
             i \in DOMAIN recycledLog' /\ recycledLog'[i] = recycledLog[i]
    <3>1. /\ recycledLog' = Append(recycledLog, [tokenId |-> id, recycler |-> sender])
          /\ [tokenId |-> id, recycler |-> sender]
               \in [tokenId : TokenIds, recycler : Users \cup BridgeRole]
      BY <1>3 DEF RecycleProduct
    <3>2. QED BY <3>1, RecyclingAppended DEF TokensInv, TypeOK
  <2>5. QED BY <2>1, <2>2, <2>3, <2>4 DEF TokensStay
<1>4. ASSUME NEW id \in TokenIds, NEW to \in Users, TransferNFT(id, to)
      PROVE  TokensStay
  BY <1>4 DEF TransferNFT, TokensStay
<1>5. QED BY <1>1, <1>2, <1>3, <1>4 DEF Next

\* A token is recycled once, so there are no more recyclings than tokens.
LEMMA RecyclingsBounded == TokensInv => Len(recycledLog) <= MaxTokens
<1> SUFFICES ASSUME TokensInv, MaxTokens < Len(recycledLog) PROVE FALSE
  BY ProductNFTAssumption, LenProperties DEF TokensInv, TypeOK
<1> DEFINE token == [i \in DOMAIN recycledLog |-> recycledLog[i].tokenId]
<1>1. DOMAIN recycledLog = 1 .. Len(recycledLog) /\ Len(recycledLog) \in Nat
  BY LenProperties DEF TokensInv, TypeOK
<1>2. token \in [DOMAIN recycledLog -> TokenIds]
  <2>1. \A i \in DOMAIN recycledLog :
          recycledLog[i] \in [tokenId : TokenIds, recycler : Users \cup BridgeRole]
    BY <1>1, ElementOfSeq DEF TokensInv, TypeOK
  <2>2. QED BY <2>1
<1>3. IsFiniteSet(DOMAIN recycledLog) /\ Cardinality(DOMAIN recycledLog) = Len(recycledLog)
  <2>1. Cardinality(1 .. Len(recycledLog))
          = IF 1 > Len(recycledLog) THEN 0 ELSE Len(recycledLog) - 1 + 1
    BY <1>1, FS_Interval
  <2>2. QED BY <1>1, <2>1, FS_Interval
<1>4. IsFiniteSet(TokenIds) /\ Cardinality(TokenIds) = MaxTokens
  <2>1. Cardinality(1 .. MaxTokens) = IF 1 > MaxTokens THEN 0 ELSE MaxTokens - 1 + 1
    BY FS_Interval, ProductNFTAssumption
  <2>2. QED BY <2>1, FS_Interval, ProductNFTAssumption DEF TokenIds
<1>5. Cardinality(TokenIds) < Cardinality(DOMAIN recycledLog)
  BY <1>3, <1>4
<1>6. PICK i, j \in DOMAIN recycledLog : i # j /\ token[i] = token[j]
  <2> HIDE DEF token
  <2>1. QED BY <1>2, <1>3, <1>4, <1>5, FS_PigeonHole
<1>7. {i, j} \subseteq RecyclingsOf(token[i]) /\ token[i] \in TokenIds
  BY <1>2, <1>6 DEF RecyclingsOf
<1>8. QED BY <1>6, <1>7 DEF TokensInv, RecyclingsLogged

LEMMA NFTInvariant == Spec => []TokensInv
BY InitTokens, NextKeepsTokens, PTL DEF Spec

THEOREM NFTTypeCorrect == Spec => []TypeOK
<1>1. TokensInv => TypeOK
  BY DEF TokensInv
<1>2. QED BY <1>1, NFTInvariant, PTL

\* A product has at most one token and a token one product; the transfer log
\* lists the tokens in their order and a token is in the log of recyclings once
\* if it is recycled and never otherwise.
THEOREM TokensAreFaithful == Spec => []TokensFaithful
BY TokensFaithfulFromInv, NFTInvariant, PTL
=============================================================================
