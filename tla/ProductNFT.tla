----------------------------- MODULE ProductNFT -----------------------------
(***************************************************************************)
(* The ERC-721 token of finished products: minted once per Fabric product, *)
(* traded, and recycled once.  Each action is one successful transaction.  *)
(* The logs are kept because the bridge recovers from them.  "Variant"     *)
(* definitions are buggy forms of the definition that follows them and no  *)
(* part of the specification.                                              *)
(***************************************************************************)
EXTENDS Integers, Sequences, FiniteSets, SequencesExt

CONSTANTS
  ProductIds,   \* non-empty Fabric product ids
  Terms,        \* what a mint says of a product: type, manufacturer, URI
  Users,        \* accounts that may hold tokens
  BridgeRole,   \* accounts with BRIDGE_ROLE
  MaxTokens,    \* bound: tokens ever minted
  Null

TokenIds == 1 .. MaxTokens

ProductData == [fabricProductId : ProductIds, terms : Terms, recycled : BOOLEAN]

\* Null, for what no token has yet, is none of the values it stands in for.
ASSUME ProductNFTAssumption ==
  /\ MaxTokens \in Nat
  /\ Null \notin Users \cup ProductIds
  /\ Null \notin ProductData

VARIABLES
  tokenIdCounter,
  productData,      \* per token; Null before it is minted
  fabricToTokenId,  \* per product; 0 for none
  owner,            \* per token
  transferLog,      \* Transfer events from the zero address
  recycledLog       \* ProductRecycled events

nftVars == <<tokenIdCounter, productData, fabricToTokenId, owner, transferLog, recycledLog>>

Minted(id) == id \in TokenIds /\ owner[id] # Null

\* "fabric product ID already used"
NotUsed(p) == fabricToTokenId[p] = 0

NewTokenId == tokenIdCounter + 1

MintProduct(to, p, terms) ==
  /\ NotUsed(p)
  /\ tokenIdCounter < MaxTokens
  /\ tokenIdCounter' = tokenIdCounter + 1
  /\ productData' = [productData EXCEPT ![NewTokenId] =
       [fabricProductId |-> p, terms |-> terms, recycled |-> FALSE]]
  /\ fabricToTokenId' = [fabricToTokenId EXCEPT ![p] = NewTokenId]
  /\ owner' = [owner EXCEPT ![NewTokenId] = to]
  /\ transferLog' = Append(transferLog, [to |-> to, tokenId |-> NewTokenId])
  /\ UNCHANGED recycledLog

\* Variant: the flag is not looked at.
RecyclableAgain(id) == Minted(id)

\* "product already recycled"
NotRecycled(id) == Minted(id) /\ ~productData[id].recycled

\* The owner, or an account with BRIDGE_ROLE whoever the owner is.
RecycleProduct(id, sender) ==
  /\ NotRecycled(id)
  /\ owner[id] = sender \/ sender \in BridgeRole
  /\ productData' = [productData EXCEPT ![id].recycled = TRUE]
  /\ recycledLog' = Append(recycledLog, [tokenId |-> id, recycler |-> sender])
  /\ UNCHANGED <<tokenIdCounter, fabricToTokenId, owner, transferLog>>

\* ERC-721 transfers, by the owner or an account the owner approved.
TransferNFT(id, to) ==
  /\ Minted(id)
  /\ owner' = [owner EXCEPT ![id] = to]
  /\ UNCHANGED <<tokenIdCounter, productData, fabricToTokenId, transferLog, recycledLog>>

Init ==
  /\ tokenIdCounter = 0
  /\ productData = [id \in TokenIds |-> Null]
  /\ fabricToTokenId = [p \in ProductIds |-> 0]
  /\ owner = [id \in TokenIds |-> Null]
  /\ transferLog = <<>>
  /\ recycledLog = <<>>

Next ==
  \/ \E to \in Users, p \in ProductIds, t \in Terms : MintProduct(to, p, t)
  \/ \E id \in TokenIds, sender \in Users \cup BridgeRole : RecycleProduct(id, sender)
  \/ \E id \in TokenIds, to \in Users : TransferNFT(id, to)

Spec == Init /\ [][Next]_nftVars

-----------------------------------------------------------------------------
(* Properties                                                              *)

TypeOK ==
  /\ tokenIdCounter \in 0 .. MaxTokens
  /\ productData \in [TokenIds -> ProductData \cup {Null}]
  /\ fabricToTokenId \in [ProductIds -> 0 .. MaxTokens]
  /\ owner \in [TokenIds -> Users \cup {Null}]
  /\ transferLog \in Seq([to : Users, tokenId : TokenIds])
  /\ recycledLog \in Seq([tokenId : TokenIds, recycler : Users \cup BridgeRole])

\* A product has at most one token and a token one product, through which each
\* is found from the other.
OneTokenPerProduct ==
  /\ \A id \in TokenIds : Minted(id) <=> id <= tokenIdCounter
  /\ \A id \in TokenIds : Minted(id) =>
       fabricToTokenId[productData[id].fabricProductId] = id
  /\ \A p \in ProductIds : fabricToTokenId[p] # 0 =>
       productData[fabricToTokenId[p]].fabricProductId = p

\* The numbers of the ProductRecycled events of a token.
RecyclingsOf(id) == {i \in DOMAIN recycledLog : recycledLog[i].tokenId = id}

\* The logs are what the bridge takes them for: every token was minted by one
\* Transfer from the zero address, and a token is recycled exactly when there is
\* one ProductRecycled event of it.
LogsFaithful ==
  /\ [i \in DOMAIN transferLog |-> transferLog[i].tokenId]
       = [i \in 1 .. tokenIdCounter |-> i]
  /\ \A id \in TokenIds :
       Cardinality(RecyclingsOf(id)) =
         IF Minted(id) /\ productData[id].recycled THEN 1 ELSE 0

\* Products, tokens and the logs the bridge recovers from tell one story.
TokensFaithful == OneTokenPerProduct /\ LogsFaithful
=============================================================================
