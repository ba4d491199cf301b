--------------------------- MODULE MCVerifiedBridge ---------------------------
EXTENDS VerifiedBridge, TLC

Symmetry == Permutations(BatchIds) \cup Permutations(RequestIds)
              \cup Permutations(ProductIds) \cup Permutations(Users)

\* Members finish a generic product, or write the receipt of a recycling into it.
Finish == [status |-> "FINISHED", recyclingTx |-> Null]
FinishOnly == {Finish}
AnyReceipt ==
  {Finish} \cup [status : {"FINISHED", "NFT_MINT_PENDING", "TOKENIZED"}, recyclingTx : {RecyclingTx(1)}]
OneReceipt == {Finish, [Finish EXCEPT !.recyclingTx = RecyclingTx(1)]}

\* Batches of the largest size only, so that a request may leave capacity.
LargeBatches == \A b \in BatchIds : Fabric!IsBatch(b) => ledger[b].quantity = MaxKg
=============================================================================
