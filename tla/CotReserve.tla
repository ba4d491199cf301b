----------------------------- MODULE CotReserve -----------------------------
(***************************************************************************)
(* The Ethereum side of COT issuance: CottonReserveRegistry (attested      *)
(* reserves) and CotToken (the ERC-20 minted against them).  Each action   *)
(* is one successful transaction; a call whose require fails reverts as a  *)
(* whole and is no step.  All uint256 arithmetic is checked, so a result   *)
(* outside Uint reverts too.  The definitions marked "Variant" are no part *)
(* of the specification: each is the definition that follows it with a     *)
(* bug, and shows that a property below is able to fail.                   *)
(***************************************************************************)
EXTENDS Integers, Sequences, FiniteSetsExt, Functions

CONSTANTS
  Batches,      \* non-empty batch ids (keccak256 is injective on them)
  FabricTxs,    \* non-zero Fabric transaction ids
  Provenances,  \* pairs (certificationHash, fabricVerificationTxId), both set
  Warehouses,   \* non-empty warehouse ids
  MaxUint,      \* type(uint256).max
  Zero          \* the zero value of a hash or of a string

Uint == 0 .. MaxUint
EventIds == FabricTxs \X Batches \X Uint

ASSUME ReserveAssumption ==
  /\ MaxUint \in Nat
  /\ IsFiniteSet(Batches)  \* they are hashes of 256 bits
  /\ Zero \notin Provenances \cup Warehouses \cup EventIds

VARIABLES
  reserves,           \* per batch; "updated" stands for lastUpdated # 0
  totalVerifiedKg,
  totalTokenizedKg,
  totalSupply,        \* of COT
  batchData,          \* per batch: the last warehouse and the minted amount
  allBatchIds,
  processedEvents,
  processedFabricTransactions

registryVars == <<reserves, totalVerifiedKg, totalTokenizedKg>>
replayVars == <<processedEvents, processedFabricTransactions>>
tokenVars == <<totalSupply, batchData, allBatchIds, processedEvents,
               processedFabricTransactions>>
vars == <<registryVars, tokenVars>>

Reserve == [verifiedKg : Uint, tokenizedKg : Uint, updated : BOOLEAN,
            active : BOOLEAN, provenance : Provenances \cup {Zero}]

BatchData == [warehouseId : Warehouses \cup {Zero}, amount : Uint]

-----------------------------------------------------------------------------
(* CottonReserveRegistry                                                   *)

\* Variant: arithmetic in an unchecked block.
UncheckedSum(n) == TRUE

\* Solidity 0.8 reverts when a result leaves the range.
Checked(n) == n \in Uint

\* Variant: a deactivated reserve is still subtracted.
CountedAlways(b) == reserves[b].verifiedKg

\* What the batch counts for in totalVerifiedKg.
Counted(b) == IF reserves[b].active THEN reserves[b].verifiedKg ELSE 0

\* The amended total, as the contract computes it.
AmendedTotal(b, kg) == totalVerifiedKg - Counted(b) + kg

\* Variant: the provenance can be replaced after a deactivation.
SameProvenanceWhileActive(b, prov) ==
  reserves[b].active => reserves[b].provenance = prov

\* A batch keeps the provenance it was first attested with.
SameProvenance(b, prov) ==
  reserves[b].updated => reserves[b].provenance = prov

\* Variant: an amendment may fall below what is already issued.
AnyQuantity(b, kg) == kg > 0

\* BACKING_BELOW_ISSUANCE
CoversIssuance(b, kg) == kg >= reserves[b].tokenizedKg

AttestReserve(b, kg, prov) ==
  /\ kg > 0
  /\ CoversIssuance(b, kg)
  /\ SameProvenance(b, prov)
  /\ Checked(AmendedTotal(b, kg))
  /\ totalVerifiedKg' = AmendedTotal(b, kg)
  /\ reserves' = [reserves EXCEPT ![b] =
                    [@ EXCEPT !.verifiedKg = kg, !.updated = TRUE,
                              !.active = TRUE, !.provenance = prov]]
  /\ UNCHANGED <<totalTokenizedKg, tokenVars>>

\* Variant: each mint is compared alone, not with what was consumed before.
MintWithinVerified(b, amount) == amount <= reserves[b].verifiedKg

\* INSUFFICIENT_BACKING
WithinVerified(b, amount) ==
  reserves[b].tokenizedKg + amount <= reserves[b].verifiedKg

\* consume(): the part of a mint that the registry executes.
Consume(b, amount) ==
  /\ reserves[b].active
  /\ amount > 0
  /\ WithinVerified(b, amount)
  /\ Checked(totalTokenizedKg + amount)
  /\ reserves' = [reserves EXCEPT ![b].tokenizedKg = @ + amount]
  /\ totalTokenizedKg' = totalTokenizedKg + amount
  /\ UNCHANGED totalVerifiedKg

\* Variant: a reserve with claims can be withdrawn.
Withdrawable(b) == TRUE

\* RESERVE_HAS_CLAIMS
NoClaims(b) == reserves[b].tokenizedKg = 0

DeactivateReserve(b) ==
  /\ reserves[b].active
  /\ NoClaims(b)
  /\ Checked(totalVerifiedKg - reserves[b].verifiedKg)
  /\ totalVerifiedKg' = totalVerifiedKg - reserves[b].verifiedKg
  /\ reserves' = [reserves EXCEPT ![b].active = FALSE]
  /\ UNCHANGED <<totalTokenizedKg, tokenVars>>

-----------------------------------------------------------------------------
(* CotToken                                                                *)

\* ERC-20 _mint; balances are not kept apart, only their total.
MintSupply(amount) ==
  /\ Checked(totalSupply + amount)
  /\ totalSupply' = totalSupply + amount

MintBatch(b, amount, w) ==
  /\ batchData[b].warehouseId = Zero
  /\ Consume(b, amount)
  /\ batchData' = [batchData EXCEPT ![b] = [warehouseId |-> w, amount |-> amount]]
  /\ allBatchIds' = Append(allBatchIds, b)
  /\ MintSupply(amount)
  /\ UNCHANGED replayVars

EventIdFor(tx, b, amount) == <<tx, b, amount>>

\* Variant: the event id alone guards against a replay.
NotReplayedEvent(tx, b, amount) == EventIdFor(tx, b, amount) \notin processedEvents

\* Variant: no replay guard.
AnyEvent(tx, b, amount) == TRUE

\* Both replay guards: the exact event, and the Fabric transaction under any
\* other batch or quantity.
NotReplayed(tx, b, amount) ==
  /\ EventIdFor(tx, b, amount) \notin processedEvents
  /\ processedFabricTransactions[tx] = Zero

\* A batch is listed when it is minted for the first time.
ListBatch(b) ==
  allBatchIds' = IF batchData[b].warehouseId = Zero
                   THEN Append(allBatchIds, b) ELSE allBatchIds

\* Variant: the batch's amount is overwritten by the mint's.
BookOverwrite(b, amount, w) ==
  batchData' = [batchData EXCEPT ![b] = [warehouseId |-> w, amount |-> amount]]

\* The token's own book of a batch after a verified mint.
BookMint(b, amount, w) ==
  /\ Checked(batchData[b].amount + amount)
  /\ batchData' = [batchData EXCEPT ![b] =
                     [warehouseId |-> w, amount |-> @.amount + amount]]

MintVerifiedBatch(tx, b, amount, w) ==
  /\ NotReplayed(tx, b, amount)
  /\ processedEvents' = processedEvents \cup {EventIdFor(tx, b, amount)}
  /\ processedFabricTransactions' =
       [processedFabricTransactions EXCEPT ![tx] = EventIdFor(tx, b, amount)]
  /\ Consume(b, amount)
  /\ MintSupply(amount)
  /\ ListBatch(b)
  /\ BookMint(b, amount, w)
  /\ totalSupply' <= totalVerifiedKg'

\* ERC20Burnable: holders destroy tokens of theirs.  The registry is not told.
Burn(amount) ==
  /\ amount \in 1 .. totalSupply
  /\ totalSupply' = totalSupply - amount
  /\ UNCHANGED <<registryVars, batchData, allBatchIds, replayVars>>

-----------------------------------------------------------------------------

ReserveInit ==
  /\ reserves = [b \in Batches |->
       [verifiedKg |-> 0, tokenizedKg |-> 0, updated |-> FALSE,
        active |-> FALSE, provenance |-> Zero]]
  /\ totalVerifiedKg = 0
  /\ totalTokenizedKg = 0
  /\ totalSupply = 0
  /\ batchData = [b \in Batches |-> [warehouseId |-> Zero, amount |-> 0]]
  /\ allBatchIds = <<>>
  /\ processedEvents = {}
  /\ processedFabricTransactions = [tx \in FabricTxs |-> Zero]

ReserveNext ==
  \/ \E b \in Batches, kg \in Uint, prov \in Provenances : AttestReserve(b, kg, prov)
  \/ \E b \in Batches : DeactivateReserve(b)
  \/ \E b \in Batches, amount \in Uint, w \in Warehouses : MintBatch(b, amount, w)
  \/ \E tx \in FabricTxs, b \in Batches, amount \in Uint, w \in Warehouses :
       MintVerifiedBatch(tx, b, amount, w)
  \/ \E amount \in Uint : Burn(amount)

ReserveSpec == ReserveInit /\ [][ReserveNext]_vars

-----------------------------------------------------------------------------
(* Properties                                                              *)

ReserveTypeOK ==
  /\ reserves \in [Batches -> Reserve]
  /\ totalVerifiedKg \in Uint
  /\ totalTokenizedKg \in Uint
  /\ totalSupply \in Uint
  /\ batchData \in [Batches -> BatchData]
  /\ allBatchIds \in Seq(Batches)
  /\ processedEvents \subseteq EventIds
  /\ processedFabricTransactions \in [FabricTxs -> EventIds \cup {Zero}]

\* COT in circulation never exceeds the claims issued, nor the claims the kg
\* attested: through amendments, deactivations, burns and both mint routes, of
\* which only one has the contract's own GLOBAL_BACKING_INVARIANT check.
GlobalBacking ==
  /\ totalSupply <= totalTokenizedKg
  /\ totalTokenizedKg <= totalVerifiedKg

\* No batch is over-issued, and one that carries claims stays active.
BatchBacking ==
  \A b \in Batches :
    /\ reserves[b].tokenizedKg <= reserves[b].verifiedKg
    /\ reserves[b].tokenizedKg > 0 => reserves[b].active

\* The running totals the registry keeps incrementally are the sums over its
\* batches, after any mix of amendment, deactivation and re-attestation.
TotalsExact ==
  /\ totalVerifiedKg = MapThenSumSet(Counted, Batches)
  /\ totalTokenizedKg =
       MapThenSumSet(LAMBDA b : reserves[b].tokenizedKg, Batches)

\* The token's book of a batch and the registry's agree, whichever mint route
\* was used and in whichever order.
BooksAgree == \A b \in Batches : batchData[b].amount = reserves[b].tokenizedKg

\* A Fabric transaction backs at most one event, and every processed event is
\* the one its Fabric transaction is recorded with.
ReplayProtection ==
  /\ \A e \in processedEvents : processedFabricTransactions[e[1]] = e
  /\ \A tx \in FabricTxs :
       processedFabricTransactions[tx] # Zero =>
         /\ processedFabricTransactions[tx] \in processedEvents
         /\ processedFabricTransactions[tx][1] = tx

\* Once a batch is attested, no later call changes its provenance, not even a
\* deactivation followed by a new attestation.
ProvenanceFixed ==
  [][\A b \in Batches :
       reserves[b].updated =>
         reserves'[b].provenance = reserves[b].provenance]_vars

\* Tokens appear only together with as many newly consumed kg.
NoUnbackedIssuance ==
  [][totalSupply' > totalSupply =>
       totalSupply' - totalSupply = totalTokenizedKg' - totalTokenizedKg]_vars

\* The contracts implement the abstract promise.
Backed == INSTANCE BackedClaims WITH capacity <- totalVerifiedKg,
            claims <- totalTokenizedKg, supply <- totalSupply

ImplementsBackedClaims == Backed!Spec
=============================================================================
