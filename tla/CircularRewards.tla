--------------------------- MODULE CircularRewards ---------------------------
(***************************************************************************)
(* CircularRewards pays COT it holds to owners of product NFTs for what    *)
(* they did with the product, and recycles the token itself when the       *)
(* action is "Recycle", for which it holds BRIDGE_ROLE on ProductNFT.      *)
(* "Variant" definitions are buggy forms of the definition that follows    *)
(* them and no part of the specification.                                  *)
(***************************************************************************)
EXTENDS ProductNFT

CONSTANTS
  Rewards,      \* the account of this contract
  Recycle,      \* the action type "Recycle"
  ActionTypes,  \* action types, "Recycle" among them
  MaxReward,    \* bound: rewards are 0 .. MaxReward
  MaxCot,       \* the COT there is
  MaxHistory    \* bounds rewardHistory and actionTypes

\* Accounts are addresses of 160 bits, so there are finitely many users.
ASSUME RewardsAssumption ==
  /\ IsFiniteSet(Users)
  /\ Rewards \in BridgeRole /\ Rewards \notin Users
  /\ Recycle \in ActionTypes
  /\ {MaxReward, MaxCot, MaxHistory} \subseteq Nat /\ MaxReward >= 1

VARIABLES
  rewardConfigs,  \* per action type: baseReward and active
  actionTypes,    \* the types ever added, in order
  rewardHistory,
  balances        \* of COT

rewardVars == <<rewardConfigs, actionTypes, rewardHistory, balances>>
allVars == <<nftVars, rewardVars>>

Accounts == Users \cup {Rewards}

\* COT of a set of accounts.
Held(accounts) == MapThenSumSet(LAMBDA a : balances[a], accounts)

\* Variant: the sender's balance is not looked at.
TransferUnchecked(from, to, amount) ==
  /\ from # to
  /\ balances' = [balances EXCEPT ![from] = @ - amount, ![to] = @ + amount]

\* ERC-20
Transfer(from, to, amount) ==
  /\ balances[from] >= amount
  /\ from # to
  /\ balances' = [balances EXCEPT ![from] = @ - amount, ![to] = @ + amount]

\* _addRewardConfig: a type is taken for absent when its reward is zero.
AddRewardConfig(type, baseReward) ==
  /\ rewardConfigs[type].baseReward = 0
  /\ Len(actionTypes) < MaxHistory
  /\ rewardConfigs' = [rewardConfigs EXCEPT ![type] =
                         [baseReward |-> baseReward, active |-> TRUE]]
  /\ actionTypes' = Append(actionTypes, type)
  /\ UNCHANGED <<rewardHistory, balances, nftVars>>

UpdateRewardConfig(type, baseReward, active) ==
  /\ rewardConfigs[type].baseReward > 0
  /\ rewardConfigs' = [rewardConfigs EXCEPT ![type] =
                         [baseReward |-> baseReward, active |-> active]]
  /\ UNCHANGED <<actionTypes, rewardHistory, balances, nftVars>>

\* Variant: a failed recycling is swallowed and the reward paid all the same.
RecordActionAnyway(type, id) ==
  IF type = Recycle /\ NotRecycled(id)
    THEN RecycleProduct(id, Rewards)
    ELSE UNCHANGED nftVars

\* "Recycle" recycles the token, and the whole call reverts if that fails.
RecordAction(type, id) ==
  IF type = Recycle THEN RecycleProduct(id, Rewards) ELSE UNCHANGED nftVars

\* Variant: the user is not required to own the token.
AnyHolder(user, id) == Minted(id)

OwnedBy(user, id) == Minted(id) /\ owner[id] = user

Pay(user, amount) == Transfer(Rewards, user, amount)

IssueReward(user, id, type) ==
  /\ rewardConfigs[type].baseReward > 0
  /\ rewardConfigs[type].active
  /\ OwnedBy(user, id)
  /\ RecordAction(type, id)
  /\ Len(rewardHistory) < MaxHistory
  /\ rewardHistory' = Append(rewardHistory,
       [user |-> user, tokenId |-> id, actionType |-> type,
        rewardAmount |-> rewardConfigs[type].baseReward])
  /\ Pay(user, rewardConfigs[type].baseReward)
  /\ UNCHANGED <<rewardConfigs, actionTypes>>

\* COT moves between its holders, which is how the contract is funded.
TransferCot(from, to, amount) ==
  /\ amount > 0
  /\ Transfer(from, to, amount)
  /\ UNCHANGED <<rewardConfigs, actionTypes, rewardHistory, nftVars>>

\* The constructor adds the default types; the COT is with some users.
RewardsInit ==
  /\ Init
  /\ rewardConfigs = [t \in ActionTypes |->
       [baseReward |-> IF t = Recycle THEN 1 ELSE 0, active |-> t = Recycle]]
  /\ actionTypes = <<Recycle>>
  /\ rewardHistory = <<>>
  /\ \E u \in Users : balances = [a \in Accounts |-> IF a = u THEN MaxCot ELSE 0]

\* ProductNFT used by everybody else; this contract only acts when called.
OthersOnNFT ==
  /\ \/ \E to \in Users, p \in ProductIds, t \in Terms : MintProduct(to, p, t)
     \/ \E id \in TokenIds, sender \in (Users \cup BridgeRole) \ {Rewards} :
          RecycleProduct(id, sender)
     \/ \E id \in TokenIds, to \in Users : TransferNFT(id, to)
  /\ UNCHANGED rewardVars

RewardsNext ==
  \/ \E t \in ActionTypes, r \in 0 .. MaxReward : AddRewardConfig(t, r)
  \/ \E t \in ActionTypes, r \in 0 .. MaxReward, a \in BOOLEAN : UpdateRewardConfig(t, r, a)
  \/ \E u \in Users, id \in TokenIds, t \in ActionTypes : IssueReward(u, id, t)
  \/ \E u \in Users, a \in Accounts, n \in 1 .. MaxCot : TransferCot(u, a, n)
  \/ OthersOnNFT

RewardsSpec == RewardsInit /\ [][RewardsNext]_allVars

-----------------------------------------------------------------------------
(* Properties                                                              *)

RewardsTypeOK ==
  /\ TypeOK
  /\ rewardConfigs \in [ActionTypes -> [baseReward : 0 .. MaxReward, active : BOOLEAN]]
  /\ actionTypes \in Seq(ActionTypes)
  /\ rewardHistory \in Seq([user : Users, tokenId : TokenIds, actionType : ActionTypes,
                            rewardAmount : 1 .. MaxReward])
  /\ balances \in [Accounts -> 0 .. MaxCot]

\* The rewards paid for recycling a token, and its recyclings by this contract.
PaidFor(id) == {i \in DOMAIN rewardHistory :
  rewardHistory[i].tokenId = id /\ rewardHistory[i].actionType = Recycle}

RecycledHere(id) == {i \in DOMAIN recycledLog :
  recycledLog[i].tokenId = id /\ recycledLog[i].recycler = Rewards}

\* Recycling is paid at most once per product, and only for a recycling this
\* contract made: not for one the owner or the bridge had made before.
RecyclingPaidOnce ==
  \A id \in TokenIds :
    Cardinality(PaidFor(id)) = Cardinality(RecycledHere(id))

\* "Rewards redistribute funded claims; they never create": there is as much COT
\* as ever, and it leaves the contract only as a reward that is recorded in full,
\* to the account that owns the product before and after the call.
PaysOwner ==
  balances'[Rewards] < balances[Rewards] =>
    /\ Front(rewardHistory') = rewardHistory
    /\ LET r == Last(rewardHistory')
       IN  /\ balances[Rewards] - balances'[Rewards] = r.rewardAmount
           /\ balances'[r.user] - balances[r.user] = r.rewardAmount
           /\ Minted(r.tokenId) /\ owner[r.tokenId] = r.user /\ owner' = owner

PaidToOwner == [][Held(Accounts)' = MaxCot /\ PaysOwner]_allVars
=============================================================================
