------------------------ MODULE CircularRewardsProofs ------------------------
(***************************************************************************)
(* Proofs about CircularRewards for every set of products, accounts and    *)
(* action types and every amount of COT.  The contract takes part in the   *)
(* product token as one more caller, so what is proved of the token holds; *)
(* the balances always add up to the COT there is; and a token's rewards   *)
(* for recycling are counted against the token's own log.  The lemmas      *)
(* about sums are those of CotReserveProofs.                               *)
(***************************************************************************)
EXTENDS CircularRewards, ProductNFTProofs, CotReserveProofs

\* The inductive form of RecyclingPaidOnce.
RecyclingsPaid ==
  \A id \in TokenIds :
    \/ RecycledHere(id) = {} /\ PaidFor(id) = {}
    \/ \E i \in DOMAIN recycledLog, j \in DOMAIN rewardHistory :
         RecycledHere(id) = {i} /\ PaidFor(id) = {j}

\* The inductive invariant; without the sum of the balances a transfer could
\* not be shown to keep them within MaxCot.
RewardsInv ==
  /\ TokensInv
  /\ RewardsTypeOK
  /\ SumIs(balances, Accounts, MaxCot)
  /\ RecyclingsPaid

-----------------------------------------------------------------------------
(* The parts of an action                                                  *)

\* A transfer moves COT and makes none.
LEMMA TransferMoves ==
  ASSUME balances \in [Accounts -> 0 .. MaxCot], SumIs(balances, Accounts, MaxCot),
         NEW from \in Accounts, NEW to \in Accounts, NEW n \in Nat,
         Transfer(from, to, n)
  PROVE  /\ balances' \in [Accounts -> 0 .. MaxCot]
         /\ SumIs(balances', Accounts, MaxCot)
         /\ balances'[from] = balances[from] - n
         /\ balances'[to] = balances[to] + n
         /\ \A a \in Accounts \ {from, to} : balances'[a] = balances[a]
<1> USE RewardsAssumption
<1> PICK mid : mid = [balances EXCEPT ![from] = @ - n]
  OBVIOUS
<1> PICK after : after = balances'
  OBVIOUS
<1>1. /\ from # to /\ n <= balances[from] /\ MaxCot \in Nat
      /\ balances' = [balances EXCEPT ![from] = @ - n, ![to] = @ + n]
  BY DEF Transfer
<1>2. /\ \A a \in Accounts : balances[a] \in 0 .. MaxCot /\ balances[a] \in Nat
      /\ mid[from] = balances[from] - n
      /\ \A a \in Accounts \ {from} : mid[a] = balances[a]
  BY <1>1
<1>3. mid[from] \in Nat /\ \A a \in Accounts : mid[a] \in Nat
  BY <1>1, <1>2
<1>4. SumIs(mid, Accounts, MaxCot - balances[from] + mid[from])
      /\ MaxCot - balances[from] + mid[from] \in Nat
  BY <1>1, <1>2, <1>3, SumUpdate
<1>5. /\ after[from] = balances[from] - n
      /\ after[to] = balances[to] + n /\ after[to] = mid[to] + n /\ after[to] \in Nat
      /\ \A a \in Accounts \ {from, to} : after[a] = balances[a]
      /\ \A a \in Accounts \ {to} : after[a] = mid[a]
      /\ after = [a \in Accounts |-> after[a]]
  <2>1. /\ after = [balances EXCEPT ![from] = @ - n, ![to] = @ + n]
        /\ after = [a \in Accounts |-> after[a]]
    BY <1>1
  <2>2. /\ after[from] = balances[from] - n /\ after[to] = balances[to] + n
        /\ \A a \in Accounts \ {from, to} : after[a] = balances[a]
    BY <1>1, <2>1
  <2>3. mid[to] = balances[to] /\ balances[to] \in Nat /\ after[to] \in Nat
    BY <1>1, <1>2, <2>2
  <2>4. QED BY <1>2, <2>1, <2>2, <2>3
<1>6. PICK s \in Nat : s = MaxCot - balances[from] + mid[from]
  BY <1>4
<1>7. SumIs(after, Accounts, s - mid[to] + after[to])
  BY <1>3, <1>4, <1>5, <1>6, SumUpdate
<1>8. s - mid[to] + after[to] = MaxCot
  <2>1. /\ mid[to] \in Nat /\ balances[from] \in Nat
        /\ s = MaxCot - balances[from] + (balances[from] - n)
        /\ after[to] = mid[to] + n
    BY <1>2, <1>3, <1>5, <1>6
  <2>2. QED BY <1>1, <2>1, SMT
<1>9. \A a \in Accounts : after[a] \in Nat
  BY <1>3, <1>5
<1>10. \A a \in Accounts : after[a] \in 0 .. MaxCot
  <2> SUFFICES ASSUME NEW a \in Accounts PROVE after[a] \in 0 .. MaxCot
    OBVIOUS
  <2>1. SumIs(after, Accounts, MaxCot) /\ after[a] \in Nat
    BY <1>7, <1>8, <1>9
  <2>2. after[a] <= MaxCot
    BY <1>1, <2>1, SumBoundsValue
  <2>3. QED BY <1>1, <2>1, <2>2, SMT
<1>11. QED BY <1>5, <1>7, <1>8, <1>10

\* The whole supply is what all accounts hold.
LEMMA HeldIsAll ==
  ASSUME balances \in [Accounts -> 0 .. MaxCot], SumIs(balances, Accounts, MaxCot)
  PROVE  Held(Accounts) = MaxCot
<1> USE RewardsAssumption
<1>1. IsFiniteSet(Accounts)
  BY FS_AddElement DEF Accounts
<1>2. \A a \in Accounts : balances[a] \in Nat
  OBVIOUS
<1>3. Held(Accounts) = (CHOOSE g : FoldTable(g, balances, Accounts))[Accounts]
  BY DEF Held, MapThenSumSet, MapThenFoldSet, FoldTable, Taken
<1>4. QED BY <1>1, <1>2, <1>3, FoldTableIsSum

\* The entry of a paid reward is the last of the history and changes no other.
LEMMA HistoryGrows ==
  ASSUME NEW S, rewardHistory \in Seq(S), NEW e \in S,
         rewardHistory' = Append(rewardHistory, e)
  PROVE  /\ rewardHistory' \in Seq(S)
         /\ Front(rewardHistory') = rewardHistory
         /\ Last(rewardHistory') = e
         /\ DOMAIN rewardHistory' = DOMAIN rewardHistory \cup {Len(rewardHistory')}
         /\ Len(rewardHistory') \notin DOMAIN rewardHistory
         /\ rewardHistory'[Len(rewardHistory')] = e
         /\ \A i \in DOMAIN rewardHistory : rewardHistory'[i] = rewardHistory[i]
<1>1. /\ rewardHistory' \in Seq(S)
      /\ Len(rewardHistory') = Len(rewardHistory) + 1
      /\ \A i \in 1 .. Len(rewardHistory) : rewardHistory'[i] = rewardHistory[i]
      /\ rewardHistory'[Len(rewardHistory) + 1] = e
  BY AppendProperties
<1>2. /\ DOMAIN rewardHistory = 1 .. Len(rewardHistory)
      /\ DOMAIN rewardHistory' = 1 .. Len(rewardHistory')
      /\ Len(rewardHistory) \in Nat
  BY <1>1, LenProperties
<1>3. Last(rewardHistory') = e
  BY <1>1 DEF Last
<1>4. Front(rewardHistory') = rewardHistory
  <2>1. Len(rewardHistory') - 1 = Len(rewardHistory)
    BY <1>1, <1>2, SMT
  <2>2. Front(rewardHistory') = [i \in 1 .. Len(rewardHistory) |-> rewardHistory'[i]]
    BY <1>1, <1>2, <2>1, SubSeqProperties DEF Front
  <2>3. rewardHistory = [i \in 1 .. Len(rewardHistory) |-> rewardHistory[i]]
    BY <1>2
  <2>4. QED BY <1>1, <2>2, <2>3
<1>5. QED BY <1>1, <1>2, <1>3, <1>4

-----------------------------------------------------------------------------
(* The token                                                               *)

\* Whatever the contract does to the product token is one of the token's own
\* transactions, sent by an account with BRIDGE_ROLE.
LEMMA TokenStep == RewardsNext => [Next]_nftVars
<1> SUFFICES ASSUME RewardsNext PROVE [Next]_nftVars
  OBVIOUS
<1>1. ASSUME NEW u \in Users, NEW id \in TokenIds, NEW t \in ActionTypes,
             IssueReward(u, id, t)
      PROVE  [Next]_nftVars
  BY <1>1, RewardsAssumption DEF IssueReward, RecordAction, Next
<1>2. CASE OthersOnNFT
  BY <1>2 DEF OthersOnNFT, Next
<1>3. QED
  BY <1>1, <1>2 DEF RewardsNext, AddRewardConfig, UpdateRewardConfig, TransferCot

\* The contract and its users implement the product token.
THEOREM RewardsImplementNFT == RewardsSpec => Spec
<1>1. RewardsInit => Init
  BY DEF RewardsInit
<1>2. [RewardsNext]_allVars => [Next]_nftVars
  BY TokenStep DEF allVars
<1>3. QED BY <1>1, <1>2, PTL DEF RewardsSpec, Spec

\* What the bridge needs of the token's logs also holds while the contract
\* recycles tokens of its own accord.
THEOREM TokensFaithfulWithRewards == RewardsSpec => []TokensFaithful
BY RewardsImplementNFT, TokensAreFaithful, PTL

-----------------------------------------------------------------------------
(* The invariant                                                           *)

LEMMA InitRewards == RewardsInit => RewardsInv
<1> SUFFICES ASSUME RewardsInit PROVE RewardsInv
  OBVIOUS
<1> USE RewardsAssumption
<1>1. TokensInv
  BY InitTokens DEF RewardsInit
<1> PICK u \in Users : balances = [a \in Accounts |-> IF a = u THEN MaxCot ELSE 0]
  BY DEF RewardsInit
<1>2. SumIs(balances, Accounts, MaxCot)
  <2> DEFINE zero == [a \in Accounts |-> 0]
  <2>1. /\ u \in Accounts /\ balances[u] = MaxCot /\ zero[u] = 0 /\ 0 \in Nat
        /\ \A a \in Accounts : zero[a] = 0 /\ zero[a] \in Nat
        /\ \A a \in Accounts \ {u} : balances[a] = zero[a]
    BY DEF Accounts
  <2> HIDE DEF zero
  <2>2. SumIs(zero, Accounts, 0)
    BY <2>1, SumOfZeros
  <2>3. SumIs(balances, Accounts, 0 - zero[u] + balances[u])
    BY <2>1, <2>2, SumUpdate
  <2>4. 0 - zero[u] + balances[u] = MaxCot
    BY <2>1, SMT
  <2>5. QED BY <2>3, <2>4
<1>3. RewardsTypeOK
  <2>1. /\ actionTypes \in Seq(ActionTypes)
        /\ rewardHistory = <<>>
    BY DEF RewardsInit
  <2>2. rewardConfigs \in [ActionTypes -> [baseReward : 0 .. MaxReward, active : BOOLEAN]]
    BY DEF RewardsInit
  <2>3. QED BY <1>1, <2>1, <2>2 DEF RewardsTypeOK, TokensInv
<1>4. RecyclingsPaid
  BY DEF RewardsInit, Init, RecyclingsPaid, RecycledHere, PaidFor
<1>5. QED BY <1>1, <1>2, <1>3, <1>4 DEF RewardsInv

\* Recording the action of a reward: a recycling enters the token's log as the
\* first of this contract, any other action leaves the log as it is.
LEMMA RecordingCounts ==
  ASSUME TokensInv, NEW type \in ActionTypes, NEW id \in TokenIds,
         RecordAction(type, id)
  PROVE  /\ owner' = owner
         /\ \A other \in TokenIds \ {id} : RecycledHere(other)' = RecycledHere(other)
         /\ \A i \in DOMAIN recycledLog : i \in DOMAIN recycledLog'
         /\ type # Recycle => RecycledHere(id)' = RecycledHere(id)
         /\ type = Recycle => /\ RecycledHere(id) = {}
                              /\ \E i \in DOMAIN recycledLog' : RecycledHere(id)' = {i}
<1> USE RewardsAssumption
<1>1. CASE type # Recycle
  BY <1>1 DEF RecordAction, nftVars, RecycledHere
<1>2. CASE type = Recycle
  <2> DEFINE entry == [tokenId |-> id, recycler |-> Rewards]
  <2>1. RecycleProduct(id, Rewards)
    BY <1>2 DEF RecordAction
  <2>2. /\ recycledLog' = Append(recycledLog, entry)
        /\ recycledLog \in Seq([tokenId : TokenIds, recycler : Users \cup BridgeRole])
        /\ entry \in [tokenId : TokenIds, recycler : Users \cup BridgeRole]
        /\ entry.tokenId = id /\ entry.recycler = Rewards
        /\ owner' = owner
    BY <2>1 DEF RecycleProduct, TokensInv, TypeOK
  <2> HIDE DEF entry
  <2>3. RecycledHere(id) = {}
    BY <2>1, RecycleKeepsTokens DEF RecyclingsOf, RecycledHere
  <2>4. /\ DOMAIN recycledLog' = DOMAIN recycledLog \cup {Len(recycledLog')}
        /\ Len(recycledLog') \notin DOMAIN recycledLog
        /\ recycledLog'[Len(recycledLog')] = entry
        /\ \A i \in DOMAIN recycledLog : recycledLog'[i] = recycledLog[i]
    BY <2>2, RecyclingAppended
  <2>5. RecycledHere(id)' = {Len(recycledLog')}
    BY <2>2, <2>3, <2>4 DEF RecycledHere
  <2>6. QED BY <1>2, <2>2, <2>3, <2>4, <2>5 DEF RecycledHere
<1>3. QED BY <1>1, <1>2

LEMMA IssueKeepsInv ==
  ASSUME RewardsInv, TokensInv', NEW u \in Users, NEW id \in TokenIds,
         NEW type \in ActionTypes, IssueReward(u, id, type)
  PROVE  RewardsInv'
<1> USE RewardsAssumption
<1> DEFINE amount == rewardConfigs[type].baseReward
           entry == [user |-> u, tokenId |-> id, actionType |-> type, rewardAmount |-> amount]
           Entries == [user : Users, tokenId : TokenIds, actionType : ActionTypes,
                       rewardAmount : 1 .. MaxReward]
<1>1. /\ amount \in 1 .. MaxReward /\ amount \in Nat
      /\ Rewards \in Accounts /\ u \in Accounts
  BY DEF IssueReward, RewardsInv, RewardsTypeOK, Accounts
<1>2. /\ rewardHistory' = Append(rewardHistory, entry)
      /\ Transfer(Rewards, u, amount)
      /\ RecordAction(type, id)
      /\ UNCHANGED <<rewardConfigs, actionTypes>>
  BY DEF IssueReward, Pay
<1> HIDE DEF amount
<1>3. /\ entry \in Entries /\ entry.tokenId = id /\ entry.actionType = type
      /\ rewardHistory \in Seq(Entries)
  BY <1>1 DEF RewardsInv, RewardsTypeOK
<1> HIDE DEF entry
<1>4. /\ balances' \in [Accounts -> 0 .. MaxCot]
      /\ SumIs(balances', Accounts, MaxCot)
  BY <1>1, <1>2, TransferMoves DEF RewardsInv, RewardsTypeOK
<1>5. /\ rewardHistory' \in Seq(Entries)
      /\ DOMAIN rewardHistory' = DOMAIN rewardHistory \cup {Len(rewardHistory')}
      /\ Len(rewardHistory') \notin DOMAIN rewardHistory
      /\ rewardHistory'[Len(rewardHistory')] = entry
      /\ \A i \in DOMAIN rewardHistory : rewardHistory'[i] = rewardHistory[i]
  BY <1>2, <1>3, HistoryGrows
<1>6. RewardsTypeOK'
  BY <1>2, <1>4, <1>5 DEF RewardsInv, RewardsTypeOK, TokensInv
<1>7. /\ \A other \in TokenIds \ {id} : PaidFor(other)' = PaidFor(other)
      /\ type # Recycle => PaidFor(id)' = PaidFor(id)
      /\ type = Recycle /\ PaidFor(id) = {} => PaidFor(id)' = {Len(rewardHistory')}
      /\ Len(rewardHistory') \in DOMAIN rewardHistory'
  BY <1>3, <1>5 DEF PaidFor
<1>8. /\ \A other \in TokenIds \ {id} : RecycledHere(other)' = RecycledHere(other)
      /\ \A i \in DOMAIN recycledLog : i \in DOMAIN recycledLog'
      /\ type # Recycle => RecycledHere(id)' = RecycledHere(id)
      /\ type = Recycle => /\ RecycledHere(id) = {}
                           /\ \E i \in DOMAIN recycledLog' : RecycledHere(id)' = {i}
  BY <1>2, RecordingCounts DEF RewardsInv
<1>9. RecyclingsPaid'
  <2>1. \A i \in DOMAIN rewardHistory : i \in DOMAIN rewardHistory'
    BY <1>5
  <2>2. ASSUME NEW other \in TokenIds,
               RecycledHere(other)' = RecycledHere(other), PaidFor(other)' = PaidFor(other)
        PROVE  \/ RecycledHere(other)' = {} /\ PaidFor(other)' = {}
               \/ \E i \in DOMAIN recycledLog', j \in DOMAIN rewardHistory' :
                    RecycledHere(other)' = {i} /\ PaidFor(other)' = {j}
    BY <1>8, <2>1, <2>2 DEF RewardsInv, RecyclingsPaid
  <2>3. CASE type # Recycle
    BY <1>7, <1>8, <2>2, <2>3 DEF RecyclingsPaid
  <2>4. CASE type = Recycle
    <3>1. RecycledHere(id) = {} /\ PaidFor(id) = {}
      BY <1>8, <2>4 DEF RewardsInv, RecyclingsPaid
    <3>2. QED BY <1>7, <1>8, <2>2, <2>4, <3>1 DEF RecyclingsPaid
  <2>5. QED BY <2>3, <2>4
<1>10. QED BY <1>4, <1>6, <1>9 DEF RewardsInv

LEMMA NextRewards == RewardsInv /\ [RewardsNext]_allVars => RewardsInv'
<1> SUFFICES ASSUME RewardsInv, [RewardsNext]_allVars PROVE RewardsInv'
  OBVIOUS
<1> USE RewardsAssumption
<1>1. TokensInv'
  <2>1. [Next]_nftVars
    BY TokenStep DEF allVars
  <2>2. QED BY <2>1, NextKeepsTokens DEF RewardsInv
<1>2. ASSUME NEW t \in ActionTypes, NEW r \in 0 .. MaxReward,
             AddRewardConfig(t, r) \/ \E a \in BOOLEAN : UpdateRewardConfig(t, r, a)
      PROVE  RewardsInv'
  <2> DEFINE Configs == [baseReward : 0 .. MaxReward, active : BOOLEAN]
  <2>0. rewardConfigs \in [ActionTypes -> Configs] /\ actionTypes \in Seq(ActionTypes)
    BY DEF RewardsInv, RewardsTypeOK
  <2>1. /\ \E c \in Configs : rewardConfigs' = [rewardConfigs EXCEPT ![t] = c]
        /\ actionTypes' = actionTypes \/ actionTypes' = Append(actionTypes, t)
        /\ UNCHANGED <<rewardHistory, balances, nftVars>>
    BY <1>2 DEF AddRewardConfig, UpdateRewardConfig
  <2>2. rewardConfigs' \in [ActionTypes -> Configs] /\ actionTypes' \in Seq(ActionTypes)
    <3> HIDE DEF Configs
    <3>1. QED BY <2>0, <2>1, AppendProperties
  <2>3. RewardsTypeOK'
    BY <1>1, <2>1, <2>2 DEF RewardsInv, RewardsTypeOK, TokensInv
  <2>4. QED
    BY <1>1, <2>1, <2>3
    DEF RewardsInv, RecyclingsPaid, RecycledHere, PaidFor, nftVars
<1>3. ASSUME NEW u \in Users, NEW id \in TokenIds, NEW t \in ActionTypes,
             IssueReward(u, id, t)
      PROVE  RewardsInv'
  BY <1>1, <1>3, IssueKeepsInv
<1>4. ASSUME NEW u \in Users, NEW a \in Accounts, NEW n \in 1 .. MaxCot, TransferCot(u, a, n)
      PROVE  RewardsInv'
  <2>1. /\ Transfer(u, a, n) /\ n \in Nat /\ u \in Accounts
        /\ UNCHANGED <<rewardConfigs, actionTypes, rewardHistory, nftVars>>
    BY <1>4 DEF TransferCot, Accounts
  <2>2. balances' \in [Accounts -> 0 .. MaxCot] /\ SumIs(balances', Accounts, MaxCot)
    BY <2>1, TransferMoves DEF RewardsInv, RewardsTypeOK
  <2>3. RewardsTypeOK'
    BY <1>1, <2>1, <2>2 DEF RewardsInv, RewardsTypeOK, TokensInv
  <2>4. QED
    BY <1>1, <2>1, <2>2, <2>3
    DEF RewardsInv, RecyclingsPaid, RecycledHere, PaidFor, nftVars
<1>5. CASE OthersOnNFT
  <2>1. UNCHANGED rewardVars
    BY <1>5 DEF OthersOnNFT
  <2>2. \A id \in TokenIds : RecycledHere(id)' = RecycledHere(id)
    <3>1. CASE UNCHANGED recycledLog
      BY <3>1 DEF RecycledHere
    <3>2. ASSUME NEW id \in TokenIds, NEW sender \in (Users \cup BridgeRole) \ {Rewards},
                 RecycleProduct(id, sender)
          PROVE  \A other \in TokenIds : RecycledHere(other)' = RecycledHere(other)
      <4> DEFINE entry == [tokenId |-> id, recycler |-> sender]
      <4>1. /\ recycledLog' = Append(recycledLog, entry)
            /\ recycledLog \in Seq([tokenId : TokenIds, recycler : Users \cup BridgeRole])
            /\ entry \in [tokenId : TokenIds, recycler : Users \cup BridgeRole]
            /\ entry.recycler # Rewards
        BY <3>2 DEF RecycleProduct, RewardsInv, TokensInv, TypeOK
      <4> HIDE DEF entry
      <4>2. QED BY <4>1, RecyclingAppended DEF RecycledHere
    <3>3. QED BY <1>5, <3>1, <3>2 DEF OthersOnNFT, MintProduct, TransferNFT
  <2>3. \A i \in DOMAIN recycledLog : i \in DOMAIN recycledLog'
    <3>1. CASE UNCHANGED recycledLog
      BY <3>1
    <3>2. ASSUME NEW id \in TokenIds, NEW sender \in Users \cup BridgeRole,
                 RecycleProduct(id, sender)
          PROVE  \A i \in DOMAIN recycledLog : i \in DOMAIN recycledLog'
      BY <3>2, RecyclingAppended DEF RecycleProduct, RewardsInv, TokensInv, TypeOK
    <3>3. QED BY <1>5, <3>1, <3>2 DEF OthersOnNFT, MintProduct, TransferNFT
  <2>4. \A id \in TokenIds : PaidFor(id)' = PaidFor(id)
    BY <2>1 DEF rewardVars, PaidFor
  <2>5. RecyclingsPaid'
    BY <2>1, <2>2, <2>3, <2>4 DEF rewardVars, RewardsInv, RecyclingsPaid
  <2>6. QED BY <1>1, <2>1, <2>5 DEF rewardVars, RewardsInv, RewardsTypeOK, TokensInv
<1>6. CASE UNCHANGED allVars
  <2>1. RewardsTypeOK'
    BY <1>1, <1>6 DEF allVars, rewardVars, RewardsInv, RewardsTypeOK, TokensInv
  <2>2. QED
    BY <1>1, <1>6, <2>1
    DEF allVars, rewardVars, nftVars, RewardsInv, RecyclingsPaid, RecycledHere, PaidFor
<1>7. QED BY <1>2, <1>3, <1>4, <1>5, <1>6 DEF RewardsNext

LEMMA RewardsInvariant == RewardsSpec => []RewardsInv
BY InitRewards, NextRewards, PTL DEF RewardsSpec

-----------------------------------------------------------------------------
(* The theorems                                                            *)

THEOREM RewardsTypeCorrect == RewardsSpec => []RewardsTypeOK
<1>1. RewardsInv => RewardsTypeOK
  BY DEF RewardsInv
<1>2. QED BY <1>1, RewardsInvariant, PTL

\* A product's recycling is rewarded once, and only if this contract made it.
THEOREM RecyclingsPaidOnce == RewardsSpec => []RecyclingPaidOnce
<1>1. RewardsInv => RecyclingPaidOnce
  <2> SUFFICES ASSUME RewardsInv PROVE RecyclingPaidOnce
    OBVIOUS
  <2>1. \A i : Cardinality({i}) = 1
    BY FS_Singleton
  <2>2. QED BY <2>1 DEF RewardsInv, RecyclingsPaid, RecyclingPaidOnce
<1>2. QED BY <1>1, RewardsInvariant, PTL

\* COT is neither made nor lost, and it leaves the contract only as a recorded
\* reward to the owner of the product, who stays its owner.
THEOREM RewardsPaidToOwner == RewardsSpec => PaidToOwner
<1>1. RewardsInv' => Held(Accounts)' = MaxCot
  <2>1. RewardsInv => Held(Accounts) = MaxCot
    BY HeldIsAll DEF RewardsInv, RewardsTypeOK
  <2>2. RewardsInv' => (Held(Accounts) = MaxCot)'
    BY <2>1, PTL
  <2>3. QED BY <2>2
<1>2. RewardsInv /\ RewardsNext => PaysOwner
  <2> SUFFICES ASSUME RewardsInv, RewardsNext PROVE PaysOwner
    OBVIOUS
  <2> USE RewardsAssumption
  <2>1. Rewards \in Accounts /\ balances[Rewards] \in Nat
        /\ ~(balances[Rewards] < balances[Rewards])
    BY DEF Accounts, RewardsInv, RewardsTypeOK
  <2>2. CASE UNCHANGED balances
    BY <2>1, <2>2 DEF PaysOwner
  <2>3. ASSUME NEW u \in Users, NEW a \in Accounts, NEW n \in 1 .. MaxCot,
               TransferCot(u, a, n)
        PROVE  PaysOwner
    <3>1. balances'[Rewards] = balances[Rewards] \/ balances'[Rewards] = balances[Rewards] + n
      BY <2>1, <2>3, TransferMoves DEF TransferCot, RewardsInv, RewardsTypeOK, Accounts
    <3>2. ~(balances'[Rewards] < balances[Rewards])
      BY <2>1, <3>1, SMT
    <3>3. QED BY <3>2 DEF PaysOwner
  <2>4. ASSUME NEW u \in Users, NEW id \in TokenIds, NEW t \in ActionTypes,
               IssueReward(u, id, t)
        PROVE  PaysOwner
    <3> DEFINE amount == rewardConfigs[t].baseReward
               entry == [user |-> u, tokenId |-> id, actionType |-> t, rewardAmount |-> amount]
               Entries == [user : Users, tokenId : TokenIds, actionType : ActionTypes,
                           rewardAmount : 1 .. MaxReward]
    <3>1. /\ amount \in 1 .. MaxReward /\ amount \in Nat
          /\ rewardHistory' = Append(rewardHistory, entry)
          /\ Transfer(Rewards, u, amount)
          /\ Minted(id) /\ owner[id] = u /\ RecordAction(t, id)
      BY <2>4 DEF IssueReward, Pay, OwnedBy, RewardsInv, RewardsTypeOK
    <3> HIDE DEF amount
    <3>2. /\ entry \in Entries /\ entry.user = u /\ entry.tokenId = id
          /\ entry.rewardAmount = amount /\ rewardHistory \in Seq(Entries)
      BY <3>1 DEF RewardsInv, RewardsTypeOK
    <3> HIDE DEF entry
    <3>3. Front(rewardHistory') = rewardHistory /\ Last(rewardHistory') = entry
      BY <3>1, <3>2, HistoryGrows
    <3>4. /\ balances'[Rewards] = balances[Rewards] - amount
          /\ balances'[u] = balances[u] + amount
          /\ balances[u] \in Nat
      BY <2>1, <3>1, TransferMoves DEF RewardsInv, RewardsTypeOK, Accounts
    <3>5. /\ balances[Rewards] - balances'[Rewards] = amount
          /\ balances'[u] - balances[u] = amount
      BY <2>1, <3>1, <3>4, SMT
    <3>6. owner' = owner
      BY <3>1, RecordingCounts DEF RewardsInv
    <3>7. QED BY <3>1, <3>2, <3>3, <3>5, <3>6 DEF PaysOwner
  <2>5. QED
    BY <2>2, <2>3, <2>4
    DEF RewardsNext, AddRewardConfig, UpdateRewardConfig, OthersOnNFT, rewardVars
<1>3. QED BY <1>1, <1>2, RewardsInvariant, NextRewards, PTL DEF RewardsSpec, PaidToOwner
=============================================================================
