CONSTANTS
  ProductIds = {p1, p2}
  Terms = {t1}
  Users = {u1, u2}
  BridgeRole = {bridge, rewards}
  MaxTokens = 2
  Null = Null
  Rewards = rewards
  Recycle = recycle
  ActionTypes = {recycle, repair}
  MaxReward = 1
  MaxCot = 2
  MaxHistory = 2
SYMMETRY Symmetry
SPECIFICATION RewardsSpec
INVARIANTS RewardsTypeOK TokensFaithful RecyclingPaidOnce
PROPERTY PaidToOwner
CHECK_DEADLOCK FALSE
