\* What the comment above recordRecycling says, against all member calls.
CONSTANTS
  Keys = {k1, k2}
  Farm = farm
  Warehouses = {w1, w2}
  MaxKg = 2
  Certs = {c1, c2}
  EthTxs = {e1, e2}
  NftIds = {n1, n2}
  MintTerms = {m1}
  MaxEvents = 3
  Null = Null
SYMMETRY Symmetry
SPECIFICATION Spec

PROPERTIES OnlyBridgeAcknowledgesRecycling
CHECK_DEADLOCK FALSE
