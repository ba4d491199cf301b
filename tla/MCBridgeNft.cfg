\* NFTs: two products made of one batch, no requests.
CONSTANTS
  BatchIds = {b1}
  RequestIds = {}
  ProductIds = {p1, p2}
  Farm = farm
  Warehouses = {}
  Certs = {}
  MaxKg = 1
  MaxUint = 2
  Users = {u1}
  Uris = {m1}
  MaxTokens = 2
  MemberUpdates <- AnyReceipt
  BatchSize = 2
  MaxEvents = 2
  MaxSends = 3
  MaxNonce = 4
  MaxCrashes = 1
  MaxFailures = 1
  Null = Null
SYMMETRY Symmetry
SPECIFICATION Spec
INVARIANTS TypeOK ProductsMatchTokens NoActionLost AcknowledgmentsAccepted
PROPERTY ImplementsNFTPromise
CHECK_DEADLOCK FALSE
