\* COT: two batches of 2 kg, two requests for some or all of it, two crashes.
CONSTANTS
  BatchIds = {b1, b2}
  RequestIds = {r1, r2}
  ProductIds = {}
  Farm = farm
  Warehouses = {w1}
  Certs = {c1}
  MaxKg = 2
  MaxUint = 4
  Users = {u1}
  Uris = {m1}
  MaxTokens = 0
  MemberUpdates <- FinishOnly
  BatchSize = 2
  MaxEvents = 4
  MaxSends = 5
  MaxNonce = 6
  MaxCrashes = 2
  MaxFailures = 0
  Null = Null
CONSTRAINT LargeBatches
SYMMETRY Symmetry
SPECIFICATION Spec
INVARIANTS MintedOnce BackedByVerifiedCotton
PROPERTY ImplementsTokenizationPromise
CHECK_DEADLOCK FALSE
