\* One request, and no crash is needed.
CONSTANTS
  BatchIds = {b1}
  RequestIds = {r1}
  ProductIds = {}
  Farm = farm
  Warehouses = {w1}
  Certs = {c1}
  MaxKg = 1
  MaxUint = 2
  Users = {u1}
  Uris = {m1}
  MaxTokens = 0
  MemberUpdates <- FinishOnly
  BatchSize = 2
  MaxEvents = 4
  MaxSends = 4
  MaxNonce = 5
  MaxCrashes = 0
  MaxFailures = 0
  Null = Null
SPECIFICATION FairSpec
PROPERTY QueuedActionsRetry
CHECK_DEADLOCK FALSE
