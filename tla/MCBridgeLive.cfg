\* Eventually: a request, a product, a crash and a lost or late acknowledgment.
CONSTANTS
  BatchIds = {b1}
  RequestIds = {r1}
  ProductIds = {p1}
  Farm = farm
  Warehouses = {w1}
  Certs = {c1}
  MaxKg = 1
  MaxUint = 2
  Users = {u1}
  Uris = {m1}
  MaxTokens = 1
  MemberUpdates <- OneReceipt
  BatchSize = 2
  MaxEvents = 4
  MaxSends = 4
  MaxNonce = 5
  MaxCrashes = 1
  MaxFailures = 1
  Null = Null
SPECIFICATION FairSpec
PROPERTIES CompletedOrNonceGap NFTSettledOrNonceGap
CHECK_DEADLOCK FALSE
