\* The services' small instances; two callers, and a limit of 2 failures (5 in the code).
CONSTANTS
  Null = Null
  Callers = {r1, r2}
  LockAfter = 2
  MaxIssued = 2
  MaxAttempts = 2
  Messages = {r1, r2}
  Malformed = {r2}
  MaxFaults = 1
  Clients = {1, 2}
  Channels <- Receivers
  MaxHistory = 2
  MaxSent = 3
  CacheTimes = {1, 2}
  ReadTime = 1
  MaxReads = 2
  MaxClock = 3
  CachedRequests = {r1, r2}
  ResponseTTL = 1
  SlowStore = 1
  MaxSeconds = 3
  RestRequests = {r1}
  Admins = {r1}
  Keys = {k1, k2}
  Farm = farm
  Warehouse = warehouse
  Cert = certificate
  MintTerm = terms
  MaxEvents = 2
  Pages = {r1, r2, d1}
  Mobiles = {k1, k2}
  MaxLoads = 6
  Devices = {d1, d2}
  MonitoredProducts = {p1}
  Readings <- SomeReadings
  Timestamps = {1}
  MaxReadings = 2
  MaxMs = 1
  Bps = 20
  FeeBps = 1
  MaxExposureBps = 7
  MaxSingleTradeBps = 2
  MaxSlippageBps = 2
  MaxOracleAge = 2
  MinLiquidityUsd = 40
  PriceUnit = 1
  Prices = {0, 17, 18, 19, 20, 21}
  Books <- ManyBooks
  Amounts = {1, 2, 3}
  Wait = 1
  MaxTime = 4
  MaxMoves = 1
SPECIFICATION ServicesSpec
INVARIANTS ServicesTypeOK SessionsKept LockCountsFailures MessagesAccounted ClientsMissNothing CachesFresh
  AnswersTruthful GatewaysClosed ReadingsAccounted ApprovedIsAccepted
PROPERTIES SettledOrSilent
CHECK_DEADLOCK FALSE
