\* Two runs that may overlap.
CONSTANTS
  Bps = 20
  FeeBps = 1
  MaxExposureBps = 7
  MaxSingleTradeBps = 2
  MaxSlippageBps = 2
  MaxOracleAge = 2
  MinLiquidityUsd = 40
  PriceUnit = 1
  Prices = {0, 18, 20}
  Books <- OneBook
  Amounts = {1}
  Wait = 1
  MaxTime = 4
  MaxMoves = 1
  Runs = {r1, r2}
  Nothing = Nothing
SYMMETRY Symmetry
SPECIFICATION AgentSpec
PROPERTIES TradesWithinPolicy TradesAsValidated
CHECK_DEADLOCK FALSE
