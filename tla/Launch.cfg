SPECIFICATION FairSpec
CONSTANTS
  N = 3
  SNELES = 5
  BITLEN = 58
INVARIANTS RunsTogether AllOrNothing TrafficBalances
PROPERTIES Ends WaitsOnlyInAccept
CHECK_DEADLOCK FALSE
