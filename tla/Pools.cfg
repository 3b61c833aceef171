CONSTANTS
  Beneficiaries = {b1, b2}
  Pools = {p1, p2}
  Statements = {s1, s2}
  None = None
  TotalWeight = 2
  MaxEpoch = 3
  MaxProposals = 2
  MaxRevenue = 1
  MaxLiquidity = 1
  MaxTrades = 1
SPECIFICATION FairPoolsSpec
INVARIANT SharesAreKept
PROPERTIES NoCutWithoutConsent RevenueReachesBeneficiaries ResolvedPoolsOnlyExit
CHECK_DEADLOCK FALSE
