SPECIFICATION RemoteSpec
CONSTANTS
  j1 = j1
  j2 = j2
  a1 = a1
  a2 = a2
  Jobs = {j1, j2}
  Apps = {a1, a2}
  AppOf <- MCAppOf
  MaxFaults = 1
  MaxReruns = 1
INVARIANTS SlotIsSound RetryFindsItsCommit
PROPERTY SlotIsFreed
CHECK_DEADLOCK FALSE
