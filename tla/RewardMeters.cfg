CONSTANTS
  Accounts = {a1, a2}
  Meters = {Hook, LockMeter}
  Hook = Hook
  LockMeter = LockMeter
  p1 = p1
  Pools = {p1}
  Slots <- OneSlot
  None = None
  Windows <- WindowSet
  Budgets <- BudgetSet
  Mints <- MintSet
  Batches <- BatchSet
  MaxTime = 4
  MaxPrograms = 2
  MaxWeight = 3
  MaxFunds = 3
  MaxBpt = 2
SPECIFICATION FairSpec

INVARIANTS AwardsAreProRata ReservedIsOwed MetersServeThePool LocksAreFair
PROPERTY ReservationsEnd
CHECK_DEADLOCK FALSE
