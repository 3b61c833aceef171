CONSTANTS
  Ballots = {"for", "against", "abstain"}
  Members = {m1, m2}
  VotingDelay = 0
  VotingPeriod = 1
  TimelockDelay = 1
  MaxProposals = 2
  Accounts = {a1}
  Meters = {Hook, LockMeter}
  Hook = Hook
  LockMeter = LockMeter
  p1 = p1
  Pools = {p1}
  Slots <- OneSlot
  None = None
  Windows <- WindowSet
  Budgets <- BudgetSet
  Mints <- MintSet
  Batches <- BatchSet
  MaxTime = 4
  MaxPrograms = 2
  MaxWeight = 1
  MaxFunds = 0
  MaxBpt = 0
SPECIFICATION GovernedSpec
SYMMETRY Symmetry
INVARIANT ProgramsAreAsVoted
CHECK_DEADLOCK FALSE
