CONSTANTS
  MaxBlock = 2
  MaxRuns = 2
  MaxDumps = 4
  MaxDamage = 1
SPECIFICATION Spec
INVARIANT DamagedPrimaryFallsBack
CHECK_DEADLOCK FALSE
