CONSTANTS
  MaxBlock = 3
  MaxRuns = 2
  MaxDumps = 3
  MaxDamage = 1
SPECIFICATION DevSpec
INVARIANTS SnapshotsAreWhole CleanExitSavesAll
PROPERTIES StartsContinue CheckpointsExtendTheChain StopEnds ReadyIsDeployed
CHECK_DEADLOCK FALSE
