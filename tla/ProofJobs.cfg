CONSTANTS
  Owners = {w1, w2}
  Inputs = {i1}
  MaxPending = 3
  MaxPerOwner = 2
  MaxJobs = 4
  MaxStops = 1
SPECIFICATION FairSpec
INVARIANTS OneComputation SlotCoversCleanup QueueIsSound
PROPERTIES EndedJobsStayEnded EveryJobEnds
CHECK_DEADLOCK FALSE
