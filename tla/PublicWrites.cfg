SPECIFICATION FairSpec
CONSTANTS
  MaxRequests = 2
  Deployments <- DeploymentSet
  First = 1
  Authorities <- AuthoritySet
  Events <- EventSet
  MaxInflight = 1
  MaxActive = 1
  MaxBlocks = 3
  MaxSwitches = 1
INVARIANTS AdmissionIsBounded RetryIsSafe
PROPERTIES WritesNeedAuthority EveryRequestEnds
CHECK_DEADLOCK FALSE
