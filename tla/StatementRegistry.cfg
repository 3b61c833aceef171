CONSTANTS
  Goals = {g1}
  ProfileIds = {p1}
  Manifests = {m1}
  Verifiers = {v1, v2}
  OperatorIds = {o1}
  Specifications = {sp1}
  Implementations = {window, other}
  WindowOperator = window
  Certified <- CertifiedAll
  Provable <- ProvableAll
  Deadlines <- DeadlineSet
  NoAddress = NoAddress
  None = None
  MaxTime = 3
  MaxStatements = 2
  Users = {u1, u2}
  Visitors = {u1, u2}
  Bloggers = {u1}
  MaxAttestations = 4
  MaxShared = 3
  MaxOthers = 2
  MaxCalls = 2
SPECIFICATION MCSpec
INVARIANTS VerdictsAreRight DiscussionsAreWhole PanelIsTrue
PROPERTIES ImplementsOracle EveryDeadlineSettles
CHECK_DEADLOCK FALSE
