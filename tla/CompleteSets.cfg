CONSTANTS
  Questions = {q1, q2}
  Users = {u1, u2}
  Router = Router
  Wrapper = Wrapper
  CTF = CTF
  Amounts <- OneUnit
  MaxSupply = 2
  MaxClaims = 2
SPECIFICATION Spec
SYMMETRY Symmetry
INVARIANT PotSuffices
PROPERTIES NothingLost ImplementsLedger
CHECK_DEADLOCK FALSE
