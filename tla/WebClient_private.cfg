SPECIFICATION ClientSpec
CONSTANTS
  a = a
  b = b
  Accounts = {a, b}
  MaxLogins = 2
  MaxCalls = 2
INVARIANTS PrivateScreen
CHECK_DEADLOCK FALSE
