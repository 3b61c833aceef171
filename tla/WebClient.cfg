SPECIFICATION ClientSpec
CONSTANTS
  a = a
  b = b
  Accounts = {a, b}
  MaxLogins = 2
  MaxCalls = 2
INVARIANTS ShownIsOwn SessionIsAccounts SenderIsAsker
PROPERTIES ConnectEnds
CHECK_DEADLOCK FALSE
