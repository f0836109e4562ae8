SPECIFICATION Spec
CONSTANTS
  c1 = c1
  c2 = c2
  Call = {c1, c2}
  Request <- MCRequest
  DefaultNs = "good"
  Token = {"secret"}
  Injected = Injected
  NoClient = NoClient
  Limit = 1
  MaxSize = 2
INVARIANT RequestsShareOneClient
CHECK_DEADLOCK FALSE
