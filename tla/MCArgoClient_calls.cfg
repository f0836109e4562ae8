SPECIFICATION FairSpec
CONSTANTS
  c1 = c1
  c2 = c2
  Call = {c1, c2}
  Request <- MCRequest
  DefaultNs = "good"
  Token = {"secret"}
  Injected = Injected
  NoClient = NoClient
  Limit = 1
  MaxSize = 2
INVARIANTS NothingIsTruncated OneClientWithoutRaces TokensAreKept VerificationIsAsSet Inv
PROPERTIES CallsAreHonest CallsReturn
CHECK_DEADLOCK FALSE
