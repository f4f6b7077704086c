SPECIFICATION PermissionSpec
CONSTANTS
  Pairs <- MCFamily
  SelfDelegation = FALSE
  Terms <- MCTerms
  Expiries = {3}
  Changes = {}
  Sessions = {}
  Signed = {}
  Lanes = {"plain"}
  MaxDepth = 3
  MaxHops = 2
  Timelock = 1
  Inactivity = 1
  PruneAfter = 0
  MaxLimit = 2
  MaxEpoch = 0
  MaxNonce = 0
  MaxLedger = 3
INVARIANTS AllowanceHolds
PROPERTIES LapsedPaysNothing RevokeReachesBelow
CONSTRAINT MCHandedOn
