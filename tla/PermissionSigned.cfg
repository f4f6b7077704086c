SPECIFICATION PermissionSpec
CONSTANTS
  Pairs <- MCSigned
  SelfDelegation = FALSE
  Terms <- MCTerms
  Expiries = {}
  Changes = {1}
  Sessions <- MCSessions
  Signed <- MCOne
  Lanes = {"plain", "channel"}
  MaxDepth = 3
  MaxHops = 2
  Timelock = 1
  Inactivity = 1
  PruneAfter = 0
  MaxLimit = 2
  MaxEpoch = 2
  MaxNonce = 1
  MaxLedger = 3
INVARIANTS AllowanceHolds DeadSignaturesStayDead SessionsStandAlone
CONSTRAINT MCMovedBeside
