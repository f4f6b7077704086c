\* A disputed order: inspection, arbiters, rulings in both readings, appeals.
SPECIFICATION SmallFairSpec
CONSTANTS
  EscrowIds = {e1, e2}
  e1 = e1
  a1 = a1
  a2 = a2
  Amounts = {2}
  Surpluses = {0}
  Terms = {2}
  Lockouts = {}
  DefaultLockout = 0
  Schedules <- NoSchedules
  DualControlThreshold = 2
  GracePeriod = 1
  Retention = 1
  BumpRate = 1
  BumpExtension = 1
  BountyWindow = 1
  KeeperBounty = 4
  MaxLedger = 3
  Arbiters = {a1, a2}
  Panels <- SmallPanels
  Stakes = {2}
  Readings = {"merged", "twoTier"}
  Itemisations <- OneOrTwoItems
  Extensions = {1}
  InspectionTerms = {2}
  DefaultInspection = 1
  ResolutionWindow = 1
  AppealWindow = 1
  MinBond = 1
INVARIANTS RulingsPayThePrincipal PoolIsAccountedFor ConflictNeedsALaxPanel
PROPERTIES OnlySilentAreSlashed DisputeHoldsMoney RulingIsFrozen RulingTakesEffect
CHECK_DEADLOCK FALSE
