\* A ruling that has paid leaves an appeal window open.
SPECIFICATION SmallSpec
CONSTANTS
  EscrowIds = {e1, e2}
  e1 = e1
  a1 = a1
  a2 = a2
  Amounts = {2}
  Surpluses = {0}
  Terms = {2}
  Lockouts = {}
  DefaultLockout = 0
  Schedules <- NoSchedules
  DualControlThreshold = 2
  GracePeriod = 1
  Retention = 1
  BumpRate = 1
  BumpExtension = 1
  BountyWindow = 1
  KeeperBounty = 4
  MaxLedger = 3
  Arbiters = {a1, a2}
  Panels <- NoPanels
  Stakes = {}
  Readings = {"merged"}
  Itemisations <- NoItems
  Extensions = {}
  InspectionTerms = {}
  DefaultInspection = 1
  ResolutionWindow = 1
  AppealWindow = 1
  MinBond = 1
INVARIANTS NoOrderOverpaid
CHECK_DEADLOCK FALSE
