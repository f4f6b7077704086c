\* One order, every operation of the core, long enough for every window to lapse.
SPECIFICATION CoreFairSpec
CONSTANTS
  EscrowIds = {e1}
  e1 = e1
  Amounts = {2}
  Surpluses = {0}
  Terms = {1, 2}
  Lockouts = {0, 2}
  DefaultLockout = 1
  Schedules <- SmallSchedules
  DualControlThreshold = 3
  GracePeriod = 1
  Retention = 1
  BumpRate = 1
  BumpExtension = 1
  BountyWindow = 1
  KeeperBounty = 1
  MaxLedger = 4
INVARIANTS BooksMatchTokens
PROPERTIES CancelHonoursWindow BuyerCanExit
CHECK_DEADLOCK FALSE
