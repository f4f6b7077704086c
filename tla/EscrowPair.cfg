\* Two orders sharing the vault: opening, funding, paying, refunding, archiving.
SPECIFICATION MoneySpec
CONSTANTS
  EscrowIds = {e1, e2}
  e1 = e1
  e2 = e2
  Amounts = {1, 2}
  Surpluses = {0}
  Terms = {1}
  Lockouts = {}
  DefaultLockout = 0
  Schedules <- NoSchedules
  DualControlThreshold = 2
  GracePeriod = 1
  Retention = 1
  BumpRate = 1
  BumpExtension = 1
  BountyWindow = 1
  KeeperBounty = 1
  MaxLedger = 3
INVARIANTS OnlyBountiesLeak
PROPERTIES KeepsCustody
SYMMETRY Symmetry
CHECK_DEADLOCK FALSE
