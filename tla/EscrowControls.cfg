\* One order, small, large or with milestones, under every pair of its controls.
SPECIFICATION FewFairSpec
CONSTANTS
  EscrowIds = {e1}
  e1 = e1
  o1 = o1
  o2 = o2
  Amounts = {1, 3}
  Surpluses = {0}
  Terms = {1}
  Lockouts = {}
  DefaultLockout = 0
  Schedules <- MCSchedules
  DualControlThreshold = 2
  GracePeriod = 1
  Retention = 1
  BumpRate = 1
  BumpExtension = 1
  BountyWindow = 1
  KeeperBounty = 4
  MaxLedger = 3
  Approvers = {u1, u2}
  ApprovalTerms = {1}
  PoolAmounts = {1, 2}
  MaxPool = 2
  Bounds <- MCBounds
  Outputs = {1, 2}
  Dates = {d1}
  Oracles = {o1, o2}
  OraclePanels <- MCPanels
  OracleWindow = 1
  Vouchers <- MCVouchers
INVARIANTS PoolIsBacked MilestonesMatchReleases
PROPERTIES SwapNeedsItsCosigner ConsensusIsFresh RecordsMoveByTheTable SilentApproverIsBypassed
CHECK_DEADLOCK FALSE
