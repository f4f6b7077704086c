\* Two owners, ids that can be handed out twice, versions to roll back to.
SPECIFICATION RegistrySpec
CONSTANTS
  o1 = o1
  o2 = o2
  c1 = c1
  Owners = {o1, o2}
  Admins = {a1}
  NoOne = NoOne
  Contracts = {c1}
  Flags = {"spend"}
  Ttls = {1}
  Legacies <- FreshOrOld
  MaxSweepBatch = 2
  MaxId = 2
  MaxTrail = 4
  MaxSubAccounts = 1
  MaxLedger = 2
INVARIANTS TrailMatchesRecord SubAccountsFollowOwner
PROPERTIES LapsedStaysDead
CHECK_DEADLOCK FALSE
