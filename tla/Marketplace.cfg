SPECIFICATION MarketplaceSpec
CONSTANTS
  Owners = {"a", "b"}
  Names = {"n", "m"}
  Verifiers = {"v", "w"}
  Categories = {"food", "Food"}
  Normal <- MCNormal
  Deposits = {2}
  Bonds = {1}
  Required = {0, 1, 2}
  GracePeriod = 1
  Counts = {0}
  MaxOpen = 1
  MaxId = 2
  MaxTime = 1
CONSTRAINT MCSecondIsPlain
INVARIANTS StatsMatchStatuses IndexesFollowMerchants VaultHoldsDepositsAndBonds VerifiedIsEarned
