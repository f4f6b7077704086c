SPECIFICATION AdminSpec
CONSTANTS
  Rates = {1, 3}
  Treasuries = {t1}
  Splits <- MCSplits
  Tokens = {k1, k2}
  Guardians = {g1}
  MaxFee = 2
  MaxTreasuries = 1
  ReviewDelay = 1
  MaxId = 3
  MaxLedger = 2
  Users = {u1, u2, u3}
  Orders = {e1}
  Principal = 2
  Hashes = {h1, h2}
  Destinations = {d1, d2}
  MinThreshold = 2
  UpgradeDelay = 1
  RescueDelay = 1
INVARIANTS SignersAreCounted
PROPERTIES KeepsReviewSinceDeployed UpgradeMeetsItsBar RescueIsWhatWasSigned
CONSTRAINT MCOneConcern
SYMMETRY Symmetry
