SPECIFICATION ReputationSpec
CONSTANTS
  Entities = {"a", "b", "c"}
  Admin = "admin"
  Deals <- MCDeals
  Outcomes = {"Released", "Disputed"}
  Settled <- MCSettled
  Ratings = {4000, 9000}
  Configs <- MCConfigs
  Reporters = {"b"}
  ScoreWindow = 1
  MaxHalvings = 2
  MaxPrune = 1
  MaxGone = 1
  MaxTime = 2
INVARIANTS LifetimeCountsAreExact AccumulatorTracksRecords
PROPERTIES RatingStands
CONSTRAINT MCSellerOnTrial
