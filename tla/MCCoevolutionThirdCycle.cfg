SPECIFICATION FairSpec
CONSTANTS
  Setups <- ThreeCycleSetups
  Scores <- SomeScores
  Costs <- SomeCosts
  Batches <- SomeBatches
PROPERTY
  NextCycleBegins
CHECK_DEADLOCK FALSE
