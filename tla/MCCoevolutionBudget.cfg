SPECIFICATION FairSpec
CONSTANTS
  Setups <- OverspentSetups
  Scores <- SomeScores
  Costs <- SomeCosts
  Batches <- SomeBatches
PROPERTY
  AbortIsReported
CHECK_DEADLOCK FALSE
