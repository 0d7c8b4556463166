SPECIFICATION Spec
CONSTANTS
  Setups <- DatasetSetups
  Scores <- SomeScores
  Costs <- SomeCosts
  Batches <- SomeBatches
INVARIANT
  DatasetAuthority
CHECK_DEADLOCK FALSE
