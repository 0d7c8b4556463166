SPECIFICATION FairSpec
CONSTANTS
  Setups <- AllSetups
  Scores <- SomeScores
  Costs <- SomeCosts
  Batches <- SomeBatches
INVARIANTS
  RecordIsCommitted
  PointersJustified
  HumanAuthority
PROPERTIES
  RefinesLoops
  Completes
CHECK_DEADLOCK FALSE
