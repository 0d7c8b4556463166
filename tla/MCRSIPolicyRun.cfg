SPECIFICATION Spec
CONSTANTS
  MaxIterations = 4
  PlateauPatience = 2
  MinImprovement = 1
  RegressionTolerance = 1
  PerIterationBudget = 3
  TotalBudget = 8
  InitialScore = 4
  Scores <- MCScores
  Costs <- MCCosts
INVARIANTS
  TypeOK
  LineageIsPeak
  PeakIsHistoricalBest
  RunEndsOnTime
PROPERTIES
  PeakOnlyImproves
CHECK_DEADLOCK FALSE
