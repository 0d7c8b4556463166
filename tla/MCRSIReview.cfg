SPECIFICATION Spec
CONSTANTS
  MaxIterations = 2
  PlateauPatience = 2
  MinImprovement = 1
  RegressionTolerance = 1
  PerIterationBudget = 3
  TotalBudget = 4
  InitialScore = 4
  Scores <- FewScores
  TeacherCosts <- OneCost
  EvalCosts <- OneCost
  Qualities <- AllGood
  DatasetReview = TRUE
  CheckpointReview = TRUE
  TTL = 3600
  WallTimes <- Late
  MaxCrashes = 1
INVARIANTS
  HumanAuthority
  OneVerdict
  ChargedOnce
  Resumable
