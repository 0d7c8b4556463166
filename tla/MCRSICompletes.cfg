SPECIFICATION FairSpec
CONSTANTS
  MaxIterations = 3
  PlateauPatience = 2
  MinImprovement = 1
  RegressionTolerance = 1
  PerIterationBudget = 3
  TotalBudget = 6
  InitialScore = 4
  Scores <- FewScores
  TeacherCosts <- OneCost
  EvalCosts <- TwoCosts
  Qualities <- AllKinds
  DatasetReview = FALSE
  CheckpointReview = TRUE
  TTL = 3600
  WallTimes <- StartOnly
  MaxCrashes = 0
PROPERTIES
  Completes
  ApprovedIsPromoted
