SPECIFICATION Spec
CONSTANTS
  MaxIterations = 3
  PlateauPatience = 2
  MinImprovement = 1
  RegressionTolerance = 1
  PerIterationBudget = 3
  TotalBudget = 6
  InitialScore = 4
  Scores <- MoreScores
  TeacherCosts <- TwoCosts
  EvalCosts <- TwoCosts
  Qualities <- AllKinds
  DatasetReview = FALSE
  CheckpointReview = FALSE
  TTL = 3600
  WallTimes <- StartOnly
  MaxCrashes = 2
INVARIANTS
  TypeOK
  RunIsMaterialized
  HistoryIsJustified
  BudgetRespected
PROPERTIES
  TerminalSticks
  PeakIsRegister
