SPECIFICATION FairLoopsSpec
CONSTANTS
  Configs <- AllConfigs
  Scores <- FewScores
  Costs <- FewCosts
  Batches <- FewBatches
INVARIANTS
  TypeOK
  BudgetRespected
  SearchIsBounded
  CandidatesAreJustified
PROPERTIES
  AcceptedOnlyImproves
  
CHECK_DEADLOCK FALSE
