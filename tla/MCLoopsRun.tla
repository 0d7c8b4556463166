----------------------------- MODULE MCLoopsRun -----------------------------
(* Bounded instances of LoopsRun.  Scores run from 0 to the top 3 with a      *)
(* minimum improvement of 0 or 1, a batch holds four traces of which the      *)
(* floor asks for half, and the total budget is crossed after a few stages.   *)
EXTENDS LoopsRunProperties

Config(approval, datasetReview, improvement, rate, total, iterations) ==
  [outer |-> [maxIterations |-> iterations, patience |-> 2,
              minImprovement |-> improvement,
              perIteration |-> 2, total |-> total, approval |-> approval],
   trace |-> [target |-> 5, maxBatches |-> 2, minRate |-> rate,
              perBatch |-> 2, total |-> total],
   model |-> [minImprovement |-> improvement, regression |-> 1,
              perStage |-> 2, total |-> total, approval |-> approval],
   datasetReview |-> datasetReview, maxCycles |-> 2,
   modelScore |-> 1, harnessScore |-> 1, top |-> 3, slimGain |-> 1]

AllConfigs == {Config(FALSE, FALSE, 0, 50, 11, 2), Config(TRUE, TRUE, 0, 0, 15, 2),
               Config(FALSE, TRUE, 1, 50, 15, 3)}

FewScores == {0, 1, 2, 3}
FewCosts == {0, 1, 3}
FewBatches == {[accepted |-> n, raw |-> 4] : n \in {0, 1, 2, 4}}

=============================================================================
