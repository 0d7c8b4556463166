--------------------------- MODULE MCCoevolution ---------------------------
(* Bounded instances of Coevolution: the default configuration of the        *)
(* repository in units of 1/79000 and thousandths of a dollar, with fewer    *)
(* attempts and cycles, and variations of it.                                *)
EXTENDS CoevolutionProperties

Default ==
  [outer |-> [maxIterations |-> 2, patience |-> 2, minImprovement |-> 395,
              perIteration |-> 10000, total |-> 50000, approval |-> FALSE],
   trace |-> [target |-> 2, maxBatches |-> 2, minRate |-> 25,
              perBatch |-> 5000, total |-> 50000],
   model |-> [minImprovement |-> 395, regression |-> 790,
              perStage |-> 10000, total |-> 50000, approval |-> FALSE],
   datasetReview |-> FALSE, maxCycles |-> 2,
   modelScore |-> 39500, harnessScore |-> 39500, top |-> 79000, slimGain |-> 790,
   harvest |-> [accepted |-> 2, raw |-> 2],
   controllers |-> 1, maxCrashes |-> 1, mayTear |-> FALSE]

Crashing == [Default EXCEPT !.maxCrashes = 2]
Tearing == [Default EXCEPT !.mayTear = TRUE, !.maxCycles = 1, !.outer.maxIterations = 1,
                           !.trace.maxBatches = 1]
Reviewed ==
  [Default EXCEPT !.outer.approval = TRUE, !.model.approval = TRUE, !.datasetReview = TRUE,
                  !.maxCrashes = 0]
ReviewedCrashing ==
  [Default EXCEPT !.outer.approval = TRUE, !.model.approval = TRUE, !.maxCycles = 1]
\* Two batches fill the target, and the budget ends the run in an evaluation.
Frugal ==
  [Default EXCEPT !.harvest.accepted = 1, !.maxCrashes = 0,
                  !.outer.perIteration = 1050, !.outer.total = 1050,
                  !.trace.perBatch = 1050, !.trace.total = 1050,
                  !.model.perStage = 1050, !.model.total = 1050]
\* Training costs more than a stage may.
Overspent == [Default EXCEPT !.outer.perIteration = 150, !.trace.perBatch = 150,
                             !.model.perStage = 150]
Two == [Default EXCEPT !.controllers = 2, !.maxCrashes = 0]
TwoReviewed ==
  [ReviewedCrashing EXCEPT !.controllers = 2, !.maxCrashes = 0, !.outer.maxIterations = 1,
                             !.trace.maxBatches = 1]

\* Two cycles that roll back, and a second process that is late to hear of it.
TwoRewinding ==
  [Two EXCEPT !.maxCycles = 3, !.outer.maxIterations = 1, !.trace.maxBatches = 1]

AllSetups == {Crashing, Tearing, Reviewed, ReviewedCrashing, Frugal, Overspent,
              Two, TwoReviewed, TwoRewinding}

\* What the code does where a document says otherwise.
OverspentSetups == {[Overspent EXCEPT !.maxCrashes = 0]}
ThreeCycleSetups == {[Default EXCEPT !.maxCycles = 3, !.maxCrashes = 0]}
DatasetSetups == {[Default EXCEPT !.datasetReview = TRUE]}

SomeScores == {37920, 39517, 40685, 40702, 41492, 41509, 42265, 42677, 42694,
               43484, 43501, 44669, 44686}
SomeCosts == {100, 150, 201, 202}
SomeBatches == {[accepted |-> n, raw |-> 2] : n \in {1, 2}}

=============================================================================
