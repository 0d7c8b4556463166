------------------------- MODULE LoopsRunProperties -------------------------
(***************************************************************************)
(* What the three loops promise together over a whole run.                 *)
(***************************************************************************)
EXTENDS LoopsRun

States == {"MUTATE_HARNESS", "HARNESS_REVIEW_PENDING", "HARVEST_TRACES",
           "TRAIN_MODEL", "DATA_REVIEW_PENDING", "MODEL_REVIEW_PENDING",
           "PROMOTE_MODEL", "ROLLBACK_MODEL", "SLIM_HARNESS", "FREEZE_MODEL",
           "STOPPED", "ABORTED"}

Stops == {"NONE", "MAX_ITERATIONS", "CYCLE_LIMIT", "APPROVAL_NOT_GRANTED",
          "PER_ITERATION_BUDGET_EXCEEDED", "TOTAL_BUDGET_EXCEEDED"}

Maybe == Nat \cup {None}

MetaType ==
  [modelScore : Maybe, verified : Nat, batches : Nat, batch : Maybe,
   dataset : Maybe, accepted : Nat,
   review : {"NONE", "REQUESTED", "GRANTED", "DENIED"}]

SnapshotIn(states) ==
  [state : states, cycle : Nat, iteration : Nat, ckpt : Nat, peak : Nat,
   harness : Nat, candCkpt : Maybe, candHarness : Maybe, candScore : Maybe,
   score : Nat, plateau : Nat, cost : Nat, stop : Stops, meta : MetaType]

RunType ==
  [snap : SnapshotIn(States), modelScore : Nat, completed : Nat,
   pending : {"none", "harness", "dataset", "checkpoint"}]

\* The record and its snapshot keep their fields' types; only the states an
\* update of the record can leave appear in it.
TypeOK == limits \in Configs /\ run \in RunType

\* No run goes on with more spent than its total budget, and those that are
\* aborted, and no others, give a budget as their reason (BudgetStop of the three
\* policies: outer_loop, trace_harvesting and model_inner_loop share one total).
BudgetRespected ==
  /\ run.snap.state # "ABORTED" => run.snap.cost <= limits.outer.total
  /\ run.snap.state = "ABORTED" <=>
       run.snap.stop \in {"PER_ITERATION_BUDGET_EXCEEDED", "TOTAL_BUDGET_EXCEEDED"}

\* The searches stop where their limits say and hand over what the next loop
\* needs: attempts stay under the plateau and the iteration limit, a harvest
\* has a batch left, training has a dataset whose count reached the target,
\* and cycles are completed one by one up to max_cycles.
SearchIsBounded ==
  LET s == run.snap
  IN  /\ s.state \in {"MUTATE_HARNESS", "HARNESS_REVIEW_PENDING"} =>
           /\ s.iteration \in 1..limits.outer.maxIterations
           /\ s.plateau < limits.outer.patience
           /\ s.plateau < s.iteration
      /\ s.state = "HARVEST_TRACES" =>
           /\ s.meta.batches < limits.trace.maxBatches
           /\ s.iteration <= limits.outer.maxIterations + s.meta.batches
      /\ s.state \in {"TRAIN_MODEL", "DATA_REVIEW_PENDING"} =>
           /\ s.meta.dataset # None /\ s.meta.accepted >= 1
           /\ s.meta.verified >= limits.trace.target
           /\ s.meta.batches <= limits.trace.maxBatches
      /\ run.completed <= limits.maxCycles
      /\ s.cycle = run.completed + 1

\* While anything is searched or trained the model is the accepted Peak, a
\* candidate awaiting its review or its promotion beats it by more than the
\* minimum, and the reviewer is asked for a Harness or a model only when the
\* configuration says so.
CandidatesAreJustified ==
  LET s == run.snap
  IN  /\ FrozenLineage(s)
      /\ s.state \in {"MODEL_REVIEW_PENDING", "PROMOTE_MODEL"} =>
           /\ s.candCkpt = s.cycle /\ s.meta.modelScore = run.modelScore
           /\ s.candScore > run.modelScore + limits.model.minImprovement
      /\ s.state = "HARNESS_REVIEW_PENDING" =>
           /\ s.candHarness = Candidate(s.cycle, s.iteration)
           /\ s.candScore > s.score + limits.outer.minImprovement
      /\ run.pending = "harness" => limits.outer.approval
      /\ run.pending = "checkpoint" => limits.model.approval
      /\ run.pending = "dataset" => limits.datasetReview

\* The accepted model moves only when a promotion is committed and its score
\* rises by more than the minimum; the accepted Harness moves only out of its
\* search, its review or the slimming and its score rises; neither score moves
\* alone, and the two never move in one step.
AcceptedOnlyImproves ==
  [][ LET old == run.snap
          new == run'.snap
      IN  /\ new.ckpt # old.ckpt =>
               /\ old.state = "PROMOTE_MODEL" /\ new.state = "SLIM_HARNESS"
               /\ new.ckpt = old.candCkpt
               /\ run'.modelScore > run.modelScore + limits.model.minImprovement
               /\ new.harness = old.harness
          /\ new.harness # old.harness =>
               /\ old.state \in {"MUTATE_HARNESS", "HARNESS_REVIEW_PENDING", "SLIM_HARNESS"}
               /\ new.score > old.score
          /\ new.ckpt = old.ckpt => run'.modelScore = run.modelScore
          /\ new.harness = old.harness => new.score = old.score ]_loopVars


=============================================================================
