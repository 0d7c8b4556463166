------------------------------ MODULE LoopsRun ------------------------------
(***************************************************************************)
(* A Co-Evolution run as its run record (coevolution/run.json) shows it:   *)
(* the latest snapshot, the active model's score, the completed cycles and *)
(* the pending review.  One action per update of the record by an          *)
(* uninterrupted CoEvolutionController, with whatever the outside reports; *)
(* what the three loop policies promise together, with no storage.         *)
(***************************************************************************)
EXTENDS HarnessSearch, TraceHarvest, ModelInner, FiniteSets

CONSTANTS Configs,   \* the configurations a run may have, see Configuration
          Scores,    \* scores an evaluation may report
          Costs,     \* costs a stage may report
          Batches    \* what a verified batch may be: records [accepted, raw]

\* outer, trace and model are the limits of the three policies, which share
\* the total budget; top is the score 1.0 and slimGain 0.01.  IdSpan bounds the
\* attempts of a cycle, so that Harness ids are distinct.
Configuration(c) ==
  /\ OuterLimits(c.outer) /\ TraceLimits(c.trace) /\ ModelLimits(c.model)
  /\ c.outer.maxIterations < IdSpan
  /\ c.trace.total = c.outer.total /\ c.model.total = c.outer.total
  /\ c.datasetReview \in BOOLEAN
  /\ c.maxCycles \in Nat \ {0}
  /\ c.modelScore \in Nat /\ c.harnessScore \in Nat
  /\ c.top \in Nat /\ c.slimGain \in Nat

ASSUME ConfigAssumption == \A c \in Configs : Configuration(c)

ASSUME ObservationAssumption ==
  /\ Scores \subseteq Nat /\ Costs \subseteq Nat
  /\ \A b \in Batches : b.accepted \in Nat /\ b.raw \in Nat

VARIABLES limits,   \* the configuration, fixed for the run
          run       \* CoEvolutionRunMetadata and its latest snapshot

loopVars == <<limits, run>>

\* The record _bootstrap creates: the first attempt of cycle 1, with the
\* bootstrap model 0 and the bootstrap Harness 0.
FirstRun(c) ==
  [snap |-> Final(OuterStart(1, 0, 0, c.harnessScore, 0)),
   modelScore |-> c.modelScore, completed |-> 0, pending |-> "none"]

LoopsInit == limits \in Configs /\ run = FirstRun(limits)

-----------------------------------------------------------------------------

\* _update_run: the record follows the snapshot; the model score only where
\* the snapshot's metadata has one.
Moved(r, snap, completed, pending) ==
  [snap |-> snap, completed |-> completed, pending |-> pending,
   modelScore |-> IF snap.meta.modelScore # None THEN snap.meta.modelScore
                  ELSE r.modelScore]

Follow(step) == run' = Moved(run, Final(step), run.completed, "none")

\* _enter_dataset_review
DatasetReviewSnapshot(s) ==
  [s EXCEPT !.state = "DATA_REVIEW_PENDING", !.meta.review = "REQUESTED"]

\* _controller_edge, of the answer to a dataset review.
DatasetReviewed(s, approved) ==
  << Edge(IF approved THEN "ACCEPT" ELSE "REJECT", "DATASET", s.meta.dataset,
          [s EXCEPT !.state = IF approved THEN "TRAIN_MODEL" ELSE "STOPPED",
                    !.stop = IF approved THEN "NONE" ELSE "APPROVAL_NOT_GRANTED",
                    !.meta.review = IF approved THEN "GRANTED" ELSE "DENIED"]) >>

\* The snapshot a model policy is given: _run_model_inner_loop adds the
\* record's model score to the metadata.
PolicyInput(r, s) == [s EXCEPT !.meta.modelScore = r.modelScore]

\* _commit_model_rollback writes the policy's step under the iteration the
\* rejected model was trained in, not under iteration 0.
RollbackStep(s) ==
  << [RollbackCommitted(s)[1] EXCEPT !.snap.iteration = s.iteration] >>

\* slim_score: capped at 1.0, so not always above the active score.
SlimScore(c, s) ==
  LET raised == s.score + c.outer.minImprovement + c.slimGain
  IN  IF raised < c.top THEN raised ELSE c.top

\* _slim_harness_after_model_promotion
SlimStep(c, r, s) ==
  << Edge("ACCEPT", "HARNESS", Slim(s.cycle),
          [NoSnapshot EXCEPT !.state = "FREEZE_MODEL", !.cycle = s.cycle + 1,
                             !.ckpt = s.ckpt, !.peak = s.ckpt,
                             !.harness = Slim(s.cycle),
                             !.score = SlimScore(c, s), !.cost = s.cost,
                             !.meta.modelScore = r.modelScore]) >>

\* _begin_outer_cycle
BeginStep(r, s) ==
  << Edge("CONTINUE", "RUN", None,
          [NoSnapshot EXCEPT !.state = "MUTATE_HARNESS", !.cycle = s.cycle,
                             !.iteration = 1, !.ckpt = s.ckpt, !.peak = s.ckpt,
                             !.harness = s.harness, !.score = s.score,
                             !.cost = s.cost, !.meta.modelScore = r.modelScore]) >>

\* _stop_cycle_limit
StopStep(r, s) ==
  << Edge("STOP", "RUN", None,
          [NoSnapshot EXCEPT !.state = "STOPPED", !.cycle = s.cycle,
                             !.iteration = s.iteration, !.ckpt = s.ckpt,
                             !.peak = s.ckpt, !.harness = s.harness,
                             !.score = s.score, !.plateau = s.plateau,
                             !.cost = s.cost, !.stop = "CYCLE_LIMIT",
                             !.meta.modelScore = r.modelScore]) >>

-----------------------------------------------------------------------------

\* Where run() dispatches by state: nothing pending, and the state's handler.
At(state) == run.snap.state = state /\ run.pending = "none" /\ UNCHANGED limits

\* _run_harness_attempt up to the update of the record: mutate, validate and,
\* when valid, evaluate.
HarnessAttempt(valid, score, cost) ==
  LET s == run.snap
      candidate == Candidate(s.cycle, s.iteration)
      created == CandidateCreated(s, candidate)
      validated == ValidationCompleted(limits.outer, Final(created), valid)
  IN  /\ At("MUTATE_HARNESS")
      /\ MayCreate(s, s.harness, candidate)
      /\ Follow(IF valid THEN OuterEvaluation(limits.outer, Final(validated), score, cost)
                ELSE validated)

\* _run_trace_batch: harvest and verify; nothing is verified after an abort.
TraceBatch(batch, cost) ==
  LET s == run.snap
      harvested == BatchHarvested(limits.trace, s, Candidate(s.cycle, s.iteration), cost)
  IN  /\ At("HARVEST_TRACES") /\ Harvestable(s)
      /\ batch.accepted <= batch.raw /\ batch.raw >= 1
      /\ Follow(IF Final(harvested).state = "ABORTED" THEN harvested
                ELSE VerificationCompleted(limits.trace, Final(harvested),
                                           batch.accepted, batch.raw))


\* A dataset is sent to review once, right after the batch that completed it.
DatasetUnreviewed == run.snap.meta.review = "NONE"

DatasetReview ==
  /\ At("TRAIN_MODEL") /\ limits.datasetReview /\ DatasetUnreviewed
  /\ run' = Moved(run, DatasetReviewSnapshot(run.snap), run.completed, "dataset")

\* _run_model_inner_loop up to the update of the record: train, evaluate.
ModelLoop(trainCost, score, evalCost) ==
  LET s == PolicyInput(run, run.snap)
      trained == TrainingCompleted(limits.model, s, s.cycle, trainCost)
  IN  /\ At("TRAIN_MODEL") /\ Trainable(s)
      /\ limits.datasetReview => s.meta.review = "GRANTED"
      /\ Follow(IF Final(trained).state = "ABORTED" THEN trained
                ELSE ModelEvaluation(limits.model, Final(trained), score, evalCost))

\* _create_approval_request: the record names the request that is pending.
ReviewOf == [HARNESS_REVIEW_PENDING |-> "harness", MODEL_REVIEW_PENDING |-> "checkpoint"]

RequestReview ==
  \E state \in DOMAIN ReviewOf :
    At(state) /\ run' = Moved(run, run.snap, run.completed, ReviewOf[state])

\* _resume_pending_approval with the reviewer's answer.
Answered(subject, step) ==
  run.pending = subject /\ Follow(step) /\ UNCHANGED limits

Review(approved) ==
  \/ Answered("harness", HarnessReview(limits.outer, run.snap, approved))
  \/ Answered("dataset", DatasetReviewed(run.snap, approved))
  \/ MayReviewModel(limits.model, run.snap)
     /\ Answered("checkpoint", ModelReview(run.snap, approved))

\* _commit_model_promotion and _commit_model_rollback
Promotion == At("PROMOTE_MODEL") /\ Follow(PromotionCommitted(run.snap))

Rollback ==
  /\ At("ROLLBACK_MODEL")
  /\ run' = Moved(run, Final(RollbackStep(run.snap)), run.completed + 1, "none")

\* HarnessPointerStore refuses a score that does not rise.
MaySlim == SlimScore(limits, run.snap) > run.snap.score

SlimHarness ==
  /\ At("SLIM_HARNESS") /\ MaySlim
  /\ run' = Moved(run, Final(SlimStep(limits, run, run.snap)), run.completed + 1, "none")

MoreCycles == run.completed < limits.maxCycles

BeginCycle == At("FREEZE_MODEL") /\ MoreCycles /\ Follow(BeginStep(run, run.snap))

StopAtLimit == At("FREEZE_MODEL") /\ ~MoreCycles /\ Follow(StopStep(run, run.snap))

\* What the controller does by itself, and what waits for a reviewer.
Progress ==
  \/ \E score \in Scores, cost \in Costs : HarnessAttempt(TRUE, score, cost)
  \/ HarnessAttempt(FALSE, 0, 0)
  \/ \E batch \in Batches, cost \in Costs : TraceBatch(batch, cost)
  \/ DatasetReview
  \/ \E trainCost \in Costs, score \in Scores, evalCost \in Costs :
       ModelLoop(trainCost, score, evalCost)
  \/ RequestReview
  \/ Promotion \/ Rollback \/ SlimHarness \/ BeginCycle \/ StopAtLimit

LoopsNext == Progress \/ \E approved \in BOOLEAN : Review(approved)

LoopsSpec == LoopsInit /\ [][LoopsNext]_loopVars

\* run() loops until the run ends or a review is pending; a reviewer owes
\* nothing.
FairLoopsSpec == LoopsSpec /\ WF_loopVars(Progress)

=============================================================================
