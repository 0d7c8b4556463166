----------------------------- MODULE ModelInner -----------------------------
(***************************************************************************)
(* The inner loop of harness/model_inner_loop/policy.py: a candidate model *)
(* is trained on the verified dataset, evaluated, reviewed where asked,    *)
(* and promoted or rolled back.  M is a record of ModelInnerLimits; the    *)
(* score to beat is the active_model_score in the snapshot's metadata.     *)
(***************************************************************************)
EXTENDS LoopRecords

\* ModelInnerLimits.__post_init__
ModelLimits(M) ==
  /\ M.minImprovement \in Nat /\ M.regression \in Nat
  /\ M.perStage \in Nat \ {0} /\ M.total \in Nat \ {0}
  /\ M.perStage <= M.total
  /\ M.approval \in BOOLEAN

\* _validate_active_lineage
Trainable(s) == FrozenLineage(s) /\ s.harness # None

\* _edge_from_snapshot: the state with a candidate checkpoint and its score;
\* the candidate Harness is dropped, the metadata is what the edge names.
Turn(s, state, ckpt, score, meta) ==
  [s EXCEPT !.state = state, !.candCkpt = ckpt, !.candScore = score,
            !.candHarness = None, !.stop = "NONE", !.meta = meta]

\* _budget_abort of the training and of the evaluation stage.
ModelAbort(M, s, ckpt, cost) ==
  << Edge("ABORT", "CHECKPOINT", ckpt,
          [Turn(s, "ABORTED", ckpt, s.candScore, s.meta)
             EXCEPT !.cost = @ + cost, !.stop = BudgetStop(cost, M.perStage)]) >>

\* training_completed
TrainingCompleted(M, s, ckpt, cost) ==
  IF ~WithinBudgets(s, cost, M.perStage, M.total) THEN ModelAbort(M, s, ckpt, cost)
  ELSE << Edge("CONTINUE", "CHECKPOINT", ckpt,
               [Turn(s, "EVALUATE_MODEL", ckpt, None,
                     [NoMeta EXCEPT !.dataset = s.meta.dataset,
                                    !.modelScore = s.meta.modelScore])
                  EXCEPT !.cost = @ + cost]) >>

\* _promotion_decision, _rollback_decision: the active model does not move yet.
PromotionDecision(s, score) ==
  << Edge("PROMOTE", "CHECKPOINT", s.candCkpt,
          Turn(s, "PROMOTE_MODEL", s.candCkpt, score, s.meta)) >>

RollbackDecision(s, score) ==
  << Edge("ROLLBACK", "CHECKPOINT", s.candCkpt,
          Turn(s, "ROLLBACK_MODEL", s.candCkpt, score, s.meta)) >>

\* A mutant: equality counts as an improvement.
ModelImprovesWeakly(M, s, score) == score >= s.meta.modelScore + M.minImprovement

ModelImproves(M, s, score) == score > s.meta.modelScore + M.minImprovement

\* evaluation_completed: budgets, strict improvement, review, else rollback.
ModelEvaluation(M, s, score, cost) ==
  LET paid == [s EXCEPT !.cost = @ + cost]
  IN  IF ~WithinBudgets(s, cost, M.perStage, M.total) THEN ModelAbort(M, s, s.candCkpt, cost)
      ELSE IF ~ModelImproves(M, s, score) THEN RollbackDecision(paid, score)
      ELSE IF M.approval
      THEN << Edge("REQUEST_APPROVAL", "CHECKPOINT", s.candCkpt,
                   Turn(paid, "MODEL_REVIEW_PENDING", s.candCkpt, score, s.meta)) >>
      ELSE PromotionDecision(paid, score)

\* review_completed refuses a candidate that does not improve any more.
MayReviewModel(M, s) ==
  /\ s.state = "MODEL_REVIEW_PENDING" /\ Trainable(s)
  /\ s.candScore # None /\ ModelImproves(M, s, s.candScore)

ModelReview(s, approved) ==
  IF approved THEN PromotionDecision(s, s.candScore)
  ELSE RollbackDecision(s, s.candScore)

\* A mutant: the score to beat stays the old model's.
PromotionCommittedOldScore(s) ==
  << Edge("CONTINUE", "CHECKPOINT", s.candCkpt,
          [Turn(s, "SLIM_HARNESS", None, None, s.meta)
             EXCEPT !.ckpt = s.candCkpt, !.peak = s.candCkpt]) >>

\* promotion_committed: bundle and Peak are durable, the model is swapped.
PromotionCommitted(s) ==
  << Edge("CONTINUE", "CHECKPOINT", s.candCkpt,
          [Turn(s, "SLIM_HARNESS", None, None,
                [s.meta EXCEPT !.modelScore = s.candScore])
             EXCEPT !.ckpt = s.candCkpt, !.peak = s.candCkpt]) >>

\* rollback_committed: the next cycle, from iteration 0, with the old model.
RollbackCommitted(s) ==
  << Edge("CONTINUE", "CHECKPOINT", s.ckpt,
          [Turn(s, "FREEZE_MODEL", None, None, s.meta)
             EXCEPT !.cycle = @ + 1, !.iteration = 0]) >>

=============================================================================
