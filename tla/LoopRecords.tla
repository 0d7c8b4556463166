---------------------------- MODULE LoopRecords ----------------------------
(***************************************************************************)
(* What the three Harness loops exchange: a StateSnapshot, and a policy    *)
(* step, the ordered (Decision, Transition, Snapshot) triples that         *)
(* HarnessPolicyStep, TraceHarvestPolicyStep and ModelInnerPolicyStep hold.*)
(*                                                                         *)
(* Checkpoints and Harnesses are numbers: the bootstrap model and Harness  *)
(* are 0, the checkpoint trained in cycle c is c, the Harness candidate of *)
(* attempt a of cycle c is 100 * c + a and the slim Harness of cycle c is  *)
(* 100 * c (their ids are hashes over cycle, attempt and parent).  Scores  *)
(* and costs are integers in units above the code's _EPSILON.              *)
(***************************************************************************)
EXTENDS Integers, Sequences

None == -1

\* Snapshot metadata a later step reads back: active_model_score,
\* verified_trace_count, harvest_batch_count, trace_batch_id, trace_dataset_id,
\* accepted_trace_count, and of a dataset review its approval_request_id
\* (REQUESTED) and the reviewer's answer.
NoMeta == [modelScore |-> None, verified |-> 0, batches |-> 0, batch |-> None,
           dataset |-> None, accepted |-> 0, review |-> "NONE"]

\* score is StateSnapshot.peak_score, which the loops use for the score of the
\* active Harness.
NoSnapshot ==
  [state |-> "NONE", cycle |-> 0, iteration |-> 0, ckpt |-> None, peak |-> None,
   harness |-> None, candCkpt |-> None, candHarness |-> None,
   candScore |-> None, score |-> 0, plateau |-> 0, cost |-> 0,
   stop |-> "NONE", meta |-> NoMeta]

\* One Decision with its Transition and its Snapshot; on and id are the
\* Decision's subject.
Edge(action, on, id, snap) ==
  [action |-> action, on |-> on, id |-> id, snap |-> snap]

\* final_snapshot
Final(step) == step[Len(step)].snap

\* Every policy refuses a snapshot whose active model is not the accepted Peak
\* (_require_frozen_model, _validate_frozen_lineage, _validate_active_lineage).
FrozenLineage(s) == s.ckpt # None /\ s.ckpt = s.peak

\* The Harness ids of a cycle, distinct as long as attempts stay under IdSpan.
IdSpan == 100
Candidate(cycle, attempt) == IdSpan * cycle + attempt
Slim(cycle) == IdSpan * cycle

\* StopReason of the budget that was crossed; the stage's own limit is
\* compared first in every policy.
BudgetStop(cost, perStage) ==
  IF cost > perStage THEN "PER_ITERATION_BUDGET_EXCEEDED"
  ELSE "TOTAL_BUDGET_EXCEEDED"

\* A mutant: only the stage's own limit is compared.
WithinStageBudget(s, cost, perStage, total) == cost <= perStage

WithinBudgets(s, cost, perStage, total) ==
  cost <= perStage /\ s.cost + cost <= total

=============================================================================
