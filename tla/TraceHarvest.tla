---------------------------- MODULE TraceHarvest ----------------------------
(***************************************************************************)
(* The middle loop of harness/trace_harvesting/policy.py: harvest batches  *)
(* of traces under a frozen model and Harness until enough of them passed  *)
(* the verification gates.  T is a record of TraceHarvestLimits; a batch   *)
(* is known by its number, and its dataset by the same number.             *)
(***************************************************************************)
EXTENDS LoopRecords

\* TraceHarvestLimits.__post_init__; minRate is a percentage.
TraceLimits(T) ==
  /\ T.target \in Nat \ {0} /\ T.maxBatches \in Nat \ {0}
  /\ T.minRate \in 0..100
  /\ T.perBatch \in Nat \ {0} /\ T.total \in Nat \ {0}
  /\ T.perBatch <= T.total

\* _validate_frozen_lineage
Harvestable(s) == FrozenLineage(s) /\ s.harness # None

\* _edge_from_snapshot: no candidates; of the current metadata only the model
\* score survives unless the edge names it.
Reach(s, state, stop, meta) ==
  [s EXCEPT !.state = state, !.candCkpt = None, !.candHarness = None,
            !.candScore = None, !.stop = stop,
            !.meta = [meta EXCEPT !.modelScore = s.meta.modelScore]]

\* _budget_abort
TraceAbort(T, s, batch, cost) ==
  << Edge("ABORT", "TRACE_BATCH", batch,
          [Reach(s, "ABORTED", BudgetStop(cost, T.perBatch),
                 [NoMeta EXCEPT !.batch = batch]) EXCEPT !.cost = @ + cost]) >>

\* batch_harvested
BatchHarvested(T, s, batch, cost) ==
  IF ~WithinBudgets(s, cost, T.perBatch, T.total) THEN TraceAbort(T, s, batch, cost)
  ELSE << Edge("CONTINUE", "TRACE_BATCH", batch,
               [Reach(s, "VERIFY_TRACES", "NONE",
                      [NoMeta EXCEPT !.verified = s.meta.verified,
                                     !.batches = s.meta.batches + 1,
                                     !.batch = batch])
                  EXCEPT !.cost = @ + cost]) >>

\* _metadata of a verified batch: the count is cumulative, the dataset is the
\* batch's own.
VerifiedMeta(s, accepted) ==
  [NoMeta EXCEPT !.verified = s.meta.verified + accepted,
                 !.batches = s.meta.batches, !.batch = s.meta.batch,
                 !.dataset = s.meta.batch, !.accepted = accepted]

NextBatch(s, meta) ==
  [Reach(s, "HARVEST_TRACES", "NONE", meta) EXCEPT !.iteration = @ + 1]

BatchLimit(s, meta) ==
  Edge("STOP", "RUN", None, Reach(s, "STOPPED", "MAX_ITERATIONS", meta))

\* A mutant: the run stays in the quarantine.
AfterQuarantineStays(T, step) == step

\* _after_quarantine: the next batch, or the end of the run.
AfterQuarantine(T, step) ==
  LET s == Final(step)
  IN  Append(step, IF s.meta.batches >= T.maxBatches THEN BatchLimit(s, s.meta)
                   ELSE Edge("CONTINUE", "RUN", None, NextBatch(s, s.meta)))

LowAcceptance(T, accepted, raw) == accepted * 100 < T.minRate * raw

\* verification_completed: an empty or poor batch is quarantined, then the
\* target, the batch limit and the next batch, in this order.
VerificationCompleted(T, s, accepted, raw) ==
  LET meta == VerifiedMeta(s, accepted)
      quarantined(on) ==
        << Edge("QUARANTINE", on, s.meta.batch, Reach(s, "QUARANTINED", "NONE", meta)) >>
  IN  IF accepted = 0 THEN AfterQuarantine(T, quarantined("TRACE_BATCH"))
      ELSE IF LowAcceptance(T, accepted, raw) THEN AfterQuarantine(T, quarantined("DATASET"))
      ELSE IF meta.verified >= T.target
      THEN << Edge("CONTINUE", "DATASET", meta.dataset, Reach(s, "TRAIN_MODEL", "NONE", meta)) >>
      ELSE IF meta.batches >= T.maxBatches THEN << BatchLimit(s, meta) >>
      ELSE << Edge("CONTINUE", "DATASET", meta.dataset, NextBatch(s, meta)) >>

=============================================================================
