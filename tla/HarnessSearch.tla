---------------------------- MODULE HarnessSearch ----------------------------
(***************************************************************************)
(* The Harness outer loop of harness/outer_loop/policy.py: mutate,         *)
(* validate and evaluate candidates under a frozen model, accept a strict  *)
(* improvement, and hand over to trace harvesting when a plateau or the    *)
(* iteration limit is reached.  Every operator takes the limits L, a       *)
(* record of HarnessOuterLimits.                                           *)
(***************************************************************************)
EXTENDS LoopRecords

\* HarnessOuterLimits.__post_init__
OuterLimits(L) ==
  /\ L.maxIterations \in Nat \ {0} /\ L.patience \in Nat \ {0}
  /\ L.minImprovement \in Nat
  /\ L.perIteration \in Nat \ {0} /\ L.total \in Nat \ {0}
  /\ L.perIteration <= L.total
  /\ L.approval \in BOOLEAN

\* _edge: no candidate checkpoint, and fresh metadata.
Enter(s, state) ==
  [s EXCEPT !.state = state, !.candCkpt = None, !.stop = "NONE", !.meta = NoMeta]

Without(s) == [s EXCEPT !.candHarness = None, !.candScore = None]

\* start: the accepted model is frozen and the first attempt begins.
OuterStart(cycle, ckpt, harness, score, cost) ==
  LET frozen == [NoSnapshot EXCEPT !.state = "FREEZE_MODEL", !.cycle = cycle,
                                   !.ckpt = ckpt, !.peak = ckpt,
                                   !.harness = harness, !.score = score,
                                   !.cost = cost]
  IN  << Edge("CONTINUE", "CHECKPOINT", ckpt, frozen),
         Edge("CONTINUE", "HARNESS", harness,
              [Enter(frozen, "MUTATE_HARNESS") EXCEPT !.iteration = 1]) >>

\* candidate_created refuses anything else.
MayCreate(s, parent, candidate) ==
  /\ s.state = "MUTATE_HARNESS" /\ FrozenLineage(s)
  /\ s.harness # None /\ parent = s.harness /\ candidate # s.harness

CandidateCreated(s, candidate) ==
  << Edge("CONTINUE", "HARNESS", candidate,
          [Enter(s, "VALIDATE_HARNESS") EXCEPT !.candHarness = candidate,
                                               !.candScore = None]) >>

\* A mutant: patience counts one more rejection.
AdvanceLate(L, step) ==
  LET s == Final(step)
  IN  Append(step,
        IF s.plateau > L.patience \/ s.iteration >= L.maxIterations
        THEN Edge("CONTINUE", "RUN", None, Without(Enter(s, "HARVEST_TRACES")))
        ELSE Edge("CONTINUE", "HARNESS", s.harness,
                  [Without(Enter(s, "MUTATE_HARNESS")) EXCEPT !.iteration = @ + 1]))

\* _advance: after ACCEPT or REJECT, trace harvesting or the next attempt.
Advance(L, step) ==
  LET s == Final(step)
  IN  Append(step,
        IF s.plateau >= L.patience \/ s.iteration >= L.maxIterations
        THEN Edge("CONTINUE", "RUN", None, Without(Enter(s, "HARVEST_TRACES")))
        ELSE Edge("CONTINUE", "HARNESS", s.harness,
                  [Without(Enter(s, "MUTATE_HARNESS")) EXCEPT !.iteration = @ + 1]))

\* The candidate becomes the active Harness; its score is the one to beat.
Accept(s, score) ==
  Edge("ACCEPT", "HARNESS", s.candHarness,
       [Enter(s, "ACCEPT_HARNESS") EXCEPT !.harness = s.candHarness,
                                          !.candScore = score,
                                          !.score = score, !.plateau = 0])

Reject(s, score) ==
  Edge("REJECT", "HARNESS", s.candHarness,
       [Enter(s, "REJECT_HARNESS") EXCEPT !.candScore = score, !.plateau = @ + 1])

\* validation_completed
ValidationCompleted(L, s, valid) ==
  IF valid
  THEN << Edge("CONTINUE", "HARNESS", s.candHarness,
               [Enter(s, "EVALUATE_HARNESS") EXCEPT !.candScore = None]) >>
  ELSE Advance(L, << Reject(s, None) >>)

\* _budget_abort
OuterAbort(L, s, score, cost) ==
  << Edge("ABORT", "HARNESS", s.candHarness,
          [Enter(s, "ABORTED") EXCEPT !.candScore = score, !.cost = @ + cost,
                                      !.stop = BudgetStop(cost, L.perIteration)]) >>

HarnessImproves(L, s, score) == score > s.score + L.minImprovement

\* evaluation_completed: budgets first, then the strict improvement, then the
\* reviewer's authority.
OuterEvaluation(L, s, score, cost) ==
  LET paid == [s EXCEPT !.cost = @ + cost]
  IN  IF ~WithinBudgets(s, cost, L.perIteration, L.total)
      THEN OuterAbort(L, s, score, cost)
      ELSE IF ~HarnessImproves(L, s, score)
      THEN Advance(L, << Reject(paid, score) >>)
      ELSE IF L.approval
      THEN << Edge("REQUEST_APPROVAL", "HARNESS", s.candHarness,
                   [Enter(paid, "HARNESS_REVIEW_PENDING") EXCEPT !.candScore = score]) >>
      ELSE Advance(L, << Accept(paid, score) >>)

\* review_completed: an approved candidate is accepted with the score it was
\* evaluated at, a denied one is rejected.
HarnessReview(L, s, approved) ==
  Advance(L, << IF approved THEN Accept(s, s.candScore) ELSE Reject(s, s.candScore) >>)

=============================================================================
