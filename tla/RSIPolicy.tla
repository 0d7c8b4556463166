------------------------------ MODULE RSIPolicy ------------------------------
(***************************************************************************)
(* The candidate decision policy of orchestration/rsi_policy.py: a pure    *)
(* function from an EVALUATE snapshot and one evaluated candidate to the   *)
(* ordered snapshots of the decision.  Scores and costs are integers in    *)
(* units so small that the code's _EPSILON (1e-12) lies below one unit;    *)
(* the code's exact-boundary behaviour (equality is allowed for a budget,  *)
(* is no improvement for a score) is kept.                                 *)
(*                                                                         *)
(* Checkpoints are numbers: Base is the configured initial model, the      *)
(* candidate trained in iteration i is i (the trainer derives its id from  *)
(* the iteration and the dataset hash), None is Python's None.             *)
(***************************************************************************)
EXTENDS Integers, Sequences

CONSTANTS MaxIterations,        \* RSIPolicyLimits.max_iterations
          PlateauPatience,      \* RSIPolicyLimits.plateau_patience
          MinImprovement,       \* RSIPolicyLimits.min_improvement
          RegressionTolerance,  \* RSIPolicyLimits.regression_tolerance
          PerIterationBudget,   \* RSIPolicyLimits.per_iteration_budget_usd
          TotalBudget           \* RSIPolicyLimits.total_budget_usd

\* RSIPolicyLimits.__post_init__
ASSUME LimitsAssumption ==
  /\ MaxIterations \in Nat \ {0}
  /\ PlateauPatience \in Nat \ {0}
  /\ MinImprovement \in Nat
  /\ RegressionTolerance \in Nat
  /\ PerIterationBudget \in Nat \ {0}
  /\ TotalBudget \in Nat \ {0}
  /\ PerIterationBudget <= TotalBudget

None == -1
Base == 0

\* _TERMINAL_STATES of the controller; the policy itself ends in the last three.
TerminalStates == {"COMPLETED", "STOPPED", "ABORTED", "ROLLED_BACK"}

\* Snapshot metadata the controller reads back; policy snapshots carry none of it.
NoMeta == [ckpt |-> None, parent |-> None, score |-> 0, spent |-> 0,
           source |-> 0, tag |-> "none", action |-> "NONE"]

TargetState == [PROMOTE |-> "PROMOTED", REJECT |-> "REJECTED",
                ROLLBACK |-> "ROLLED_BACK", ABORT |-> "ABORTED"]

\* Rank of a policy snapshot id among ids of the same time and iteration:
\* "snapshot-rsi-<i>-<phase>" sorts by its phase.  A controller id,
\* "snapshot-<hex digest>", sorts below all of these: rank 0.
PhaseRank == [ABORTED |-> 1, DIAGNOSE |-> 2, PROMOTED |-> 3, REJECTED |-> 4,
              ROLLED_BACK |-> 5, STOPPED |-> 6]

-----------------------------------------------------------------------------

\* _validate_input: what evaluate refuses to decide about.
ValidInput(s, c) ==
  /\ s.state = "EVALUATE"
  /\ s.iteration = c.iteration
  /\ s.active = s.peak
  /\ c.parent = s.active
  /\ s.cand \in {None, c.ckpt}

WithinIteration(c) == c.cost <= PerIterationBudget

\* A mutant: the total budget is compared with this iteration's cost alone.
WithinTotalThisIteration(s, c) == c.cost <= TotalBudget

\* A mutant: a total budget that is reached counts as crossed.
WithinTotalStrictly(s, c) == s.cost + c.cost < TotalBudget

WithinTotal(s, c) == s.cost + c.cost <= TotalBudget

\* A mutant: equality counts as an improvement.
ImprovesWeakly(s, c) == c.score >= s.score + MinImprovement

Improves(s, c) == c.score > s.score + MinImprovement

Regresses(s, c) == s.score - c.score > RegressionTolerance

\* The precedence of evaluate: budgets, improvement, regression, rejection.
PrimaryAction(s, c) ==
  IF ~(WithinIteration(c) /\ WithinTotal(s, c)) THEN "ABORT"
  ELSE IF Improves(s, c) THEN "PROMOTE"
  ELSE IF Regresses(s, c) THEN "ROLLBACK"
  ELSE "REJECT"

PrimaryStop(c, action) ==
  CASE action = "ABORT" /\ ~WithinIteration(c) -> "PER_ITERATION_BUDGET_EXCEEDED"
    [] action = "ABORT" /\ WithinIteration(c)  -> "TOTAL_BUDGET_EXCEEDED"
    [] action = "ROLLBACK"                     -> "REGRESSION_ROLLBACK"
    [] action \in {"PROMOTE", "REJECT"}        -> "NONE"

\* A mutant: a rejected candidate becomes active and Peak.
CandidateStepAdoptsLatest(s, c, action) ==
  [s EXCEPT !.state     = TargetState[action],
            !.rank      = PhaseRank[TargetState[action]],
            !.at        = c.at,
            !.active    = IF action \in {"PROMOTE", "REJECT"} THEN c.ckpt ELSE @,
            !.peak      = IF action \in {"PROMOTE", "REJECT"} THEN c.ckpt ELSE @,
            !.score     = IF action \in {"PROMOTE", "REJECT"} THEN c.score ELSE @,
            !.cand      = c.ckpt,
            !.candScore = c.score,
            !.plateau   = IF action = "PROMOTE" THEN 0
                          ELSE IF action = "ABORT" THEN @ ELSE @ + 1,
            !.cost      = @ + c.cost,
            !.stop      = PrimaryStop(c, action),
            !.meta      = NoMeta]

\* _candidate_step: the snapshot the primary decision enters.
CandidateStep(s, c, action) ==
  [s EXCEPT !.state     = TargetState[action],
            !.rank      = PhaseRank[TargetState[action]],
            !.at        = c.at,
            !.active    = IF action = "PROMOTE" THEN c.ckpt ELSE @,
            !.peak      = IF action = "PROMOTE" THEN c.ckpt ELSE @,
            !.score     = IF action = "PROMOTE" THEN c.score ELSE @,
            !.cand      = c.ckpt,
            !.candScore = c.score,
            !.plateau   = IF action = "PROMOTE" THEN 0
                          ELSE IF action = "ABORT" THEN @ ELSE @ + 1,
            !.cost      = @ + c.cost,
            !.stop      = PrimaryStop(c, action),
            !.meta      = NoMeta]

\* A mutant: no RUN decision follows the candidate's.
AdvanceSkipped(s) == s

\* _advance and _append_run_decision: the RUN decision after a promotion or a
\* rejection.  A plateau outranks the iteration limit.
Advance(s) ==
  LET halt == s.plateau >= PlateauPatience \/ s.iteration >= MaxIterations
      next == IF halt THEN "STOPPED" ELSE "DIAGNOSE"
  IN  [s EXCEPT !.state     = next,
                !.rank      = PhaseRank[next],
                !.iteration = IF halt THEN @ ELSE @ + 1,
                !.cand      = IF halt THEN @ ELSE None,
                !.candScore = IF halt THEN @ ELSE 0,
                !.stop      = IF s.plateau >= PlateauPatience THEN "PLATEAU"
                              ELSE IF halt THEN "MAX_ITERATIONS" ELSE "NONE"]

\* evaluate: the snapshots of an RSIPolicyStep in order.
Evaluate(s, c) ==
  LET action  == PrimaryAction(s, c)
      primary == CandidateStep(s, c, action)
  IN  IF action \in {"PROMOTE", "REJECT"} THEN <<primary, Advance(primary)>>
                                          ELSE <<primary>>

FinalSnapshot(step) == step[Len(step)]

=============================================================================
