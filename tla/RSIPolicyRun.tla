---------------------------- MODULE RSIPolicyRun ----------------------------
(***************************************************************************)
(* A run seen by the decision policy alone: each step is one candidate,    *)
(* trained from the active checkpoint, scored and costed by the outside,   *)
(* and decided by RSIPolicy.  No storage, no crash, no review: what the    *)
(* policy promises over a whole run whatever the scores are.               *)
(***************************************************************************)
EXTENDS RSIPolicy

CONSTANTS InitialScore,   \* config.rsi.initial_score
          Scores,         \* benchmark scores an evaluation may report
          Costs           \* what one iteration may cost, teacher and evaluation

ASSUME ObservationAssumption ==
  /\ InitialScore \in Nat
  /\ Scores \subseteq Nat
  /\ Costs \subseteq Nat

VARIABLES snap,    \* the snapshot the run is in
          trials,  \* history: one record per decided candidate
          spent    \* history: what these candidates cost together

vars == <<snap, trials, spent>>

States == {"DIAGNOSE", "STOPPED", "ABORTED", "ROLLED_BACK"}

\* The state bootstrap leaves: iteration 1, the base model active and Peak.
Init ==
  /\ snap = [iteration |-> 1, state |-> "DIAGNOSE", rank |-> 0, at |-> 0,
             active |-> Base, peak |-> Base, score |-> InitialScore,
             cand |-> None, candScore |-> 0, plateau |-> 0, cost |-> 0,
             stop |-> "NONE", meta |-> NoMeta]
  /\ trials = <<>>
  /\ spent = 0

\* The EVALUATE snapshot and the observation of this iteration's candidate.
EvaluateSnapshot(score) ==
  [snap EXCEPT !.state = "EVALUATE", !.cand = snap.iteration, !.candScore = score]

Observation(score, cost) ==
  [ckpt |-> snap.iteration, parent |-> snap.active, iteration |-> snap.iteration,
   score |-> score, cost |-> cost, at |-> snap.iteration]

\* One decided candidate whose primary decision is action.
Decide(action, score, cost) ==
  LET e == EvaluateSnapshot(score)
      c == Observation(score, cost)
  IN  /\ snap.state = "DIAGNOSE"
      /\ ValidInput(e, c)
      /\ PrimaryAction(e, c) = action
      /\ snap' = FinalSnapshot(Evaluate(e, c))
      /\ trials' = Append(trials, [ckpt |-> c.ckpt, parent |-> c.parent,
                                   score |-> score, cost |-> cost,
                                   action |-> action])
      /\ spent' = spent + cost

Promote  == \E score \in Scores, cost \in Costs : Decide("PROMOTE", score, cost)
Reject   == \E score \in Scores, cost \in Costs : Decide("REJECT", score, cost)
Rollback == \E score \in Scores, cost \in Costs : Decide("ROLLBACK", score, cost)
Abort    == \E score \in Scores, cost \in Costs : Decide("ABORT", score, cost)

Next == Promote \/ Reject \/ Rollback \/ Abort

Spec == Init /\ [][Next]_vars

-----------------------------------------------------------------------------

Stops == {"NONE", "PLATEAU", "MAX_ITERATIONS", "REGRESSION_ROLLBACK",
          "PER_ITERATION_BUDGET_EXCEEDED", "TOTAL_BUDGET_EXCEEDED"}

CandidateIds == Nat \cup {None}

\* The snapshots whose state is one of a set.
SnapshotIn(states) ==
  [iteration : Nat, state : states, rank : Nat, at : Nat, active : Nat,
   peak : Nat, score : Nat, cand : CandidateIds, candScore : Nat,
   plateau : Nat, cost : Nat, stop : Stops, meta : {NoMeta}]

TrialType ==
  [ckpt : Nat, parent : Nat, score : Nat, cost : Nat,
   action : {"PROMOTE", "REJECT", "ROLLBACK", "ABORT"}]

\* Every variable has its type (the schema of StateSnapshot).
TypeOK ==
  /\ snap \in SnapshotIn(States)
  /\ trials \in Seq(TrialType)
  /\ spent \in Nat

Promotions == {i \in 1..Len(trials) : trials[i].action = "PROMOTE"}

Latest(p) == p \in Promotions /\ \A q \in Promotions : q <= p

\* The accepted checkpoint is the Peak in every state the policy enters: the
\* next candidate is never trained from a rejected one (_candidate_step).
ActiveIsPeak == snap.active = snap.peak

\* Every candidate is a child of the Peak of its time: its parent is the last
\* checkpoint promoted before it, or the base model.  A rejected, rolled back
\* or aborted candidate is nobody's parent (rsi_policy.py, _candidate_step).
ParentIsEarlierPeak ==
  \A i \in 1..Len(trials) :
    \/ trials[i].parent = Base /\ \A q \in Promotions : q >= i
    \/ \E p \in Promotions : /\ p < i
                             /\ \A q \in Promotions : q < i => q <= p
                             /\ trials[i].parent = trials[p].ckpt

\* In every state the accepted checkpoint is the Peak, and every candidate there
\* ever was is a child of the Peak of its time (rsi_policy.py, _candidate_step).
LineageIsPeak == ActiveIsPeak /\ ParentIsEarlierPeak

\* The Peak is the best accepted score of the whole run, never the latest:
\* every promotion beat all earlier ones by more than MinImprovement.
PeakIsHistoricalBest ==
  /\ \A p \in Promotions :
       /\ trials[p].score > InitialScore + MinImprovement
       /\ \A q \in Promotions : q < p => trials[p].score > trials[q].score + MinImprovement
  /\ \/ Promotions = {} /\ snap.peak = Base /\ snap.score = InitialScore
     \/ \E p \in Promotions : /\ Latest(p)
                              /\ snap.peak = trials[p].ckpt
                              /\ snap.score = trials[p].score

SinceLastPromotion(n) ==
  \/ Promotions = {} /\ n = Len(trials)
  \/ \E p \in Promotions : Latest(p) /\ n = Len(trials) - p

\* A run that goes on has patience and iterations left, and one that stopped had
\* run out of the one it names: of PlateauPatience candidates in a row without a
\* promotion, or of iterations with some patience left (_advance).
PatienceAndLimits ==
  /\ snap.state # "ABORTED" => SinceLastPromotion(snap.plateau)
  /\ snap.state = "DIAGNOSE" => /\ Len(trials) < MaxIterations
                                /\ snap.plateau < PlateauPatience
  /\ snap.state = "STOPPED" => \/ /\ snap.stop = "PLATEAU"
                                  /\ snap.plateau = PlateauPatience
                               \/ /\ snap.stop = "MAX_ITERATIONS"
                                  /\ Len(trials) = MaxIterations
                                  /\ snap.plateau < PlateauPatience

Overspent(i) == trials[i].cost > PerIterationBudget

\* The run is charged for every candidate once.  The candidate that crosses a
\* budget is the last one and aborts the run, and a run is aborted for nothing
\* else: the budget it names was crossed, never only reached
\* (_abort_for_budget; the budget of the iteration outranks the total one).
BudgetsEndRun ==
  /\ snap.cost = spent
  /\ \A i \in 1..Len(trials) : Overspent(i) => i = Len(trials) /\ snap.state = "ABORTED"
  /\ spent > TotalBudget => snap.state = "ABORTED"
  /\ snap.state = "ABORTED" =>
       \/ snap.stop = "PER_ITERATION_BUDGET_EXCEEDED" /\ Overspent(Len(trials))
       \/ /\ snap.stop = "TOTAL_BUDGET_EXCEEDED"
          /\ ~Overspent(Len(trials)) /\ spent > TotalBudget

\* Candidate i scored below the Peak of its time, the best of the initial score
\* and the promotions before it, by more than is tolerated.
Regressed(i) ==
  \/ InitialScore - trials[i].score > RegressionTolerance
  \/ \E p \in Promotions : /\ p < i
                           /\ trials[p].score - trials[i].score > RegressionTolerance

\* A candidate that regressed is the last one, and a run is rolled back for
\* nothing else (the regression branch of evaluate, which the budgets outrank).
RegressionEndsRun ==
  /\ \A i \in 1..Len(trials) :
       Regressed(i) => i = Len(trials) /\ snap.state \in {"ROLLED_BACK", "ABORTED"}
  /\ snap.state = "ROLLED_BACK" =>
       Regressed(Len(trials)) /\ snap.stop = "REGRESSION_ROLLBACK"

\* A run ends with the candidate that gives it a reason to, and only then: its
\* patience or its iterations are used up, a budget is crossed, or a candidate
\* regressed.  It names the reason that holds (evaluate, _advance).
RunEndsOnTime == PatienceAndLimits /\ BudgetsEndRun /\ RegressionEndsRun

\* No step lowers the Peak, and only an improvement beyond MinImprovement
\* replaces it (evaluate's strict comparison).
PeakOnlyImproves ==
  [][/\ snap'.score >= snap.score
     /\ snap'.peak # snap.peak => snap'.score > snap.score + MinImprovement]_vars

=============================================================================
