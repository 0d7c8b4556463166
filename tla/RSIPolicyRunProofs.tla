------------------------- MODULE RSIPolicyRunProofs -------------------------
(***************************************************************************)
(* RSIPolicyRun for every choice of the limits, the scores and the costs.  *)
(***************************************************************************)
EXTENDS RSIPolicyRun, TLAPS

\* The candidates decided so far and the iteration count agree.
Counting ==
  snap.iteration = IF snap.state = "DIAGNOSE" THEN Len(trials) + 1 ELSE Len(trials)

\* A run that goes on has no reason to have stopped.
Running == snap.state = "DIAGNOSE" => snap.stop = "NONE"

\* The inductive invariant.
IInv ==
  /\ TypeOK
  /\ ActiveIsPeak
  /\ Counting
  /\ Running
  /\ PatienceAndLimits
  /\ PeakIsHistoricalBest
  /\ ParentIsEarlierPeak
  /\ BudgetsEndRun
  /\ RegressionEndsRun

-----------------------------------------------------------------------------

Actions == {"PROMOTE", "REJECT", "ROLLBACK", "ABORT"}

\* The states a snapshot of a decision may be in on the way.
StageStates == {"DIAGNOSE", "EVALUATE", "PROMOTED", "REJECTED", "ROLLED_BACK",
                "ABORTED", "STOPPED"}

StageType == SnapshotIn(StageStates)

\* A snapshot whose state is one of a smaller set has all its fields.
LEMMA Widen == ASSUME NEW S, NEW T, NEW s \in SnapshotIn(S), s.state \in T
               PROVE  s \in SnapshotIn(T)
  BY DEF SnapshotIn

\* The fields of a snapshot have their types.
LEMMA FieldTypes ==
  ASSUME NEW S, NEW s \in SnapshotIn(S)
  PROVE  /\ s.iteration \in Nat /\ s.state \in S /\ s.active \in Nat /\ s.peak \in Nat
         /\ s.score \in Nat /\ s.cand \in CandidateIds /\ s.candScore \in Nat
         /\ s.plateau \in Nat /\ s.cost \in Nat /\ s.stop \in Stops
  BY DEF SnapshotIn

\* _candidate_step, field by field.
LEMMA CandidateFields ==
  ASSUME NEW s \in StageType, NEW action \in Actions,
         NEW c, c.ckpt \in Nat, c.score \in Nat, c.cost \in Nat, c.at \in Nat
  PROVE  LET e == CandidateStep(s, c, action)
             adopts == action = "PROMOTE"
         IN  /\ e \in StageType
             /\ e.state = TargetState[action]
             /\ e.iteration = s.iteration
             /\ e.active = IF adopts THEN c.ckpt ELSE s.active
             /\ e.peak = IF adopts THEN c.ckpt ELSE s.peak
             /\ e.score = IF adopts THEN c.score ELSE s.score
             /\ e.plateau = IF adopts THEN 0
                            ELSE IF action = "ABORT" THEN s.plateau ELSE s.plateau + 1
             /\ e.cost = s.cost + c.cost
             /\ e.stop = PrimaryStop(c, action)
<1> DEFINE st == TargetState[action]
           r  == PhaseRank[st]
           a  == IF action = "PROMOTE" THEN c.ckpt ELSE s.active
           p  == IF action = "PROMOTE" THEN c.ckpt ELSE s.peak
           sc == IF action = "PROMOTE" THEN c.score ELSE s.score
           pl == IF action = "PROMOTE" THEN 0
                 ELSE IF action = "ABORT" THEN s.plateau ELSE s.plateau + 1
           co == s.cost + c.cost
           sp == PrimaryStop(c, action)
           at == c.at
           ck == c.ckpt
           cs == c.score
<1>1. /\ s.active \in Nat /\ s.peak \in Nat /\ s.score \in Nat /\ s.plateau \in Nat
      /\ s.cost \in Nat
  BY FieldTypes DEF StageType
<1>2. st \in {"PROMOTED", "REJECTED", "ROLLED_BACK", "ABORTED"}
  BY DEF TargetState, Actions
<1>3. st \in StageStates /\ r \in Nat
  BY <1>2 DEF StageStates, PhaseRank
<1>4. a \in Nat /\ p \in Nat /\ sc \in Nat /\ pl \in Nat /\ co \in Nat
  BY <1>1
<1>5. sp \in Stops
  BY DEF PrimaryStop, Actions, Stops
<1>6. ck \in CandidateIds /\ at \in Nat /\ cs \in Nat
  BY DEF CandidateIds
<1>7. CandidateStep(s, c, action) =
        [s EXCEPT !.state = st, !.rank = r, !.at = at, !.active = a, !.peak = p,
                  !.score = sc, !.cand = ck, !.candScore = cs, !.plateau = pl,
                  !.cost = co, !.stop = sp, !.meta = NoMeta]
  BY DEF CandidateStep
<1> HIDE DEF st, r, a, p, sc, pl, co, sp, at, ck, cs
<1> DEFINE e == [s EXCEPT !.state = st, !.rank = r, !.at = at, !.active = a, !.peak = p,
                          !.score = sc, !.cand = ck, !.candScore = cs, !.plateau = pl,
                          !.cost = co, !.stop = sp, !.meta = NoMeta]
<1>8. e \in StageType
  BY <1>3, <1>4, <1>5, <1>6 DEF StageType, SnapshotIn
<1>9. /\ e.state = st /\ e.active = a /\ e.peak = p /\ e.score = sc
      /\ e.plateau = pl /\ e.cost = co /\ e.stop = sp /\ e.iteration = s.iteration
  BY DEF StageType, SnapshotIn
<1> QED
  BY <1>7, <1>8, <1>9 DEF st, a, p, sc, pl, co, sp

\* _advance, field by field.
LEMMA AdvanceFields ==
  ASSUME NEW s \in StageType
  PROVE  LET e == Advance(s)
             halts == s.plateau >= PlateauPatience \/ s.iteration >= MaxIterations
         IN  /\ e \in SnapshotIn(States)
             /\ e.state = IF halts THEN "STOPPED" ELSE "DIAGNOSE"
             /\ e.iteration = IF halts THEN s.iteration ELSE s.iteration + 1
             /\ e.active = s.active /\ e.peak = s.peak /\ e.score = s.score
             /\ e.plateau = s.plateau /\ e.cost = s.cost
             /\ e.stop = IF s.plateau >= PlateauPatience THEN "PLATEAU"
                         ELSE IF halts THEN "MAX_ITERATIONS" ELSE "NONE"
<1> DEFINE halts == s.plateau >= PlateauPatience \/ s.iteration >= MaxIterations
           st == IF halts THEN "STOPPED" ELSE "DIAGNOSE"
           r  == PhaseRank[st]
           i  == IF halts THEN s.iteration ELSE s.iteration + 1
           cd == IF halts THEN s.cand ELSE None
           cs == IF halts THEN s.candScore ELSE 0
           sp == IF s.plateau >= PlateauPatience THEN "PLATEAU"
                 ELSE IF halts THEN "MAX_ITERATIONS" ELSE "NONE"
<1> HIDE DEF halts
<1>1. s.iteration \in Nat /\ s.cand \in CandidateIds /\ s.candScore \in Nat
  BY FieldTypes DEF StageType
<1>2. st \in States /\ i \in Nat /\ cs \in Nat /\ sp \in Stops
  BY <1>1 DEF States, Stops
<1>3. r \in Nat
  BY DEF PhaseRank
<1>4. cd \in CandidateIds
  BY <1>1 DEF CandidateIds
<1>5. Advance(s) = [s EXCEPT !.state = st, !.rank = r, !.iteration = i, !.cand = cd,
                             !.candScore = cs, !.stop = sp]
  BY DEF Advance, halts
<1> HIDE DEF st, r, i, cd, cs, sp
<1> DEFINE e == [s EXCEPT !.state = st, !.rank = r, !.iteration = i, !.cand = cd,
                          !.candScore = cs, !.stop = sp]
<1>6. e \in SnapshotIn(States)
  BY <1>2, <1>3, <1>4 DEF StageType, SnapshotIn
<1>7. /\ e.state = st /\ e.iteration = i /\ e.stop = sp
      /\ e.active = s.active /\ e.peak = s.peak /\ e.score = s.score
      /\ e.plateau = s.plateau /\ e.cost = s.cost
  BY DEF StageType, SnapshotIn
<1> QED
  BY <1>5, <1>6, <1>7 DEF halts, st, i, sp

\* What evaluate answers to a candidate of the current iteration, action by
\* action: the snapshot the run is in afterwards.
LEMMA Outcome ==
  ASSUME TypeOK, NEW action \in {"PROMOTE", "REJECT", "ROLLBACK", "ABORT"},
         NEW score \in Nat, NEW cost \in Nat, Decide(action, score, cost)
  PROVE  LET e == CandidateStep(EvaluateSnapshot(score), Observation(score, cost), action)
         IN  snap' = IF action \in {"PROMOTE", "REJECT"} THEN Advance(e) ELSE e
<1> DEFINE s == EvaluateSnapshot(score)
           c == Observation(score, cost)
           e == CandidateStep(s, c, action)
<1>1. snap' = FinalSnapshot(Evaluate(s, c)) /\ PrimaryAction(s, c) = action
  BY DEF Decide
<1>2. CASE action \in {"PROMOTE", "REJECT"}
  <2>1. Evaluate(s, c) = <<e, Advance(e)>>
    BY <1>1, <1>2 DEF Evaluate
  <2> QED
    BY <1>1, <1>2, <2>1 DEF FinalSnapshot
<1>3. CASE action \notin {"PROMOTE", "REJECT"}
  <2>1. Evaluate(s, c) = <<e>>
    BY <1>1, <1>3 DEF Evaluate
  <2> QED
    BY <1>1, <1>3, <2>1 DEF FinalSnapshot
<1> QED
  BY <1>2, <1>3

\* A decision, field by field.
LEMMA OutcomeFields ==
  ASSUME TypeOK, NEW action \in Actions, NEW score \in Nat, NEW cost \in Nat,
         Decide(action, score, cost)
  PROVE  LET adopts  == action = "PROMOTE"
             plateau == IF adopts THEN 0
                        ELSE IF action = "ABORT" THEN snap.plateau ELSE snap.plateau + 1
             goesOn  == action \in {"PROMOTE", "REJECT"}
             halts   == plateau >= PlateauPatience \/ snap.iteration >= MaxIterations
         IN  /\ snap.state = "DIAGNOSE"
             /\ snap' \in SnapshotIn(States)
             /\ snap'.state = IF goesOn THEN IF halts THEN "STOPPED" ELSE "DIAGNOSE"
                              ELSE TargetState[action]
             /\ snap'.iteration = IF goesOn /\ ~halts THEN snap.iteration + 1
                                  ELSE snap.iteration
             /\ snap'.active = IF adopts THEN snap.iteration ELSE snap.active
             /\ snap'.peak = IF adopts THEN snap.iteration ELSE snap.peak
             /\ snap'.score = IF adopts THEN score ELSE snap.score
             /\ snap'.plateau = plateau
             /\ snap'.cost = snap.cost + cost
             /\ snap'.stop = IF goesOn
                             THEN IF plateau >= PlateauPatience THEN "PLATEAU"
                                  ELSE IF halts THEN "MAX_ITERATIONS" ELSE "NONE"
                             ELSE PrimaryStop(Observation(score, cost), action)
<1> DEFINE s == EvaluateSnapshot(score)
           c == Observation(score, cost)
           e == CandidateStep(s, c, action)
<1>1. snap.state = "DIAGNOSE" /\ snap \in SnapshotIn(States)
  BY DEF Decide, TypeOK
<1>2. /\ snap.iteration \in Nat /\ snap.active \in Nat /\ snap.peak \in Nat
      /\ snap.score \in Nat /\ snap.plateau \in Nat /\ snap.cost \in Nat
  BY <1>1, FieldTypes
<1>3. /\ c.ckpt = snap.iteration /\ c.score = score /\ c.cost = cost /\ c.at = snap.iteration
  BY DEF Observation
<1>4. s \in StageType
  <2> DEFINE k == snap.iteration
  <2>1. k \in CandidateIds
    BY <1>2 DEF CandidateIds
  <2>2. "EVALUATE" \in StageStates
    BY DEF StageStates
  <2>3. s = [snap EXCEPT !.state = "EVALUATE", !.cand = k, !.candScore = score]
    BY DEF EvaluateSnapshot
  <2> HIDE DEF k, s
  <2> QED
    BY <1>1, <2>1, <2>2, <2>3 DEF StageType, SnapshotIn
<1>5. /\ s.iteration = snap.iteration /\ s.active = snap.active /\ s.peak = snap.peak
      /\ s.score = snap.score /\ s.plateau = snap.plateau /\ s.cost = snap.cost
  BY <1>1 DEF EvaluateSnapshot, SnapshotIn
<1>6. snap' = IF action \in {"PROMOTE", "REJECT"} THEN Advance(e) ELSE e
  BY Outcome DEF Actions
<1> HIDE DEF s, c
<1>7. /\ e \in StageType
      /\ e.state = TargetState[action]
      /\ e.iteration = s.iteration
      /\ e.active = IF action = "PROMOTE" THEN c.ckpt ELSE s.active
      /\ e.peak = IF action = "PROMOTE" THEN c.ckpt ELSE s.peak
      /\ e.score = IF action = "PROMOTE" THEN c.score ELSE s.score
      /\ e.plateau = IF action = "PROMOTE" THEN 0
                     ELSE IF action = "ABORT" THEN s.plateau ELSE s.plateau + 1
      /\ e.cost = s.cost + c.cost
      /\ e.stop = PrimaryStop(c, action)
  BY <1>2, <1>3, <1>4, CandidateFields
<1> HIDE DEF e
<1>8. CASE action \in {"PROMOTE", "REJECT"}
  <2>1. snap' = Advance(e)
    BY <1>6, <1>8
  <2> DEFINE f == Advance(e)
  <2>2. /\ f \in SnapshotIn(States)
        /\ f.state = IF e.plateau >= PlateauPatience \/ e.iteration >= MaxIterations
                     THEN "STOPPED" ELSE "DIAGNOSE"
        /\ f.iteration = IF e.plateau >= PlateauPatience \/ e.iteration >= MaxIterations
                         THEN e.iteration ELSE e.iteration + 1
        /\ f.active = e.active /\ f.peak = e.peak /\ f.score = e.score
        /\ f.plateau = e.plateau /\ f.cost = e.cost
        /\ f.stop = IF e.plateau >= PlateauPatience THEN "PLATEAU"
                    ELSE IF e.plateau >= PlateauPatience \/ e.iteration >= MaxIterations
                         THEN "MAX_ITERATIONS" ELSE "NONE"
    BY <1>7, AdvanceFields
  <2> HIDE DEF f
  <2> QED
    BY <1>1, <1>3, <1>5, <1>7, <1>8, <2>1, <2>2 DEF f
<1>9. CASE action \in {"ROLLBACK", "ABORT"}
  <2>1. snap' = e
    BY <1>6, <1>9
  <2>2. e.state \in States
    BY <1>7, <1>9 DEF States, TargetState
  <2>3. e \in SnapshotIn(States)
    BY <1>7, <2>2, Widen DEF StageType
  <2> QED
    BY <1>1, <1>3, <1>5, <1>7, <1>9, <2>1, <2>3 DEF c
<1> QED
  BY <1>8, <1>9 DEF Actions

\* The action evaluate chose says what the candidate was.
LEMMA ActionMeans ==
  ASSUME NEW action \in Actions, NEW score \in Nat, NEW cost \in Nat,
         Decide(action, score, cost), TypeOK
  PROVE  /\ action # "ABORT" => /\ cost <= PerIterationBudget
                                /\ snap.cost + cost <= TotalBudget
         /\ action = "ABORT" => \/ ~(cost <= PerIterationBudget)
                                \/ ~(snap.cost + cost <= TotalBudget)
         /\ action = "PROMOTE" => score > snap.score + MinImprovement
         /\ action = "ROLLBACK" => snap.score - score > RegressionTolerance
         /\ action = "REJECT" => ~(snap.score - score > RegressionTolerance)
<1>1. /\ Observation(score, cost).score = score /\ Observation(score, cost).cost = cost
  BY DEF Observation
<1>2. /\ EvaluateSnapshot(score).score = snap.score
      /\ EvaluateSnapshot(score).cost = snap.cost
  BY DEF EvaluateSnapshot, TypeOK, SnapshotIn
<1>3. PrimaryAction(EvaluateSnapshot(score), Observation(score, cost)) = action
  BY DEF Decide
<1> QED
  BY <1>1, <1>2, <1>3 DEF PrimaryAction, WithinIteration, WithinTotal, Improves, Regresses,
                           Actions

\* What an aborted or rolled back run names.
LEMMA StopMeans ==
  ASSUME NEW score \in Nat, NEW cost \in Nat
  PROVE  /\ PrimaryStop(Observation(score, cost), "ABORT") =
              IF cost <= PerIterationBudget THEN "TOTAL_BUDGET_EXCEEDED"
              ELSE "PER_ITERATION_BUDGET_EXCEEDED"
         /\ PrimaryStop(Observation(score, cost), "ROLLBACK") = "REGRESSION_ROLLBACK"
<1>1. Observation(score, cost).cost = cost
  BY DEF Observation
<1> QED
  BY <1>1 DEF PrimaryStop, WithinIteration

\* The Peak's score is the best of the initial score and the promotions.
LEMMA PeakIsBest ==
  ASSUME TypeOK, PeakIsHistoricalBest
  PROVE  /\ snap.score >= InitialScore
         /\ \A p \in Promotions : trials[p].score <= snap.score
         /\ \/ snap.score = InitialScore
            \/ \E p \in Promotions : snap.score = trials[p].score
<1>1. MinImprovement \in Nat /\ InitialScore \in Nat
  BY LimitsAssumption, ObservationAssumption
<1>2. Len(trials) \in Nat /\ \A i \in 1..Len(trials) : trials[i] \in TrialType
  BY DEF TypeOK
<1>3. \A p \in Promotions : p \in Nat /\ trials[p].score \in Nat
  <2>1. \A t \in TrialType : t.score \in Nat
    BY DEF TrialType
  <2> QED
    BY <1>2, <2>1 DEF Promotions
<1>4. snap.score \in Nat
  BY FieldTypes DEF TypeOK
<1> QED
  BY <1>1, <1>3, <1>4 DEF PeakIsHistoricalBest, Latest

\* The history grows by the decided candidate.
LEMMA TrialsGrow ==
  ASSUME TypeOK, Counting, NEW action \in Actions, NEW score \in Nat, NEW cost \in Nat,
         Decide(action, score, cost)
  PROVE  LET n == Len(trials) + 1
         IN  /\ n \in Nat /\ n = snap.iteration
             /\ trials' \in Seq(TrialType) /\ Len(trials') = n
             /\ \A i \in 1..Len(trials) : trials'[i] = trials[i]
             /\ trials'[n].ckpt = n /\ trials'[n].parent = snap.active
             /\ trials'[n].score = score /\ trials'[n].cost = cost
             /\ trials'[n].action = action
             /\ Promotions' = IF action = "PROMOTE" THEN Promotions \cup {n} ELSE Promotions
<1> DEFINE r == [ckpt |-> snap.iteration, parent |-> snap.active, score |-> score,
                 cost |-> cost, action |-> action]
<1>1. snap.state = "DIAGNOSE" /\ trials' = Append(trials, r)
  BY DEF Decide, Observation
<1>2. snap.iteration \in Nat /\ snap.active \in Nat
  BY FieldTypes DEF TypeOK
<1>3. r \in TrialType
  BY <1>2 DEF TrialType, Actions
<1>4. trials \in Seq(TrialType) /\ Len(trials) \in Nat
  BY DEF TypeOK
<1>5. snap.iteration = Len(trials) + 1
  BY <1>1 DEF Counting
<1>6. /\ r.ckpt = snap.iteration /\ r.parent = snap.active /\ r.score = score
      /\ r.cost = cost /\ r.action = action
  OBVIOUS
<1> HIDE DEF r
<1>7. /\ trials' \in Seq(TrialType) /\ Len(trials') = Len(trials) + 1
      /\ \A i \in 1..Len(trials) : trials'[i] = trials[i]
      /\ trials'[Len(trials) + 1] = r
  BY <1>1, <1>3, <1>4
<1>8. Promotions' = IF action = "PROMOTE" THEN Promotions \cup {Len(trials) + 1}
                    ELSE Promotions
  BY <1>4, <1>6, <1>7 DEF Promotions
<1> QED
  BY <1>4, <1>5, <1>6, <1>7, <1>8

-----------------------------------------------------------------------------

\* What the initial state establishes.
LEMMA InitIInv == Init => IInv
<1> SUFFICES ASSUME Init PROVE IInv
  OBVIOUS
<1>1. /\ snap.iteration = 1 /\ snap.state = "DIAGNOSE" /\ snap.active = Base
      /\ snap.peak = Base /\ snap.score = InitialScore /\ snap.plateau = 0
      /\ snap.cost = 0 /\ snap.stop = "NONE"
  BY DEF Init
<1>2. trials = <<>> /\ Len(trials) = 0 /\ Promotions = {}
  BY DEF Init, Promotions
<1>3. TypeOK
  <2>1. "DIAGNOSE" \in States /\ "NONE" \in Stops /\ None \in CandidateIds
    BY DEF States, Stops, CandidateIds
  <2>2. Base \in Nat /\ InitialScore \in Nat /\ trials \in Seq(TrialType)
    BY <1>2, ObservationAssumption DEF Base
  <2> QED
    BY <2>1, <2>2 DEF Init, TypeOK, SnapshotIn
<1>4. ActiveIsPeak /\ Counting /\ Running
  BY <1>1, <1>2 DEF ActiveIsPeak, Counting, Running
<1>5. PatienceAndLimits
  BY <1>1, <1>2, LimitsAssumption DEF PatienceAndLimits, SinceLastPromotion
<1>6. PeakIsHistoricalBest /\ ParentIsEarlierPeak
  BY <1>1, <1>2 DEF PeakIsHistoricalBest, ParentIsEarlierPeak
<1>7. BudgetsEndRun /\ RegressionEndsRun
  BY <1>1, <1>2, LimitsAssumption DEF Init, BudgetsEndRun, RegressionEndsRun
<1> QED
  BY <1>3, <1>4, <1>5, <1>6, <1>7 DEF IInv

\* A decided candidate preserves the invariant.
LEMMA DecideIInv ==
  ASSUME IInv, NEW action \in Actions, NEW score \in Nat, NEW cost \in Nat,
         Decide(action, score, cost)
  PROVE  IInv'
<1> DEFINE n == Len(trials) + 1
           goesOn == action \in {"PROMOTE", "REJECT"}
           plateau == IF action = "PROMOTE" THEN 0
                      ELSE IF action = "ABORT" THEN snap.plateau ELSE snap.plateau + 1
           halts == plateau >= PlateauPatience \/ snap.iteration >= MaxIterations
<1>1. TypeOK /\ Counting /\ Len(trials) \in Nat
  BY DEF IInv, TypeOK
<1>2. /\ snap.iteration \in Nat /\ snap.active \in Nat /\ snap.peak \in Nat
      /\ snap.score \in Nat /\ snap.plateau \in Nat /\ snap.cost \in Nat
  BY <1>1, FieldTypes DEF TypeOK
<1>3. /\ snap.state = "DIAGNOSE"
      /\ snap' \in SnapshotIn(States)
      /\ snap'.state = IF goesOn THEN IF halts THEN "STOPPED" ELSE "DIAGNOSE"
                       ELSE TargetState[action]
      /\ snap'.iteration = IF goesOn /\ ~halts THEN snap.iteration + 1 ELSE snap.iteration
      /\ snap'.active = IF action = "PROMOTE" THEN snap.iteration ELSE snap.active
      /\ snap'.peak = IF action = "PROMOTE" THEN snap.iteration ELSE snap.peak
      /\ snap'.score = IF action = "PROMOTE" THEN score ELSE snap.score
      /\ snap'.plateau = plateau
      /\ snap'.cost = snap.cost + cost
      /\ snap'.stop = IF goesOn THEN IF plateau >= PlateauPatience THEN "PLATEAU"
                                     ELSE IF halts THEN "MAX_ITERATIONS" ELSE "NONE"
                      ELSE PrimaryStop(Observation(score, cost), action)
  BY <1>1, OutcomeFields
<1>4. /\ n = snap.iteration
      /\ trials' \in Seq(TrialType) /\ Len(trials') = n
      /\ \A i \in 1..Len(trials) : trials'[i] = trials[i]
      /\ trials'[n].ckpt = n /\ trials'[n].parent = snap.active
      /\ trials'[n].score = score /\ trials'[n].cost = cost
      /\ trials'[n].action = action
      /\ Promotions' = IF action = "PROMOTE" THEN Promotions \cup {n} ELSE Promotions
  BY <1>1, TrialsGrow
<1>5. /\ action # "ABORT" => cost <= PerIterationBudget /\ snap.cost + cost <= TotalBudget
      /\ action = "ABORT" => \/ ~(cost <= PerIterationBudget)
                             \/ ~(snap.cost + cost <= TotalBudget)
      /\ action = "PROMOTE" => score > snap.score + MinImprovement
      /\ action = "ROLLBACK" => snap.score - score > RegressionTolerance
      /\ action = "REJECT" => ~(snap.score - score > RegressionTolerance)
  BY <1>1, ActionMeans
<1>6. /\ action = "ROLLBACK" => /\ snap'.state = "ROLLED_BACK"
                                /\ snap'.stop = "REGRESSION_ROLLBACK"
      /\ action = "ABORT" => /\ snap'.state = "ABORTED"
                             /\ snap'.stop = IF cost <= PerIterationBudget
                                             THEN "TOTAL_BUDGET_EXCEEDED"
                                             ELSE "PER_ITERATION_BUDGET_EXCEEDED"
  <2>1. TargetState["ROLLBACK"] = "ROLLED_BACK" /\ TargetState["ABORT"] = "ABORTED"
    BY DEF TargetState
  <2>2. action = "ROLLBACK" => snap'.state = "ROLLED_BACK" /\ snap'.stop = "REGRESSION_ROLLBACK"
    <3>1. PrimaryStop(Observation(score, cost), "ROLLBACK") = "REGRESSION_ROLLBACK"
      BY StopMeans
    <3> QED
      BY <1>3, <2>1, <3>1
  <2>3. action = "ABORT" => /\ snap'.state = "ABORTED"
                            /\ snap'.stop = IF cost <= PerIterationBudget
                                            THEN "TOTAL_BUDGET_EXCEEDED"
                                            ELSE "PER_ITERATION_BUDGET_EXCEEDED"
    <3>1. PrimaryStop(Observation(score, cost), "ABORT") =
            IF cost <= PerIterationBudget THEN "TOTAL_BUDGET_EXCEEDED"
            ELSE "PER_ITERATION_BUDGET_EXCEEDED"
      BY StopMeans
    <3> QED
      BY <1>3, <2>1, <3>1
  <2> QED
    BY <2>2, <2>3
<1>7. /\ Promotions \subseteq 1..Len(trials)
      /\ \A i \in 1..Len(trials) : trials[i].score \in Nat /\ trials[i].cost \in Nat
  <2>1. \A i \in 1..Len(trials) : trials[i] \in TrialType
    BY <1>1 DEF TypeOK
  <2>2. \A r \in TrialType : r.score \in Nat /\ r.cost \in Nat
    BY DEF TrialType
  <2> QED
    BY <2>1, <2>2 DEF Promotions
<1>8. TypeOK' /\ spent' = spent + cost
  BY <1>3, <1>4 DEF TypeOK, IInv, Decide
<1>9. ActiveIsPeak'
  BY <1>3 DEF IInv, ActiveIsPeak
<1>10. Counting'
  BY <1>2, <1>3, <1>4, <1>6 DEF Counting, Actions
<1>11. Running'
  BY <1>3, <1>6 DEF Running, Actions
<1>12. PatienceAndLimits'
  <2>1. /\ SinceLastPromotion(snap.plateau) /\ snap.iteration <= MaxIterations
        /\ snap.plateau < PlateauPatience
    BY <1>1, <1>3, <1>4, LimitsAssumption DEF IInv, PatienceAndLimits
  <2>2. ASSUME action # "ABORT"
        PROVE  \/ Promotions' = {} /\ snap'.plateau = Len(trials')
               \/ \E p \in Promotions' : /\ \A q \in Promotions' : q <= p
                                         /\ snap'.plateau = Len(trials') - p
    <3>1. CASE action = "PROMOTE"
      BY <1>1, <1>3, <1>4, <1>7, <3>1
    <3>2. CASE action \in {"REJECT", "ROLLBACK"}
      <4>1. /\ Promotions' = Promotions /\ snap'.plateau = snap.plateau + 1
            /\ Len(trials') = Len(trials) + 1
        BY <1>3, <1>4, <3>2
      <4>2. CASE Promotions = {} /\ snap.plateau = Len(trials)
        BY <4>1, <4>2
      <4>3. ASSUME NEW p \in Promotions, Latest(p), snap.plateau = Len(trials) - p
            PROVE  /\ \A q \in Promotions' : q <= p
                   /\ snap'.plateau = Len(trials') - p
        BY <1>1, <1>7, <4>1, <4>3 DEF Latest
      <4> QED
        BY <2>1, <4>1, <4>2, <4>3 DEF SinceLastPromotion
    <3> QED
      BY <2>2, <3>1, <3>2 DEF Actions
  <2>3. action # "ABORT" => SinceLastPromotion(snap.plateau)'
    BY <2>2 DEF SinceLastPromotion, Latest
  <2>4. snap'.state = "DIAGNOSE" =>
          Len(trials') < MaxIterations /\ snap'.plateau < PlateauPatience
    BY <1>2, <1>3, <1>4, <1>6, LimitsAssumption DEF Actions
  <2>5. snap'.state = "STOPPED" => \/ /\ snap'.stop = "PLATEAU"
                                      /\ snap'.plateau = PlateauPatience
                                   \/ /\ snap'.stop = "MAX_ITERATIONS"
                                      /\ Len(trials') = MaxIterations
                                      /\ snap'.plateau < PlateauPatience
    BY <1>2, <1>3, <1>4, <1>6, <2>1, LimitsAssumption DEF Actions
  <2> QED
    BY <1>6, <2>3, <2>4, <2>5 DEF PatienceAndLimits
<1>13. PeakIsHistoricalBest'
  <2>1. MinImprovement \in Nat /\ InitialScore \in Nat
    BY LimitsAssumption, ObservationAssumption
  <2>2. \A i \in Promotions : trials[i].score \in Nat /\ trials'[i] = trials[i]
    BY <1>4, <1>7
  <2>3. PeakIsHistoricalBest
    BY DEF IInv
  <2>4. CASE action = "PROMOTE"
    <3>1. \A q \in Promotions : trials[q].score <= snap.score
      BY <1>1, <2>3, PeakIsBest
    <3>2. snap.score >= InitialScore
      BY <1>1, <2>3, PeakIsBest
    <3>3. Promotions' = Promotions \cup {n} /\ score > snap.score + MinImprovement
      BY <1>4, <1>5, <2>4
    <3>4. \A p \in Promotions' :
            /\ trials'[p].score > InitialScore + MinImprovement
            /\ \A q \in Promotions' :
                 q < p => trials'[p].score > trials'[q].score + MinImprovement
      <4>1. SUFFICES ASSUME NEW p \in Promotions'
                     PROVE  /\ trials'[p].score > InitialScore + MinImprovement
                            /\ \A q \in Promotions' :
                                 q < p => trials'[p].score > trials'[q].score + MinImprovement
        OBVIOUS
      <4>2. CASE p = n
        <5>1. trials'[p].score = score
          BY <1>4, <4>2
        <5>2. score > InitialScore + MinImprovement
          BY <1>2, <2>1, <3>2, <3>3
        <5>3. ASSUME NEW q \in Promotions', q < p
              PROVE  score > trials'[q].score + MinImprovement
          <6>1. q \in Promotions
            BY <3>3, <4>2, <5>3
          <6> QED
            BY <1>2, <2>1, <2>2, <3>1, <3>3, <6>1
        <5> QED
          BY <5>1, <5>2, <5>3
      <4>3. CASE p \in Promotions
        <5>1. trials[p].score > InitialScore + MinImprovement
          BY <2>3, <4>3 DEF PeakIsHistoricalBest
        <5>2. ASSUME NEW q \in Promotions', q < p
              PROVE  trials[p].score > trials'[q].score + MinImprovement
          <6>1. q \in Promotions
            BY <1>1, <1>7, <3>3, <4>3, <5>2
          <6>2. trials[p].score > trials[q].score + MinImprovement
            BY <2>3, <4>3, <5>2, <6>1 DEF PeakIsHistoricalBest
          <6> QED
            BY <2>2, <6>1, <6>2
        <5> QED
          BY <2>2, <4>3, <5>1, <5>2
      <4> QED
        BY <3>3, <4>2, <4>3
    <3>5. n \in Promotions' /\ \A q \in Promotions' : q <= n
      BY <1>1, <1>7, <3>3
    <3>6. snap'.peak = trials'[n].ckpt /\ snap'.score = trials'[n].score
      BY <1>3, <1>4, <2>4
    <3> HIDE DEF n
    <3> QED
      BY <3>4, <3>5, <3>6 DEF PeakIsHistoricalBest, Latest
  <2>5. CASE action # "PROMOTE"
    <3>1. Promotions' = Promotions /\ snap'.peak = snap.peak /\ snap'.score = snap.score
      BY <1>3, <1>4, <2>5
    <3> QED
      BY <2>2, <2>3, <3>1 DEF PeakIsHistoricalBest, Latest
  <2> QED
    BY <2>4, <2>5
<1>14. ParentIsEarlierPeak'
  <2>1. \A i \in 1..Len(trials) : trials'[i] = trials[i] /\ i < n
    BY <1>1, <1>4
  <2>2. SUFFICES ASSUME NEW i \in 1..n
                 PROVE  \/ trials'[i].parent = Base /\ \A q \in Promotions' : q >= i
                        \/ \E p \in Promotions' :
                             /\ p < i
                             /\ \A q \in Promotions' : q < i => q <= p
                             /\ trials'[i].parent = trials'[p].ckpt
    BY <1>4 DEF ParentIsEarlierPeak
  <2>3. CASE i \in 1..Len(trials)
    <3>1. \/ trials[i].parent = Base /\ \A q \in Promotions : q >= i
          \/ \E p \in Promotions : /\ p < i
                                   /\ \A q \in Promotions : q < i => q <= p
                                   /\ trials[i].parent = trials[p].ckpt
      BY <2>3 DEF IInv, ParentIsEarlierPeak
    <3>2. /\ \A q \in Promotions' : q \in Promotions \/ q = n
          /\ \A q \in Promotions : q \in Promotions' /\ trials'[q] = trials[q]
          /\ trials'[i] = trials[i] /\ i < n
          /\ i \in Nat /\ n \in Nat
      BY <1>1, <1>4, <1>7, <2>1, <2>3
    <3> HIDE DEF n
    <3>3. CASE trials[i].parent = Base /\ \A q \in Promotions : q >= i
      BY <3>2, <3>3
    <3>4. ASSUME NEW p \in Promotions, p < i, \A q \in Promotions : q < i => q <= p,
                 trials[i].parent = trials[p].ckpt
          PROVE  /\ p \in Promotions' /\ p < i
                 /\ \A q \in Promotions' : q < i => q <= p
                 /\ trials'[i].parent = trials'[p].ckpt
      <4>1. \A q \in Promotions' : q < i => q \in Promotions
        BY <3>2
      <4> QED
        BY <3>2, <3>4, <4>1
    <3> QED
      BY <3>1, <3>3, <3>4
  <2>4. CASE i = n
    <3>1. trials'[i].parent = snap.peak
      BY <1>4, <2>4 DEF IInv, ActiveIsPeak
    <3>2. \/ Promotions = {} /\ snap.peak = Base
          \/ \E p \in Promotions : Latest(p) /\ snap.peak = trials[p].ckpt
      BY DEF IInv, PeakIsHistoricalBest
    <3>3. \A q \in Promotions' : q < i => q \in Promotions
      BY <1>4, <2>4
    <3>4. CASE Promotions = {} /\ snap.peak = Base
      <4>1. \A q \in Promotions' : q = n
        BY <1>4, <3>4
      <4> QED
        BY <1>1, <2>4, <3>1, <3>4, <4>1
    <3>5. ASSUME NEW p \in Promotions, Latest(p), snap.peak = trials[p].ckpt
          PROVE  /\ p \in Promotions' /\ p < i
                 /\ \A q \in Promotions' : q < i => q <= p
                 /\ trials'[i].parent = trials'[p].ckpt
      BY <1>1, <1>4, <1>7, <2>1, <2>4, <3>1, <3>3, <3>5 DEF Latest
    <3> QED
      BY <3>2, <3>4, <3>5
  <2> QED
    BY <1>1, <2>3, <2>4
<1>15. BudgetsEndRun'
  <2>1. /\ spent \in Nat /\ snap.cost = spent
        /\ PerIterationBudget \in Nat /\ TotalBudget \in Nat
    BY LimitsAssumption DEF IInv, TypeOK, BudgetsEndRun
  <2>2. \A i \in 1..Len(trials) : ~(trials'[i].cost > PerIterationBudget)
    BY <1>3, <1>4 DEF IInv, BudgetsEndRun, Overspent
  <2>3. snap'.cost = spent'
    BY <1>3, <1>8, <2>1
  <2>4. spent' > TotalBudget => snap'.state = "ABORTED"
    BY <1>5, <1>6, <1>8, <2>1
  <2>5. cost > PerIterationBudget => snap'.state = "ABORTED"
    BY <1>5, <1>6, <2>1
  <2>6. snap'.state = "ABORTED" => action = "ABORT"
    BY <1>3, <1>6 DEF Actions
  <2>7. action = "ABORT" =>
          \/ snap'.stop = "PER_ITERATION_BUDGET_EXCEEDED" /\ cost > PerIterationBudget
          \/ /\ snap'.stop = "TOTAL_BUDGET_EXCEEDED"
             /\ ~(cost > PerIterationBudget) /\ spent' > TotalBudget
    BY <1>5, <1>6, <1>8, <2>1
  <2> HIDE DEF n
  <2>8. \A i \in 1..n : i \in 1..Len(trials) \/ i = n
    BY <1>1 DEF n
  <2> QED
    BY <1>4, <2>2, <2>3, <2>4, <2>5, <2>6, <2>7, <2>8 DEF BudgetsEndRun, Overspent
<1>16. RegressionEndsRun'
  <2>1. /\ InitialScore \in Nat /\ MinImprovement \in Nat /\ RegressionTolerance \in Nat
        /\ \A p \in Promotions : trials'[p] = trials[p] /\ trials[p].score \in Nat /\ p < n
    BY <1>1, <1>4, <1>7, LimitsAssumption, ObservationAssumption
  <2>2. /\ snap.score >= InitialScore
        /\ \A p \in Promotions : trials[p].score <= snap.score
        /\ \/ snap.score = InitialScore
           \/ \E p \in Promotions : snap.score = trials[p].score
    BY <1>1, PeakIsBest DEF IInv
  <2>3. \A i \in 1..Len(trials) : ~Regressed(i)'
    <3>1. SUFFICES ASSUME NEW i \in 1..Len(trials), Regressed(i)' PROVE FALSE
      OBVIOUS
    <3>2. \A p \in Promotions' : p < i => p \in Promotions
      BY <1>1, <1>4
    <3>3. Regressed(i)
      BY <1>4, <2>1, <3>1, <3>2 DEF Regressed
    <3> QED
      BY <1>3, <3>3 DEF IInv, RegressionEndsRun
  <2>4. PICK k \in Nat : k = n
    BY <1>1
  <2>5. Regressed(k)' <=> snap.score - score > RegressionTolerance
    <3>1. Regressed(k)' <=> \/ InitialScore - score > RegressionTolerance
                            \/ \E p \in Promotions :
                                 trials[p].score - score > RegressionTolerance
      <4>1. \A p \in Promotions : p \in Promotions' /\ p < k
        BY <1>4, <2>1, <2>4
      <4>2. \A p \in Promotions' : p < k => p \in Promotions
        BY <1>1, <1>4, <2>4
      <4>3. trials'[k].score = score
        BY <1>4, <2>4
      <4> HIDE DEF n
      <4> QED
        BY <2>1, <4>1, <4>2, <4>3 DEF Regressed
    <3> QED
      BY <1>2, <2>1, <2>2, <3>1
  <2>6. action = "PROMOTE" => ~(snap.score - score > RegressionTolerance)
    BY <1>2, <1>5, <2>1
  <2>7. snap.score - score > RegressionTolerance =>
          snap'.state \in {"ROLLED_BACK", "ABORTED"}
    BY <1>5, <1>6, <2>6 DEF Actions
  <2>8. snap'.state = "ROLLED_BACK" => action = "ROLLBACK"
    BY <1>3, <1>6 DEF Actions
  <2>9. Len(trials') = k
    BY <1>4, <2>4
  <2>10. \A i \in 1..k : Regressed(i)' => i = k
    BY <1>1, <2>3, <2>4
  <2>11. snap'.state = "ROLLED_BACK" => Regressed(k)' /\ snap'.stop = "REGRESSION_ROLLBACK"
    BY <1>5, <1>6, <2>5, <2>8
  <2> HIDE DEF n
  <2> QED
    BY <2>5, <2>7, <2>9, <2>10, <2>11 DEF RegressionEndsRun
<1> QED
  BY <1>8, <1>9, <1>10, <1>11, <1>12, <1>13, <1>14, <1>15, <1>16 DEF IInv

\* Every step of the run decides a candidate, or stutters.
LEMMA NextIInv == IInv /\ [Next]_vars => IInv'
<1> SUFFICES ASSUME IInv, [Next]_vars PROVE IInv'
  OBVIOUS
<1>1. CASE Next
  <2>1. PICK action \in Actions, score \in Scores, cost \in Costs :
          Decide(action, score, cost)
    BY <1>1 DEF Next, Promote, Reject, Rollback, Abort, Actions
  <2> QED
    BY <2>1, DecideIInv, ObservationAssumption
<1>2. CASE UNCHANGED vars
  BY <1>2 DEF vars, IInv, TypeOK, ActiveIsPeak, Counting, Running, PatienceAndLimits,
              SinceLastPromotion, PeakIsHistoricalBest, ParentIsEarlierPeak,
              BudgetsEndRun, RegressionEndsRun, Overspent, Regressed, Promotions, Latest
<1> QED
  BY <1>1, <1>2

\* The strengthened invariant holds throughout the run.
THEOREM Invariance == Spec => []IInv
  BY InitIInv, NextIInv, PTL DEF Spec

\* Every snapshot the policy emits is well formed.
THEOREM TypeCorrect == Spec => []TypeOK
<1>1. IInv => TypeOK
  BY DEF IInv
<1> QED
  BY <1>1, Invariance, PTL

\* No candidate is ever trained from anything but the Peak.
THEOREM ActiveStaysPeak == Spec => []ActiveIsPeak
<1>1. IInv => ActiveIsPeak
  BY DEF IInv
<1> QED
  BY <1>1, Invariance, PTL

\* A rejected, rolled back or aborted candidate is nobody's parent.
THEOREM ParentsArePeaks == Spec => []ParentIsEarlierPeak
<1>1. IInv => ParentIsEarlierPeak
  BY DEF IInv
<1> QED
  BY <1>1, Invariance, PTL

\* Both: the lineage of a run of any length is a tree of Peaks.
THEOREM LineagesArePeaks == Spec => []LineageIsPeak
  BY ActiveStaysPeak, ParentsArePeaks, PTL DEF LineageIsPeak

\* The Peak is the best accepted score of the whole run.
THEOREM HistoricalBest == Spec => []PeakIsHistoricalBest
<1>1. IInv => PeakIsHistoricalBest
  BY DEF IInv
<1> QED
  BY <1>1, Invariance, PTL

\* A run goes on while it has patience and iterations left, and stops for the
\* one it has used up.
THEOREM LimitsRespected == Spec => []PatienceAndLimits
<1>1. IInv => PatienceAndLimits
  BY DEF IInv
<1> QED
  BY <1>1, Invariance, PTL

\* Every candidate is charged once; the one that crosses a budget aborts the run
\* with that budget's name, and no run is aborted that crossed none.
THEOREM BudgetsRespected == Spec => []BudgetsEndRun
<1>1. IInv => BudgetsEndRun
  BY DEF IInv
<1> QED
  BY <1>1, Invariance, PTL

\* A candidate that regressed beyond the tolerance is the last one, and no run is
\* rolled back without such a candidate.
THEOREM RegressionsRespected == Spec => []RegressionEndsRun
<1>1. IInv => RegressionEndsRun
  BY DEF IInv
<1> QED
  BY <1>1, Invariance, PTL

\* The three together: a run ends with the candidate that uses up its patience or
\* its iterations, crosses a budget or regresses, with no other, and says which.
THEOREM EndsOnTime == Spec => []RunEndsOnTime
  BY LimitsRespected, BudgetsRespected, RegressionsRespected, PTL DEF RunEndsOnTime

\* No step lowers the Peak's score, and a new Peak beats the old one by more
\* than the required improvement.
THEOREM PeakImproves == Spec => PeakOnlyImproves
<1>1. IInv /\ [Next]_vars =>
        [/\ snap'.score >= snap.score
         /\ snap'.peak # snap.peak => snap'.score > snap.score + MinImprovement]_vars
  <2> SUFFICES ASSUME IInv, Next
               PROVE  /\ snap'.score >= snap.score
                      /\ snap'.peak # snap.peak => snap'.score > snap.score + MinImprovement
    OBVIOUS
  <2>1. PICK action \in Actions, score \in Scores, cost \in Costs :
          Decide(action, score, cost)
    BY DEF Next, Promote, Reject, Rollback, Abort, Actions
  <2>2. score \in Nat /\ cost \in Nat /\ TypeOK
    BY ObservationAssumption DEF IInv
  <2>3. /\ snap'.peak = IF action = "PROMOTE" THEN snap.iteration ELSE snap.peak
        /\ snap'.score = IF action = "PROMOTE" THEN score ELSE snap.score
    BY <2>1, <2>2, OutcomeFields
  <2>4. action = "PROMOTE" => score > snap.score + MinImprovement
    BY <2>1, <2>2, ActionMeans
  <2>5. snap.score \in Nat
    BY <2>2, FieldTypes DEF TypeOK
  <2> QED
    BY <2>2, <2>3, <2>4, <2>5, LimitsAssumption
<1> QED
  BY <1>1, Invariance, PTL DEF Spec, PeakOnlyImproves

=============================================================================
