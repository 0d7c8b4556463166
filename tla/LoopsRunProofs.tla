--------------------------- MODULE LoopsRunProofs ---------------------------
(***************************************************************************)
(* The promises of LoopsRun for every configuration and whatever scores,   *)
(* costs and batches the outside reports.                                  *)
(***************************************************************************)
EXTENDS LoopsRunProperties, SequenceTheorems, TLAPS

\* The active Harness is older than what its cycle may still bring: an attempt
\* under search, and the slim Harness of the cycle; before a cycle begins it is
\* older than all of that cycle's.
HarnessIsOlder ==
  LET s == run.snap
  IN  /\ s.harness < Slim(s.cycle + 1)
      /\ s.harness # Slim(s.cycle)
      /\ s.state \in {"MUTATE_HARNESS", "HARNESS_REVIEW_PENDING"} =>
           s.harness < Candidate(s.cycle, s.iteration)
      /\ s.state = "FREEZE_MODEL" => s.harness < Slim(s.cycle)

\* The active model is older than its cycle until the cycle's own was promoted.
ModelIsOlder ==
  LET s == run.snap
  IN  \/ s.ckpt < s.cycle
      \/ s.state = "SLIM_HARNESS" /\ s.ckpt = s.cycle

\* A pending review is the one its state waits for.
PendingIsCurrent ==
  /\ run.pending = "harness" => run.snap.state = "HARNESS_REVIEW_PENDING"
  /\ run.pending = "checkpoint" => run.snap.state = "MODEL_REVIEW_PENDING"
  /\ run.pending = "dataset" => run.snap.state = "DATA_REVIEW_PENDING"

\* The states that ask a reviewer exist only where the configuration asks, and
\* cycles go on only below the limit.
StatesAreReachable ==
  LET s == run.snap
  IN  /\ s.state = "HARNESS_REVIEW_PENDING" => limits.outer.approval
      /\ s.state = "MODEL_REVIEW_PENDING" => limits.model.approval
      /\ s.state = "DATA_REVIEW_PENDING" => limits.datasetReview
      /\ s.state \in {"PROMOTE_MODEL", "ROLLBACK_MODEL"} =>
           s.candCkpt = s.cycle /\ s.candScore \in Nat
      /\ s.state \notin {"FREEZE_MODEL", "STOPPED", "ABORTED"} =>
           run.completed < limits.maxCycles

\* Where a snapshot carries the model's score it is the record's.
CarriedScore == run.snap.meta.modelScore \in {None, run.modelScore}

\* The inductive invariant.
IInv ==
  /\ TypeOK
  /\ BudgetRespected
  /\ SearchIsBounded
  /\ CandidatesAreJustified
  /\ HarnessIsOlder
  /\ ModelIsOlder
  /\ PendingIsCurrent
  /\ StatesAreReachable
  /\ CarriedScore

-----------------------------------------------------------------------------

\* The states snapshots pass through between two updates of the record.
StageStates ==
  States \cup {"VALIDATE_HARNESS", "EVALUATE_HARNESS", "ACCEPT_HARNESS",
               "REJECT_HARNESS", "VERIFY_TRACES", "QUARANTINED", "EVALUATE_MODEL"}

Stage == SnapshotIn(StageStates)

\* What a step leaves alone.
SameModel(s, t) == t.cycle = s.cycle /\ t.ckpt = s.ckpt /\ t.peak = s.peak

SameLineage(s, t) == SameModel(s, t) /\ t.harness = s.harness /\ t.score = s.score

BudgetStops == {"PER_ITERATION_BUDGET_EXCEEDED", "TOTAL_BUDGET_EXCEEDED"}

\* A snapshot that aborted.
Aborted(s, t) ==
  /\ t \in SnapshotIn({"ABORTED"}) /\ SameLineage(s, t) /\ t.stop \in BudgetStops

\* The fields of a snapshot have their types.
LEMMA FieldTypes ==
  ASSUME NEW S, NEW s \in SnapshotIn(S)
  PROVE  /\ s.state \in S /\ s.cycle \in Nat /\ s.iteration \in Nat
         /\ s.ckpt \in Nat /\ s.peak \in Nat /\ s.harness \in Nat
         /\ s.candCkpt \in Maybe /\ s.candHarness \in Maybe /\ s.candScore \in Maybe
         /\ s.score \in Nat /\ s.plateau \in Nat /\ s.cost \in Nat
         /\ s.stop \in Stops /\ s.meta \in MetaType
  BY DEF SnapshotIn

\* A snapshot whose state is one of a set has all its fields.
LEMMA Restate == ASSUME NEW S, NEW T, NEW s \in SnapshotIn(S), s.state \in T
                 PROVE  s \in SnapshotIn(T)
  BY DEF SnapshotIn

LEMMA NoMetaType == NoMeta \in MetaType
  BY DEF NoMeta, MetaType, Maybe, None

\* The final snapshot of the steps the policies build.
LEMMA FinalOfOne == ASSUME NEW e PROVE Final(<< e >>) = e.snap
  BY DEF Final

LEMMA FinalOfTwo == ASSUME NEW e, NEW f PROVE Final(Append(<< e >>, f)) = f.snap
<1>1. << e >> \in Seq({e, f}) /\ Len(<< e >>) = 1
  OBVIOUS
<1>2. Len(Append(<< e >>, f)) = 2 /\ Append(<< e >>, f)[2] = f
  BY <1>1, AppendProperties
<1> QED BY <1>2 DEF Final

-----------------------------------------------------------------------------
(* The outer loop.                                                         *)

\* What an undecided or aborted search step leaves as it was.
Entered(s, t) == SameLineage(s, t) /\ t.iteration = s.iteration /\ t.meta = NoMeta

\* Enter, field by field.
LEMMA EnterFields ==
  ASSUME NEW s \in Stage, NEW state \in StageStates
  PROVE  LET t == Enter(s, state)
         IN  /\ t \in SnapshotIn({state}) /\ Entered(s, t) /\ t.stop = "NONE"
             /\ t.plateau = s.plateau /\ t.cost = s.cost
             /\ t.candHarness = s.candHarness /\ t.candScore = s.candScore
  BY NoMetaType DEF Enter, Stage, SnapshotIn, Stops, Maybe, None, Entered,
                    SameLineage, SameModel

\* _advance: the step's last snapshot is the next attempt or the harvest.
Advanced(L, s, t) ==
  /\ t \in SnapshotIn({"MUTATE_HARNESS", "HARVEST_TRACES"})
  /\ SameLineage(s, t) /\ t.meta = NoMeta /\ t.stop = "NONE"
  /\ t.plateau = s.plateau /\ t.cost = s.cost
  /\ t.state = "MUTATE_HARNESS" =>
       /\ t.iteration = s.iteration + 1
       /\ s.plateau < L.patience /\ s.iteration < L.maxIterations
  /\ t.state = "HARVEST_TRACES" => t.iteration = s.iteration

LEMMA AdvanceOutcome ==
  ASSUME NEW L, OuterLimits(L), NEW e, e.snap \in Stage
  PROVE  Advanced(L, e.snap, Final(Advance(L, << e >>)))
<1> DEFINE s == e.snap
           over == s.plateau >= L.patience \/ s.iteration >= L.maxIterations
           harvest == Without(Enter(s, "HARVEST_TRACES"))
           again == [Without(Enter(s, "MUTATE_HARNESS")) EXCEPT !.iteration = @ + 1]
<1>1. Final(Advance(L, << e >>)) = IF over THEN harvest ELSE again
  BY FinalOfOne, FinalOfTwo DEF Advance, Edge
<1>2. CASE over
  <2>1. /\ Enter(s, "HARVEST_TRACES") \in SnapshotIn({"HARVEST_TRACES"})
        /\ Entered(s, Enter(s, "HARVEST_TRACES"))
        /\ Enter(s, "HARVEST_TRACES").stop = "NONE"
        /\ Enter(s, "HARVEST_TRACES").plateau = s.plateau
        /\ Enter(s, "HARVEST_TRACES").cost = s.cost
    BY EnterFields DEF StageStates, States
  <2>2. /\ harvest \in SnapshotIn({"HARVEST_TRACES"}) /\ Entered(s, harvest)
        /\ harvest.stop = "NONE" /\ harvest.plateau = s.plateau /\ harvest.cost = s.cost
    BY <2>1 DEF Without, SnapshotIn, Maybe, Entered, SameLineage, SameModel
  <2> QED BY <1>1, <1>2, <2>2, Restate DEF Advanced, Entered, SnapshotIn
<1>3. CASE ~over
  <2>1. /\ Enter(s, "MUTATE_HARNESS") \in SnapshotIn({"MUTATE_HARNESS"})
        /\ Entered(s, Enter(s, "MUTATE_HARNESS"))
        /\ Enter(s, "MUTATE_HARNESS").stop = "NONE"
        /\ Enter(s, "MUTATE_HARNESS").plateau = s.plateau
        /\ Enter(s, "MUTATE_HARNESS").cost = s.cost
    BY EnterFields DEF StageStates, States
  <2> DEFINE bare == Without(Enter(s, "MUTATE_HARNESS"))
  <2>a. /\ bare \in SnapshotIn({"MUTATE_HARNESS"}) /\ Entered(s, bare)
        /\ bare.stop = "NONE" /\ bare.plateau = s.plateau /\ bare.cost = s.cost
    BY <2>1 DEF Without, SnapshotIn, Maybe, Entered, SameLineage, SameModel
  <2> HIDE DEF bare
  <2>b. /\ [bare EXCEPT !.iteration = @ + 1] \in SnapshotIn({"MUTATE_HARNESS"})
        /\ SameLineage(s, [bare EXCEPT !.iteration = @ + 1])
        /\ [bare EXCEPT !.iteration = @ + 1].meta = NoMeta
        /\ [bare EXCEPT !.iteration = @ + 1].iteration = s.iteration + 1
        /\ [bare EXCEPT !.iteration = @ + 1].stop = "NONE"
        /\ [bare EXCEPT !.iteration = @ + 1].plateau = s.plateau
        /\ [bare EXCEPT !.iteration = @ + 1].cost = s.cost
    BY <2>a DEF SnapshotIn, Entered, SameLineage, SameModel
  <2>2. /\ again \in SnapshotIn({"MUTATE_HARNESS"}) /\ SameLineage(s, again)
        /\ again.meta = NoMeta /\ again.iteration = s.iteration + 1
        /\ again.stop = "NONE" /\ again.plateau = s.plateau /\ again.cost = s.cost
    BY <2>b DEF bare
  <2>3. s.plateau < L.patience /\ s.iteration < L.maxIterations
    BY <1>3, FieldTypes DEF OuterLimits, Stage
  <2> QED BY <1>1, <1>3, <2>2, <2>3 DEF Advanced, SnapshotIn
<1> QED BY <1>2, <1>3

\* A decided attempt: what the next attempt or the harvest starts from.
Decided(L, s, t) ==
  /\ t \in SnapshotIn({"MUTATE_HARNESS", "HARVEST_TRACES"})
  /\ SameModel(s, t) /\ t.meta = NoMeta /\ t.stop = "NONE" /\ t.cost = s.cost
  /\ t.state = "MUTATE_HARNESS" =>
       /\ t.iteration = s.iteration + 1
       /\ t.plateau < L.patience /\ s.iteration < L.maxIterations
  /\ t.state = "HARVEST_TRACES" => t.iteration = s.iteration

Rejected(L, s, t) ==
  /\ Decided(L, s, t)
  /\ t.harness = s.harness /\ t.score = s.score /\ t.plateau = s.plateau + 1

Accepted(L, s, score, t) ==
  /\ Decided(L, s, t)
  /\ t.harness = s.candHarness /\ t.score = score /\ t.plateau = 0

LEMMA RejectOutcome ==
  ASSUME NEW L, OuterLimits(L), NEW s \in Stage, NEW score \in Maybe
  PROVE  Rejected(L, s, Final(Advance(L, << Reject(s, score) >>)))
<1> DEFINE in == Enter(s, "REJECT_HARNESS")
           r == [in EXCEPT !.candScore = score, !.plateau = @ + 1]
<1>1. /\ in \in SnapshotIn({"REJECT_HARNESS"}) /\ Entered(s, in)
      /\ in.stop = "NONE" /\ in.plateau = s.plateau /\ in.cost = s.cost
  BY EnterFields DEF StageStates, States
<1>2. Reject(s, score).snap = r
  BY DEF Reject, Edge
<1> HIDE DEF in
<1> DEFINE more == s.plateau + 1
<1>a. in.plateau + 1 = more /\ more \in Nat
  BY <1>1, FieldTypes DEF Stage
<1>b. r = [in EXCEPT !.candScore = score, !.plateau = more]
  BY <1>a
<1> HIDE DEF more, r
<1>3. /\ r \in SnapshotIn({"REJECT_HARNESS"}) /\ SameLineage(s, r)
      /\ r.iteration = s.iteration /\ r.cost = s.cost /\ r.plateau = more
  BY <1>1, <1>a, <1>b DEF SnapshotIn, Entered, SameLineage, SameModel
<1>4. r \in Stage
  BY <1>3 DEF Stage, SnapshotIn, StageStates
<1>5. Advanced(L, r, Final(Advance(L, << Reject(s, score) >>)))
  BY <1>2, <1>4, AdvanceOutcome
<1> QED BY <1>3, <1>5 DEF Advanced, Rejected, Decided, SameLineage, SameModel, more

LEMMA AcceptOutcome ==
  ASSUME NEW L, OuterLimits(L), NEW s \in Stage, s.candHarness \in Nat,
         NEW score \in Nat
  PROVE  Accepted(L, s, score, Final(Advance(L, << Accept(s, score) >>)))
<1> DEFINE in == Enter(s, "ACCEPT_HARNESS")
           r == [in EXCEPT !.harness = s.candHarness, !.candScore = score,
                           !.score = score, !.plateau = 0]
<1>1. /\ in \in SnapshotIn({"ACCEPT_HARNESS"}) /\ Entered(s, in)
      /\ in.stop = "NONE" /\ in.plateau = s.plateau /\ in.cost = s.cost
  BY EnterFields DEF StageStates, States
<1>2. Accept(s, score).snap = r
  BY DEF Accept, Edge
<1> HIDE DEF in
<1>3. /\ r \in SnapshotIn({"ACCEPT_HARNESS"}) /\ SameModel(s, r)
      /\ r.iteration = s.iteration /\ r.cost = s.cost /\ r.plateau = 0
      /\ r.harness = s.candHarness /\ r.score = score
  BY <1>1 DEF SnapshotIn, Entered, SameLineage, SameModel, Maybe
<1> HIDE DEF r
<1>4. r \in Stage
  BY <1>3 DEF Stage, SnapshotIn, StageStates
<1>5. Advanced(L, r, Final(Advance(L, << Accept(s, score) >>)))
  BY <1>2, <1>4, AdvanceOutcome
<1> QED BY <1>3, <1>5 DEF Advanced, Accepted, Decided, SameLineage, SameModel

\* A stage's costs are added to the total.
LEMMA Paid ==
  ASSUME NEW s \in Stage, NEW cost \in Nat
  PROVE  LET paid == [s EXCEPT !.cost = @ + cost]
         IN  /\ paid \in Stage /\ SameLineage(s, paid) /\ paid.cost = s.cost + cost
             /\ paid.state = s.state /\ paid.iteration = s.iteration
             /\ paid.plateau = s.plateau /\ paid.candHarness = s.candHarness
             /\ paid.candCkpt = s.candCkpt /\ paid.candScore = s.candScore
             /\ paid.meta = s.meta
  BY DEF Stage, SnapshotIn, SameLineage, SameModel

\* A Harness candidate handed to the reviewer.
SentToReview(s, score, t) ==
  /\ t \in SnapshotIn({"HARNESS_REVIEW_PENDING"}) /\ Entered(s, t)
  /\ t.stop = "NONE" /\ t.plateau = s.plateau /\ t.cost >= s.cost
  /\ t.candHarness = s.candHarness /\ t.candScore = score

\* evaluation_completed
LEMMA EvaluationOutcome ==
  ASSUME NEW L, OuterLimits(L), NEW s \in Stage, s.candHarness \in Nat,
         NEW score \in Nat, NEW cost \in Nat
  PROVE  LET t == Final(OuterEvaluation(L, s, score, cost))
             paid == [s EXCEPT !.cost = @ + cost]
         IN  \/ Aborted(s, t) /\ t.meta = NoMeta
             \/ s.cost + cost <= L.total /\ Rejected(L, paid, t)
             \/ /\ s.cost + cost <= L.total /\ HarnessImproves(L, s, score)
                /\ L.approval /\ SentToReview(s, score, t) /\ t.cost = s.cost + cost
             \/ /\ s.cost + cost <= L.total /\ HarnessImproves(L, s, score)
                /\ Accepted(L, paid, score, t)
<1> DEFINE paid == [s EXCEPT !.cost = @ + cost]
           t == Final(OuterEvaluation(L, s, score, cost))
<1>1. /\ paid \in Stage /\ SameLineage(s, paid) /\ paid.cost = s.cost + cost
      /\ paid.iteration = s.iteration /\ paid.plateau = s.plateau
      /\ paid.candHarness = s.candHarness
  BY Paid
<1>2. CASE ~WithinBudgets(s, cost, L.perIteration, L.total)
  <2> DEFINE in == Enter(s, "ABORTED")
             a == [in EXCEPT !.candScore = score, !.cost = @ + cost,
                             !.stop = BudgetStop(cost, L.perIteration)]
  <2>1. in \in SnapshotIn({"ABORTED"}) /\ Entered(s, in)
    BY EnterFields DEF StageStates, States
  <2>2. t = a
    BY <1>2, FinalOfOne DEF OuterEvaluation, OuterAbort, Edge
  <2> DEFINE stop == BudgetStop(cost, L.perIteration)
             total == in.cost + cost
  <2>a. stop \in BudgetStops /\ total \in Nat
    BY <2>1, FieldTypes DEF BudgetStop, BudgetStops
  <2>b. a = [in EXCEPT !.candScore = score, !.cost = total, !.stop = stop]
    OBVIOUS
  <2> HIDE DEF in, stop, total, a
  <2>3. Aborted(s, a) /\ a.meta = NoMeta
    BY <2>1, <2>a, <2>b DEF Aborted, SnapshotIn, Entered, SameLineage, SameModel, BudgetStop,
                BudgetStops, Stops, Maybe
  <2> QED BY <2>2, <2>3
<1>3. CASE /\ WithinBudgets(s, cost, L.perIteration, L.total)
           /\ ~HarnessImproves(L, s, score)
  <2>1. t = Final(Advance(L, << Reject(paid, score) >>))
    BY <1>3 DEF OuterEvaluation
  <2> HIDE DEF paid, t
  <2> QED BY <1>1, <1>3, <2>1, RejectOutcome DEF Maybe, WithinBudgets, paid, t
<1>4. CASE /\ WithinBudgets(s, cost, L.perIteration, L.total)
           /\ HarnessImproves(L, s, score) /\ L.approval
  <2> DEFINE in == Enter(paid, "HARNESS_REVIEW_PENDING")
             q == [in EXCEPT !.candScore = score]
  <2>1. t = q
    BY <1>4, FinalOfOne DEF OuterEvaluation, Edge
  <2>2. /\ in \in SnapshotIn({"HARNESS_REVIEW_PENDING"}) /\ Entered(paid, in)
        /\ in.stop = "NONE" /\ in.plateau = paid.plateau /\ in.cost = paid.cost
        /\ in.candHarness = paid.candHarness
    BY <1>1, EnterFields DEF StageStates, States
  <2> HIDE DEF in, paid
  <2>3. SentToReview(s, score, q) /\ q.cost = s.cost + cost
    BY <1>1, <2>2, FieldTypes DEF SentToReview, SnapshotIn, Entered, SameLineage,
                                  SameModel, Maybe, Stage
  <2> QED BY <1>4, <2>1, <2>3 DEF WithinBudgets
<1>5. CASE /\ WithinBudgets(s, cost, L.perIteration, L.total)
           /\ HarnessImproves(L, s, score) /\ ~L.approval
  <2>1. t = Final(Advance(L, << Accept(paid, score) >>))
    BY <1>5 DEF OuterEvaluation
  <2>2. Accepted(L, paid, score, Final(Advance(L, << Accept(paid, score) >>)))
    BY <1>1, AcceptOutcome
  <2> QED BY <1>5, <2>1, <2>2 DEF WithinBudgets
<1> QED BY <1>2, <1>3, <1>4, <1>5

-----------------------------------------------------------------------------
(* The harvest.                                                            *)

\* Reach, field by field.
LEMMA ReachFields ==
  ASSUME NEW s \in Stage, NEW state \in StageStates, NEW stop \in Stops,
         NEW meta \in MetaType
  PROVE  LET t == Reach(s, state, stop, meta)
         IN  /\ t \in SnapshotIn({state}) /\ SameLineage(s, t) /\ t.stop = stop
             /\ t.iteration = s.iteration /\ t.cost = s.cost
             /\ t.meta = [meta EXCEPT !.modelScore = s.meta.modelScore]
<1> DEFINE m == [meta EXCEPT !.modelScore = s.meta.modelScore]
<1>1. m \in MetaType
  BY DEF MetaType, Stage, SnapshotIn
<1> HIDE DEF m
<1>2. Reach(s, state, stop, meta) =
        [s EXCEPT !.state = state, !.candCkpt = None, !.candHarness = None,
                  !.candScore = None, !.stop = stop, !.meta = m]
  BY DEF Reach, m
<1>3. LET t == [s EXCEPT !.state = state, !.candCkpt = None, !.candHarness = None,
                         !.candScore = None, !.stop = stop, !.meta = m]
      IN  /\ t \in SnapshotIn({state}) /\ SameLineage(s, t) /\ t.stop = stop
          /\ t.iteration = s.iteration /\ t.cost = s.cost /\ t.meta = m
  BY <1>1 DEF Stage, SnapshotIn, Maybe, None, SameLineage, SameModel
<1> QED BY <1>2, <1>3 DEF m

\* batch_harvested: abort, or go on to the verification of this batch.
Harvested(T, s, batch, cost, h) ==
  /\ h \in SnapshotIn({"VERIFY_TRACES"}) /\ SameLineage(s, h)
  /\ h.iteration = s.iteration /\ h.cost = s.cost + cost /\ h.cost <= T.total
  /\ h.meta.batch = batch /\ h.meta.batches = s.meta.batches + 1
  /\ h.meta.verified = s.meta.verified /\ h.meta.modelScore = s.meta.modelScore

LEMMA HarvestOutcome ==
  ASSUME NEW T, TraceLimits(T), NEW s \in Stage, NEW batch \in Nat, NEW cost \in Nat
  PROVE  LET h == Final(BatchHarvested(T, s, batch, cost))
         IN  \/ Aborted(s, h) /\ h.meta.modelScore = s.meta.modelScore
             \/ Harvested(T, s, batch, cost, h)
<1> DEFINE h == Final(BatchHarvested(T, s, batch, cost))
           total == s.cost + cost
<1>1. total \in Nat /\ s.meta \in MetaType
  BY FieldTypes DEF Stage
<1>2. CASE ~WithinBudgets(s, cost, T.perBatch, T.total)
  <2> DEFINE meta == [NoMeta EXCEPT !.batch = batch]
             stop == BudgetStop(cost, T.perBatch)
             a == Reach(s, "ABORTED", stop, meta)
  <2>1. meta \in MetaType /\ meta.modelScore = None
    BY DEF NoMeta, MetaType, Maybe, None
  <2>2. stop \in BudgetStops /\ stop \in Stops
    BY DEF BudgetStop, BudgetStops, Stops
  <2>3. h = [a EXCEPT !.cost = @ + cost]
    BY <1>2, FinalOfOne DEF BatchHarvested, TraceAbort, Edge
  <2> HIDE DEF meta, stop
  <2>4. /\ a \in SnapshotIn({"ABORTED"}) /\ SameLineage(s, a) /\ a.stop = stop
        /\ a.cost = s.cost /\ a.meta = [meta EXCEPT !.modelScore = s.meta.modelScore]
    BY <2>1, <2>2, ReachFields DEF StageStates, States
  <2>5. a.meta.modelScore = s.meta.modelScore
    BY <2>1, <2>4 DEF MetaType
  <2> HIDE DEF a, h
  <2>6. h = [a EXCEPT !.cost = total]
    BY <2>3, <2>4
  <2> HIDE DEF total
  <2> QED BY <1>1, <2>2, <2>4, <2>5, <2>6
          DEF Aborted, SnapshotIn, SameLineage, SameModel, h
<1>3. CASE WithinBudgets(s, cost, T.perBatch, T.total)
  <2> DEFINE meta == [NoMeta EXCEPT !.verified = s.meta.verified,
                                    !.batches = s.meta.batches + 1, !.batch = batch]
             v == Reach(s, "VERIFY_TRACES", "NONE", meta)
  <2>a. s.meta.verified \in Nat /\ s.meta.batches + 1 \in Nat
    BY <1>1 DEF MetaType
  <2>1. meta \in MetaType
    BY <2>a, NoMetaType DEF MetaType, Maybe
  <2>2. /\ meta.batch = batch /\ meta.batches = s.meta.batches + 1
        /\ meta.verified = s.meta.verified
    BY DEF NoMeta
  <2>3. h = [v EXCEPT !.cost = @ + cost]
    BY <1>3, FinalOfOne DEF BatchHarvested, Edge
  <2> HIDE DEF meta
  <2>4. /\ v \in SnapshotIn({"VERIFY_TRACES"}) /\ SameLineage(s, v)
        /\ v.iteration = s.iteration /\ v.cost = s.cost
        /\ v.meta = [meta EXCEPT !.modelScore = s.meta.modelScore]
    BY <2>1, ReachFields DEF StageStates, States, Stops
  <2>5. /\ v.meta.modelScore = s.meta.modelScore /\ v.meta.batch = batch
        /\ v.meta.batches = s.meta.batches + 1 /\ v.meta.verified = s.meta.verified
    BY <2>1, <2>2, <2>4 DEF MetaType
  <2>6. total <= T.total
    BY <1>3 DEF WithinBudgets
  <2> HIDE DEF v, h
  <2>7. h = [v EXCEPT !.cost = total]
    BY <2>3, <2>4
  <2> HIDE DEF total
  <2>8. Harvested(T, s, batch, cost, h)
    BY <1>1, <2>4, <2>5, <2>6, <2>7
    DEF Harvested, SnapshotIn, SameLineage, SameModel, total
  <2> QED BY <2>8 DEF h
<1> QED BY <1>2, <1>3

\* verification_completed: the end of the run, the next batch, or training.
Verified(T, s, t) ==
  /\ SameLineage(s, t) /\ t.cost = s.cost /\ t.meta.modelScore = s.meta.modelScore
  /\ t.stop \notin BudgetStops
  /\ \/ t \in SnapshotIn({"STOPPED"})
     \/ /\ t \in SnapshotIn({"HARVEST_TRACES"})
        /\ t.iteration = s.iteration + 1
        /\ t.meta.batches = s.meta.batches /\ s.meta.batches < T.maxBatches
     \/ /\ t \in SnapshotIn({"TRAIN_MODEL"})
        /\ t.meta.dataset # None /\ t.meta.accepted >= 1
        /\ t.meta.verified >= T.target /\ t.meta.batches = s.meta.batches

LEMMA NextBatchFields ==
  ASSUME NEW s \in Stage, NEW meta \in MetaType
  PROVE  LET t == NextBatch(s, meta)
         IN  /\ t \in SnapshotIn({"HARVEST_TRACES"}) /\ SameLineage(s, t)
             /\ t.iteration = s.iteration + 1 /\ t.cost = s.cost /\ t.stop = "NONE"
             /\ t.meta = [meta EXCEPT !.modelScore = s.meta.modelScore]
<1> DEFINE v == Reach(s, "HARVEST_TRACES", "NONE", meta)
           next == s.iteration + 1
<1>1. /\ v \in SnapshotIn({"HARVEST_TRACES"}) /\ SameLineage(s, v) /\ v.stop = "NONE"
      /\ v.iteration = s.iteration /\ v.cost = s.cost
      /\ v.meta = [meta EXCEPT !.modelScore = s.meta.modelScore]
  BY ReachFields DEF StageStates, States, Stops
<1>2. next \in Nat
  BY FieldTypes DEF Stage
<1>3. NextBatch(s, meta) = [v EXCEPT !.iteration = @ + 1]
  BY DEF NextBatch
<1> HIDE DEF v
<1>4. NextBatch(s, meta) = [v EXCEPT !.iteration = next]
  BY <1>1, <1>3
<1> HIDE DEF next
<1>5. LET t == [v EXCEPT !.iteration = next]
      IN  /\ t \in SnapshotIn({"HARVEST_TRACES"}) /\ SameLineage(s, t)
          /\ t.iteration = next /\ t.cost = s.cost /\ t.stop = "NONE"
          /\ t.meta = [meta EXCEPT !.modelScore = s.meta.modelScore]
  BY <1>1, <1>2 DEF SnapshotIn, SameLineage, SameModel
<1> QED BY <1>4, <1>5 DEF next

LEMMA BatchLimitFields ==
  ASSUME NEW s \in Stage, NEW meta \in MetaType
  PROVE  LET t == BatchLimit(s, meta).snap
         IN  /\ t \in SnapshotIn({"STOPPED"}) /\ SameLineage(s, t)
             /\ t.cost = s.cost /\ t.stop = "MAX_ITERATIONS"
             /\ t.meta = [meta EXCEPT !.modelScore = s.meta.modelScore]
<1>1. BatchLimit(s, meta).snap = Reach(s, "STOPPED", "MAX_ITERATIONS", meta)
  BY DEF BatchLimit, Edge
<1> QED BY <1>1, ReachFields DEF StageStates, States, Stops

\* What the edges of a verified batch carry on.
LEMMA CarriedMeta ==
  ASSUME NEW meta \in MetaType, NEW score \in Maybe
  PROVE  LET m == [meta EXCEPT !.modelScore = score]
         IN  /\ m.modelScore = score /\ m.dataset = meta.dataset
             /\ m.accepted = meta.accepted /\ m.verified = meta.verified
             /\ m.batches = meta.batches
  BY DEF MetaType

LEMMA VerificationOutcome ==
  ASSUME NEW T, TraceLimits(T), NEW s \in Stage, s.meta.batch \in Nat,
         NEW accepted \in Nat, NEW raw \in Nat
  PROVE  Verified(T, s, Final(VerificationCompleted(T, s, accepted, raw)))
<1> DEFINE meta == VerifiedMeta(s, accepted)
           score == s.meta.modelScore
           carried == [meta EXCEPT !.modelScore = score]
           t == Final(VerificationCompleted(T, s, accepted, raw))
           low == accepted = 0 \/ LowAcceptance(T, accepted, raw)
<1>1. s.meta \in MetaType
  BY FieldTypes DEF Stage
<1>2. score \in Maybe /\ s.meta.batches \in Nat /\ s.meta.verified + accepted \in Nat
  BY <1>1 DEF MetaType
<1>3. /\ meta \in MetaType /\ meta.batches = s.meta.batches
      /\ meta.dataset = s.meta.batch /\ meta.accepted = accepted
      /\ meta.verified = s.meta.verified + accepted
  BY <1>2, NoMetaType DEF VerifiedMeta, NoMeta, MetaType, Maybe
<1> HIDE DEF meta
<1>4. /\ carried.modelScore = score /\ carried.dataset = meta.dataset
      /\ carried.accepted = meta.accepted /\ carried.verified = meta.verified
      /\ carried.batches = meta.batches
  BY <1>2, <1>3, CarriedMeta
<1>5. ASSUME low PROVE Verified(T, s, t)
  <2> DEFINE q == Reach(s, "QUARANTINED", "NONE", meta)
             e == Edge("QUARANTINE", IF accepted = 0 THEN "TRACE_BATCH" ELSE "DATASET",
                       s.meta.batch, q)
  <2>1. /\ q \in SnapshotIn({"QUARANTINED"}) /\ SameLineage(s, q)
        /\ q.iteration = s.iteration /\ q.cost = s.cost /\ q.meta = carried
    BY <1>3, ReachFields DEF StageStates, States, Stops
  <2> HIDE DEF q
  <2>2. q \in Stage /\ q.meta \in MetaType /\ q.meta.modelScore = score
    BY <2>1, <1>4, FieldTypes DEF Stage, SnapshotIn, StageStates
  <2>3. t = Final(AfterQuarantine(T, << e >>))
    BY <1>5 DEF VerificationCompleted, meta, q
  <2> HIDE DEF e
  <2>4. e.snap = q
    BY DEF e, Edge
  <2>5. CASE q.meta.batches >= T.maxBatches
    <3>1. t = BatchLimit(q, q.meta).snap
      BY <2>3, <2>4, <2>5, FinalOfOne, FinalOfTwo DEF AfterQuarantine
    <3> HIDE DEF t
    <3>2. [q.meta EXCEPT !.modelScore = q.meta.modelScore].modelScore = score
      BY <2>2, <1>2, CarriedMeta
    <3>3. /\ t \in SnapshotIn({"STOPPED"}) /\ SameLineage(q, t) /\ t.cost = q.cost
          /\ t.stop = "MAX_ITERATIONS" /\ t.meta.modelScore = score
      BY <2>2, <3>1, <3>2, BatchLimitFields
    <3> QED BY <2>1, <3>3 DEF Verified, SameLineage, SameModel, BudgetStops
  <2>6. CASE ~(q.meta.batches >= T.maxBatches)
    <3>1. t = NextBatch(q, q.meta)
      BY <2>3, <2>4, <2>6, FinalOfOne, FinalOfTwo DEF AfterQuarantine, Edge
    <3> HIDE DEF t
    <3>2. /\ [q.meta EXCEPT !.modelScore = q.meta.modelScore].modelScore = score
          /\ [q.meta EXCEPT !.modelScore = q.meta.modelScore].batches = q.meta.batches
      BY <2>2, <1>2, CarriedMeta
    <3>3. /\ t \in SnapshotIn({"HARVEST_TRACES"}) /\ SameLineage(q, t)
          /\ t.iteration = q.iteration + 1 /\ t.cost = q.cost /\ t.stop = "NONE"
          /\ t.meta.modelScore = score /\ t.meta.batches = q.meta.batches
      BY <2>2, <3>1, <3>2, NextBatchFields
    <3>4. q.meta.batches < T.maxBatches /\ q.meta.batches = s.meta.batches
      BY <2>1, <2>6, <1>2, <1>3, <1>4 DEF TraceLimits
    <3> QED BY <2>1, <3>3, <3>4 DEF Verified, SameLineage, SameModel, BudgetStops
  <2> QED BY <2>5, <2>6
<1>6. ASSUME ~low, meta.verified >= T.target PROVE Verified(T, s, t)
  <2> DEFINE r == Reach(s, "TRAIN_MODEL", "NONE", meta)
  <2>1. t = r
    BY <1>6, FinalOfOne DEF VerificationCompleted, meta, Edge
  <2>2. /\ r \in SnapshotIn({"TRAIN_MODEL"}) /\ SameLineage(s, r)
        /\ r.cost = s.cost /\ r.stop = "NONE" /\ r.meta = carried
    BY <1>3, ReachFields DEF StageStates, States, Stops
  <2>3. s.meta.batch # None /\ accepted >= 1
    BY <1>6 DEF None
  <2> HIDE DEF r, carried, t
  <2> QED BY <1>3, <1>4, <1>6, <2>1, <2>2, <2>3 DEF Verified, BudgetStops
<1>7. ASSUME ~low, ~(meta.verified >= T.target), meta.batches >= T.maxBatches
      PROVE  Verified(T, s, t)
  <2>1. t = BatchLimit(s, meta).snap
    BY <1>7, FinalOfOne DEF VerificationCompleted, meta
  <2>2. /\ t \in SnapshotIn({"STOPPED"}) /\ SameLineage(s, t) /\ t.cost = s.cost
        /\ t.stop = "MAX_ITERATIONS" /\ t.meta = carried
    BY <1>3, <2>1, BatchLimitFields
  <2> QED BY <1>4, <2>2 DEF Verified, BudgetStops
<1>8. ASSUME ~low, ~(meta.verified >= T.target), ~(meta.batches >= T.maxBatches)
      PROVE  Verified(T, s, t)
  <2>1. t = NextBatch(s, meta)
    BY <1>8, FinalOfOne DEF VerificationCompleted, meta, Edge
  <2>2. /\ t \in SnapshotIn({"HARVEST_TRACES"}) /\ SameLineage(s, t)
        /\ t.iteration = s.iteration + 1 /\ t.cost = s.cost /\ t.stop = "NONE"
        /\ t.meta = carried
    BY <1>3, <2>1, NextBatchFields
  <2>3. s.meta.batches < T.maxBatches
    BY <1>2, <1>3, <1>8 DEF TraceLimits
  <2> QED BY <1>3, <1>4, <2>2, <2>3 DEF Verified, BudgetStops
<1> QED BY <1>5, <1>6, <1>7, <1>8

-----------------------------------------------------------------------------
(* The model.                                                              *)

\* Turn, field by field.
LEMMA TurnFields ==
  ASSUME NEW s \in Stage, NEW state \in StageStates, NEW ckpt \in Maybe,
         NEW score \in Maybe, NEW meta \in MetaType
  PROVE  LET t == Turn(s, state, ckpt, score, meta)
         IN  /\ t \in SnapshotIn({state}) /\ SameLineage(s, t) /\ t.stop = "NONE"
             /\ t.iteration = s.iteration /\ t.cost = s.cost /\ t.meta = meta
             /\ t.candCkpt = ckpt /\ t.candScore = score
  BY DEF Turn, Stage, SnapshotIn, Maybe, None, Stops, SameLineage, SameModel

\* _budget_abort
LEMMA ModelAbortFields ==
  ASSUME NEW M, NEW s \in Stage, NEW ckpt \in Nat, NEW cost \in Nat
  PROVE  LET t == Final(ModelAbort(M, s, ckpt, cost))
         IN  Aborted(s, t) /\ t.meta = s.meta
<1> DEFINE a == Turn(s, "ABORTED", ckpt, s.candScore, s.meta)
           stop == BudgetStop(cost, M.perStage)
           total == s.cost + cost
<1>1. /\ a \in SnapshotIn({"ABORTED"}) /\ SameLineage(s, a) /\ a.cost = s.cost
      /\ a.meta = s.meta
  <2> DEFINE score == s.candScore
             meta == s.meta
  <2>1. /\ "ABORTED" \in StageStates /\ ckpt \in Maybe /\ score \in Maybe
        /\ meta \in MetaType
    BY FieldTypes DEF StageStates, States, Maybe, Stage
  <2> HIDE DEF score, meta
  <2>2. LET t == Turn(s, "ABORTED", ckpt, score, meta)
        IN  /\ t \in SnapshotIn({"ABORTED"}) /\ SameLineage(s, t) /\ t.cost = s.cost
            /\ t.meta = meta
    BY <2>1, TurnFields
  <2> QED BY <2>2 DEF score, meta
<1>2. total \in Nat /\ stop \in BudgetStops
  BY FieldTypes DEF Stage, BudgetStop, BudgetStops
<1>3. Final(ModelAbort(M, s, ckpt, cost)) = [a EXCEPT !.cost = @ + cost, !.stop = stop]
  BY FinalOfOne DEF ModelAbort, Edge
<1> HIDE DEF a, stop
<1>4. Final(ModelAbort(M, s, ckpt, cost)) = [a EXCEPT !.cost = total, !.stop = stop]
  BY <1>1, <1>3
<1> HIDE DEF total
<1>5. LET t == [a EXCEPT !.cost = total, !.stop = stop]
      IN  Aborted(s, t) /\ t.meta = s.meta
  BY <1>1, <1>2 DEF Aborted, SnapshotIn, SameLineage, SameModel, BudgetStops, Stops
<1> QED BY <1>4, <1>5

\* training_completed: abort, or a candidate to evaluate.
Trained(M, s, ckpt, cost, e) ==
  /\ e \in SnapshotIn({"EVALUATE_MODEL"}) /\ SameLineage(s, e)
  /\ e.cost = s.cost + cost /\ e.cost <= M.total
  /\ e.candCkpt = ckpt /\ e.meta.modelScore = s.meta.modelScore

LEMMA TrainingOutcome ==
  ASSUME NEW M, ModelLimits(M), NEW s \in Stage, NEW ckpt \in Nat, NEW cost \in Nat
  PROVE  LET e == Final(TrainingCompleted(M, s, ckpt, cost))
         IN  \/ Aborted(s, e) /\ e.meta = s.meta
             \/ Trained(M, s, ckpt, cost, e)
<1> DEFINE e == Final(TrainingCompleted(M, s, ckpt, cost))
<1>1. CASE ~WithinBudgets(s, cost, M.perStage, M.total)
  BY <1>1, ModelAbortFields DEF TrainingCompleted
<1>2. CASE WithinBudgets(s, cost, M.perStage, M.total)
  <2> DEFINE meta == [NoMeta EXCEPT !.dataset = s.meta.dataset,
                                    !.modelScore = s.meta.modelScore]
             v == Turn(s, "EVALUATE_MODEL", ckpt, None, meta)
             total == s.cost + cost
  <2>1. s.meta \in MetaType /\ total \in Nat /\ total <= M.total
    BY <1>2, FieldTypes DEF Stage, WithinBudgets
  <2>2. meta \in MetaType /\ meta.modelScore = s.meta.modelScore
    BY <2>1, NoMetaType DEF MetaType, NoMeta
  <2>3. e = [v EXCEPT !.cost = @ + cost]
    BY <1>2, FinalOfOne DEF TrainingCompleted, Edge
  <2> HIDE DEF meta, e
  <2>4. /\ v \in SnapshotIn({"EVALUATE_MODEL"}) /\ SameLineage(s, v)
        /\ v.cost = s.cost /\ v.meta = meta /\ v.candCkpt = ckpt
    <3>1. "EVALUATE_MODEL" \in StageStates /\ ckpt \in Maybe /\ None \in Maybe
      BY DEF StageStates, Maybe
    <3> QED BY <2>2, <3>1, TurnFields
  <2> HIDE DEF v
  <2>5. e = [v EXCEPT !.cost = total]
    BY <2>3, <2>4
  <2> HIDE DEF total
  <2>6. Trained(M, s, ckpt, cost, e)
    BY <2>1, <2>2, <2>4, <2>5 DEF Trained, SnapshotIn, SameLineage, SameModel, total
  <2> QED BY <2>6 DEF e
<1> QED BY <1>1, <1>2

\* A decided candidate: what the review, the promotion or the rollback starts
\* from.
ModelDecided(s, score, state, t) ==
  /\ t \in SnapshotIn({state}) /\ SameLineage(s, t) /\ t.stop = "NONE"
  /\ t.candCkpt = s.candCkpt /\ t.candScore = score /\ t.meta = s.meta

LEMMA DecisionOutcome ==
  ASSUME NEW s \in Stage, s.candCkpt \in Nat, NEW score \in Nat
  PROVE  /\ ModelDecided(s, score, "PROMOTE_MODEL", Final(PromotionDecision(s, score)))
         /\ Final(PromotionDecision(s, score)).cost = s.cost
         /\ ModelDecided(s, score, "ROLLBACK_MODEL", Final(RollbackDecision(s, score)))
         /\ Final(RollbackDecision(s, score)).cost = s.cost
<1>1. /\ Final(PromotionDecision(s, score)) = Turn(s, "PROMOTE_MODEL", s.candCkpt, score, s.meta)
      /\ Final(RollbackDecision(s, score)) = Turn(s, "ROLLBACK_MODEL", s.candCkpt, score, s.meta)
  BY FinalOfOne DEF PromotionDecision, RollbackDecision, Edge
<1> DEFINE ckpt == s.candCkpt
           meta == s.meta
           new == score
<1>2. /\ "PROMOTE_MODEL" \in StageStates /\ "ROLLBACK_MODEL" \in StageStates
      /\ ckpt \in Maybe /\ new \in Maybe /\ meta \in MetaType
  BY FieldTypes DEF StageStates, States, Maybe, Stage
<1> HIDE DEF ckpt, meta, new
<1>3. ASSUME NEW state \in StageStates
      PROVE  LET t == Turn(s, state, ckpt, new, meta)
             IN  /\ t \in SnapshotIn({state}) /\ SameLineage(s, t)
                 /\ t.stop = "NONE" /\ t.cost = s.cost /\ t.meta = meta
                 /\ t.candCkpt = ckpt /\ t.candScore = new
  BY <1>2, TurnFields
<1> QED BY <1>1, <1>2, <1>3 DEF ModelDecided, ckpt, meta, new

\* evaluation_completed
LEMMA ModelEvaluationOutcome ==
  ASSUME NEW M, ModelLimits(M), NEW s \in Stage, s.candCkpt \in Nat,
         NEW score \in Nat, NEW cost \in Nat
  PROVE  LET t == Final(ModelEvaluation(M, s, score, cost))
         IN  \/ Aborted(s, t) /\ t.meta = s.meta
             \/ /\ t.cost <= M.total
                /\ \/ ModelDecided(s, score, "ROLLBACK_MODEL", t)
                   \/ /\ ModelImproves(M, s, score) /\ M.approval
                      /\ ModelDecided(s, score, "MODEL_REVIEW_PENDING", t)
                   \/ /\ ModelImproves(M, s, score)
                      /\ ModelDecided(s, score, "PROMOTE_MODEL", t)
<1> DEFINE t == Final(ModelEvaluation(M, s, score, cost))
           paid == [s EXCEPT !.cost = @ + cost]
<1>1. /\ paid \in Stage /\ SameLineage(s, paid) /\ paid.cost = s.cost + cost
      /\ paid.candCkpt = s.candCkpt /\ paid.meta = s.meta
  BY Paid
<1>2. CASE ~WithinBudgets(s, cost, M.perStage, M.total)
  BY <1>2, ModelAbortFields DEF ModelEvaluation
<1>3. CASE WithinBudgets(s, cost, M.perStage, M.total) /\ ~ModelImproves(M, s, score)
  <2>1. t = Final(RollbackDecision(paid, score))
    BY <1>3 DEF ModelEvaluation
  <2> HIDE DEF paid
  <2> QED BY <1>1, <1>3, <2>1, DecisionOutcome
          DEF WithinBudgets, ModelDecided, SameLineage, SameModel
<1>4. CASE /\ WithinBudgets(s, cost, M.perStage, M.total)
           /\ ModelImproves(M, s, score) /\ M.approval
  <2>1. t = Turn(paid, "MODEL_REVIEW_PENDING", s.candCkpt, score, s.meta)
    BY <1>4, FinalOfOne DEF ModelEvaluation, Edge
  <2> HIDE DEF paid
  <2> DEFINE ckpt == s.candCkpt
             meta == s.meta
             new == score
  <2>2. /\ "MODEL_REVIEW_PENDING" \in StageStates /\ ckpt \in Maybe
        /\ new \in Maybe /\ meta \in MetaType
    BY FieldTypes DEF StageStates, States, Maybe, Stage
  <2>a. t = Turn(paid, "MODEL_REVIEW_PENDING", ckpt, new, meta)
    BY <2>1
  <2> HIDE DEF ckpt, t, meta, new
  <2>3. ModelDecided(paid, score, "MODEL_REVIEW_PENDING", t) /\ t.cost = paid.cost
    <3>1. LET u == Turn(paid, "MODEL_REVIEW_PENDING", ckpt, new, meta)
          IN  /\ u \in SnapshotIn({"MODEL_REVIEW_PENDING"}) /\ SameLineage(paid, u)
              /\ u.stop = "NONE" /\ u.cost = paid.cost /\ u.meta = meta
              /\ u.candCkpt = ckpt /\ u.candScore = new
      BY <1>1, <2>2, TurnFields
    <3>2. ckpt = paid.candCkpt /\ meta = paid.meta /\ new = score
      BY <1>1 DEF ckpt, meta, new
    <3> QED BY <2>a, <3>1, <3>2 DEF ModelDecided
  <2>4. ModelDecided(s, score, "MODEL_REVIEW_PENDING", t) /\ t.cost <= M.total
    BY <1>1, <1>4, <2>3 DEF WithinBudgets, ModelDecided, SameLineage, SameModel
  <2> QED BY <1>4, <2>4 DEF t
<1>5. CASE /\ WithinBudgets(s, cost, M.perStage, M.total)
           /\ ModelImproves(M, s, score) /\ ~M.approval
  <2>1. t = Final(PromotionDecision(paid, score))
    BY <1>5 DEF ModelEvaluation
  <2> HIDE DEF paid
  <2> QED BY <1>1, <1>5, <2>1, DecisionOutcome
          DEF WithinBudgets, ModelDecided, SameLineage, SameModel
<1> QED BY <1>2, <1>3, <1>4, <1>5

-----------------------------------------------------------------------------
(* The inductive invariant, one lemma per update of the record.            *)

Pendings == {"none", "harness", "dataset", "checkpoint"}

\* The policies' limits and the shared total of a configuration.
LEMMA LimitTypes ==
  ASSUME TypeOK
  PROVE  /\ OuterLimits(limits.outer) /\ TraceLimits(limits.trace)
         /\ ModelLimits(limits.model)
         /\ limits.outer.maxIterations \in Nat /\ limits.outer.maxIterations < IdSpan
         /\ limits.outer.maxIterations >= 1 /\ limits.outer.patience >= 1
         /\ limits.outer.patience \in Nat /\ limits.outer.total \in Nat
         /\ limits.outer.minImprovement \in Nat /\ limits.model.minImprovement \in Nat
         /\ limits.trace.maxBatches \in Nat /\ limits.trace.maxBatches >= 1
         /\ limits.trace.target \in Nat
         /\ limits.trace.total = limits.outer.total
         /\ limits.model.total = limits.outer.total
         /\ limits.maxCycles \in Nat /\ limits.maxCycles >= 1
         /\ limits.top \in Nat /\ limits.slimGain \in Nat
  BY ConfigAssumption DEF Configuration, TypeOK, OuterLimits, TraceLimits, ModelLimits

\* The record's fields have their types.
LEMMA RunTypes ==
  ASSUME TypeOK
  PROVE  /\ run.snap \in SnapshotIn(States) /\ run.snap \in Stage
         /\ run.modelScore \in Nat /\ run.completed \in Nat /\ run.pending \in Pendings
<1>1. /\ run.snap \in SnapshotIn(States) /\ run.modelScore \in Nat
      /\ run.completed \in Nat /\ run.pending \in Pendings
  BY DEF TypeOK, RunType, Pendings
<1>2. run.snap \in Stage
  BY <1>1 DEF Stage, SnapshotIn, StageStates
<1> QED BY <1>1, <1>2

\* _update_run, field by field.
LEMMA MovedFields ==
  ASSUME TypeOK, NEW t \in SnapshotIn(States), NEW completed \in Nat,
         NEW pending \in Pendings,
         run' = Moved(run, t, completed, pending), limits' = limits
  PROVE  /\ TypeOK'
         /\ run'.snap = t /\ run'.completed = completed /\ run'.pending = pending
         /\ run'.modelScore = IF t.meta.modelScore # None THEN t.meta.modelScore
                              ELSE run.modelScore
<1>1. t.meta.modelScore \in Maybe
  BY DEF SnapshotIn, MetaType
<1> DEFINE score == IF t.meta.modelScore # None THEN t.meta.modelScore ELSE run.modelScore
<1>2. score \in Nat
  BY <1>1, RunTypes DEF Maybe
<1>3. run' = [snap |-> t, completed |-> completed, pending |-> pending, modelScore |-> score]
  BY DEF Moved
<1> HIDE DEF score
<1>4. run' \in RunType
  BY <1>2, <1>3 DEF RunType, Pendings
<1>5. TypeOK'
  BY <1>4 DEF TypeOK
<1> QED BY <1>3, <1>5 DEF score

\* What AcceptedOnlyImproves says of one step.
Improving ==
  LET old == run.snap
      new == run'.snap
  IN  /\ new.ckpt # old.ckpt =>
           /\ old.state = "PROMOTE_MODEL" /\ new.state = "SLIM_HARNESS"
           /\ new.ckpt = old.candCkpt
           /\ run'.modelScore > run.modelScore + limits.model.minImprovement
           /\ new.harness = old.harness
      /\ new.harness # old.harness =>
           /\ old.state \in {"MUTATE_HARNESS", "HARNESS_REVIEW_PENDING", "SLIM_HARNESS"}
           /\ new.score > old.score
      /\ new.ckpt = old.ckpt => run'.modelScore = run.modelScore
      /\ new.harness = old.harness => new.score = old.score

\* An aborted run keeps every promise.
LEMMA AbortKeeps ==
  ASSUME IInv, run.snap.state # "SLIM_HARNESS",
         NEW t, Aborted(run.snap, t), t.meta.modelScore \in {None, run.modelScore},
         run' = Moved(run, t, run.completed, "none"), limits' = limits
  PROVE  IInv' /\ Improving
<1>1. t \in SnapshotIn(States)
  BY DEF Aborted, SnapshotIn, States
<1>2. /\ TypeOK' /\ run'.snap = t /\ run'.completed = run.completed
      /\ run'.pending = "none" /\ run'.modelScore = run.modelScore
  BY <1>1, MovedFields, RunTypes DEF IInv, Pendings
<1>3. t.state = "ABORTED" /\ SameLineage(run.snap, t) /\ t.stop \in BudgetStops
  BY DEF Aborted, SnapshotIn
<1>4. BudgetRespected' /\ SearchIsBounded'
  BY <1>2, <1>3 DEF IInv, BudgetRespected, SearchIsBounded, BudgetStops, SameLineage,
                    SameModel
<1>5. CandidatesAreJustified' /\ PendingIsCurrent' /\ StatesAreReachable'
  BY <1>2, <1>3 DEF IInv, CandidatesAreJustified, PendingIsCurrent, StatesAreReachable,
                    FrozenLineage, SameLineage, SameModel
<1>6. HarnessIsOlder' /\ ModelIsOlder' /\ CarriedScore'
  BY <1>2, <1>3
  DEF IInv, HarnessIsOlder, ModelIsOlder, CarriedScore, SameLineage, SameModel
<1>7. Improving
  BY <1>2, <1>3 DEF Improving, SameLineage, SameModel
<1> QED BY <1>2, <1>4, <1>5, <1>6, <1>7 DEF IInv

\* An attempt that was accepted or rejected, without or with a reviewer.
LEMMA DecidedKeeps ==
  ASSUME IInv, run.snap.state \in {"MUTATE_HARNESS", "HARNESS_REVIEW_PENDING"},
         NEW t, NEW paid \in Stage, SameLineage(run.snap, paid),
         paid.iteration = run.snap.iteration, paid.plateau = run.snap.plateau,
         paid.cost <= limits.outer.total, Decided(limits.outer, paid, t),
         \/ Rejected(limits.outer, paid, t)
         \/ /\ t.harness = Candidate(run.snap.cycle, run.snap.iteration)
            /\ t.score > run.snap.score /\ t.plateau = 0,
         run' = Moved(run, t, run.completed, "none"), limits' = limits
  PROVE  IInv' /\ Improving
<1> DEFINE s == run.snap
<1>1. t \in SnapshotIn(States) /\ t.meta.modelScore = None
  BY DEF Decided, SnapshotIn, States, NoMeta
<1>2. /\ TypeOK' /\ run'.snap = t /\ run'.completed = run.completed
      /\ run'.pending = "none" /\ run'.modelScore = run.modelScore
  BY <1>1, MovedFields, RunTypes DEF IInv, Pendings
<1>3. /\ s.cycle \in Nat /\ s.iteration \in Nat /\ s.plateau \in Nat /\ s.harness \in Nat
      /\ s.score \in Nat
  BY RunTypes, FieldTypes DEF IInv
<1>4. /\ t.cycle = s.cycle /\ t.ckpt = s.ckpt /\ t.peak = s.peak /\ t.stop = "NONE"
      /\ t.cost <= limits.outer.total /\ t.meta = NoMeta
      /\ t.state \in {"MUTATE_HARNESS", "HARVEST_TRACES"}
      /\ t.state = "MUTATE_HARNESS" =>
           /\ t.iteration = s.iteration + 1
           /\ t.plateau < limits.outer.patience
           /\ s.iteration < limits.outer.maxIterations
      /\ t.state = "HARVEST_TRACES" => t.iteration = s.iteration
  BY DEF Decided, SameLineage, SameModel, SnapshotIn
<1>5. \/ t.harness = s.harness /\ t.score = s.score /\ t.plateau = s.plateau + 1
      \/ /\ t.harness = Candidate(s.cycle, s.iteration) /\ t.score > s.score
         /\ t.plateau = 0
  BY DEF Rejected, SameLineage, SameModel
<1>6. /\ s.iteration \in 1..limits.outer.maxIterations /\ s.plateau < s.iteration
      /\ s.cycle = run.completed + 1 /\ run.completed <= limits.maxCycles
      /\ run.completed < limits.maxCycles
      /\ s.harness < Candidate(s.cycle, s.iteration)
      /\ s.harness < Slim(s.cycle + 1) /\ s.harness # Slim(s.cycle)
  BY DEF IInv, SearchIsBounded, HarnessIsOlder, StatesAreReachable
<1>7. /\ limits.outer.maxIterations \in Nat /\ limits.outer.maxIterations < IdSpan
      /\ limits.outer.patience \in Nat /\ limits.outer.total \in Nat
      /\ limits.trace.maxBatches \in Nat /\ limits.trace.maxBatches >= 1
  BY LimitTypes DEF IInv
<1> HIDE DEF s
<1>8. BudgetRespected'
  BY <1>2, <1>4 DEF BudgetRespected
<1>9. SearchIsBounded'
  BY <1>2, <1>3, <1>4, <1>5, <1>6, <1>7 DEF SearchIsBounded, NoMeta
<1>10. CandidatesAreJustified' /\ PendingIsCurrent' /\ StatesAreReachable'
  <2>1. FrozenLineage(s)
    BY DEF IInv, CandidatesAreJustified, s
  <2> QED BY <1>2, <1>4, <1>6, <2>1
          DEF CandidatesAreJustified, PendingIsCurrent, StatesAreReachable, FrozenLineage
<1>11. HarnessIsOlder' /\ CarriedScore'
  BY <1>1, <1>2, <1>3, <1>4, <1>5, <1>6, <1>7
  DEF HarnessIsOlder, CarriedScore, Candidate, Slim, IdSpan
<1>12. Improving /\ ModelIsOlder'
  <2>1. s.ckpt < s.cycle /\ s.ckpt \in Nat /\ s.cycle \in Nat
    BY RunTypes, FieldTypes DEF IInv, ModelIsOlder, s
  <2>2. ModelIsOlder'
    BY <1>2, <1>4, <2>1 DEF ModelIsOlder
  <2>3. Improving
    BY <1>2, <1>3, <1>4, <1>5, <1>6 DEF Improving, s
  <2> QED BY <2>2, <2>3
<1> QED BY <1>2, <1>8, <1>9, <1>10, <1>11, <1>12 DEF IInv

\* A candidate on its way to its evaluation.
OnItsWay(s, candidate, t) ==
  /\ t \in Stage /\ SameLineage(s, t) /\ t.iteration = s.iteration
  /\ t.plateau = s.plateau /\ t.cost = s.cost /\ t.candHarness = candidate

LEMMA CreatedFields ==
  ASSUME NEW s \in Stage, NEW candidate \in Nat
  PROVE  OnItsWay(s, candidate, Final(CandidateCreated(s, candidate)))
<1> DEFINE in == Enter(s, "VALIDATE_HARNESS")
           t == [in EXCEPT !.candHarness = candidate, !.candScore = None]
<1>1. /\ in \in SnapshotIn({"VALIDATE_HARNESS"}) /\ Entered(s, in)
      /\ in.plateau = s.plateau /\ in.cost = s.cost
  BY EnterFields DEF StageStates
<1>2. Final(CandidateCreated(s, candidate)) = t
  BY FinalOfOne DEF CandidateCreated, Edge
<1> HIDE DEF in
<1>3. OnItsWay(s, candidate, t)
  BY <1>1 DEF OnItsWay, Stage, SnapshotIn, StageStates, Entered, SameLineage,
              SameModel, Maybe, None
<1> QED BY <1>2, <1>3

LEMMA ValidatedFields ==
  ASSUME NEW L, NEW s \in Stage
  PROVE  OnItsWay(s, s.candHarness, Final(ValidationCompleted(L, s, TRUE)))
<1> DEFINE in == Enter(s, "EVALUATE_HARNESS")
           t == [in EXCEPT !.candScore = None]
<1>1. /\ in \in SnapshotIn({"EVALUATE_HARNESS"}) /\ Entered(s, in)
      /\ in.plateau = s.plateau /\ in.cost = s.cost /\ in.candHarness = s.candHarness
  BY EnterFields DEF StageStates
<1>2. Final(ValidationCompleted(L, s, TRUE)) = t
  BY FinalOfOne DEF ValidationCompleted, Edge
<1> HIDE DEF in
<1>3. OnItsWay(s, s.candHarness, t)
  BY <1>1 DEF OnItsWay, Stage, SnapshotIn, StageStates, Entered, SameLineage,
              SameModel, Maybe, None
<1> QED BY <1>2, <1>3

\* A candidate sent to its reviewer.
LEMMA SentKeeps ==
  ASSUME IInv, run.snap.state = "MUTATE_HARNESS", limits.outer.approval,
         NEW t, t \in SnapshotIn({"HARNESS_REVIEW_PENDING"}),
         SameLineage(run.snap, t), t.iteration = run.snap.iteration,
         t.plateau = run.snap.plateau, t.meta = NoMeta, t.stop = "NONE",
         t.cost <= limits.outer.total,
         t.candHarness = Candidate(run.snap.cycle, run.snap.iteration),
         t.candScore > run.snap.score + limits.outer.minImprovement,
         run' = Moved(run, t, run.completed, "none"), limits' = limits
  PROVE  IInv' /\ Improving
<1>1. /\ t \in SnapshotIn(States) /\ t.meta.modelScore = None
      /\ t.state = "HARNESS_REVIEW_PENDING"
  BY DEF SnapshotIn, States, NoMeta
<1>2. /\ TypeOK' /\ run'.snap = t /\ run'.completed = run.completed
      /\ run'.pending = "none" /\ run'.modelScore = run.modelScore
  BY <1>1, MovedFields, RunTypes DEF IInv, Pendings
<1>3. BudgetRespected' /\ CarriedScore' /\ PendingIsCurrent' /\ Improving
  BY <1>1, <1>2 DEF BudgetRespected, CarriedScore, PendingIsCurrent, Improving,
                    SameLineage, SameModel
<1>4. SearchIsBounded' /\ HarnessIsOlder' /\ ModelIsOlder' /\ StatesAreReachable'
  BY <1>1, <1>2 DEF IInv, SearchIsBounded, HarnessIsOlder, ModelIsOlder,
                    StatesAreReachable, SameLineage, SameModel
<1>5. CandidatesAreJustified'
  BY <1>1, <1>2 DEF IInv, CandidatesAreJustified, FrozenLineage, SameLineage, SameModel
<1> QED BY <1>2, <1>3, <1>4, <1>5 DEF IInv

LEMMA AttemptKeeps ==
  ASSUME IInv, NEW valid \in BOOLEAN, NEW score \in Nat, NEW cost \in Nat,
         HarnessAttempt(valid, score, cost)
  PROVE  IInv' /\ Improving
<1> DEFINE s == run.snap
           L == limits.outer
           candidate == Candidate(s.cycle, s.iteration)
           created == Final(CandidateCreated(s, candidate))
           evaluated == Final(ValidationCompleted(L, created, TRUE))
           paid == [evaluated EXCEPT !.cost = @ + cost]
<1>1. /\ s.state = "MUTATE_HARNESS" /\ limits' = limits /\ s \in Stage
      /\ OuterLimits(L) /\ candidate \in Nat /\ s.score \in Nat
      /\ L.minImprovement \in Nat /\ L.total = limits.outer.total /\ s.cost <= L.total
  <2>1. s.state = "MUTATE_HARNESS" /\ limits' = limits
    BY DEF HarnessAttempt, At
  <2>2. s.cycle \in Nat /\ s.iteration \in Nat /\ s.score \in Nat /\ s \in Stage
    BY RunTypes, FieldTypes DEF IInv
  <2>3. candidate \in Nat
    BY <2>2 DEF Candidate, IdSpan
  <2>4. s.cost <= limits.outer.total
    BY <2>1 DEF IInv, BudgetRespected
  <2>5. OuterLimits(L) /\ L.minImprovement \in Nat
    BY LimitTypes DEF IInv
  <2> QED BY <2>1, <2>2, <2>3, <2>4, <2>5
<1>2. OnItsWay(s, candidate, created)
  BY <1>1, CreatedFields
<1>3. OnItsWay(s, candidate, evaluated)
  BY <1>2, ValidatedFields DEF OnItsWay, SameLineage, SameModel
<1>4. CASE valid = FALSE
  <2> DEFINE t == Final(ValidationCompleted(L, created, FALSE))
  <2>1. run' = Moved(run, t, run.completed, "none")
    BY <1>4 DEF HarnessAttempt, Follow
  <2>2. t = Final(Advance(L, << Reject(created, None) >>))
    BY DEF ValidationCompleted
  <2>3. None \in Maybe
    BY DEF Maybe
  <2> HIDE DEF created, t, L
  <2>4. Rejected(L, created, t)
    BY <1>1, <1>2, <2>2, <2>3, RejectOutcome DEF OnItsWay
  <2>5. Decided(L, created, t)
    BY <2>4 DEF Rejected
  <2> QED BY <1>1, <1>2, <2>1, <2>4, <2>5, DecidedKeeps DEF OnItsWay, L
<1>5. CASE valid = TRUE
  <2> DEFINE t == Final(OuterEvaluation(L, evaluated, score, cost))
  <2>1. run' = Moved(run, t, run.completed, "none")
    BY <1>5 DEF HarnessAttempt, Follow
  <2> HIDE DEF created, evaluated, t
  <2>2. /\ evaluated \in Stage /\ evaluated.candHarness = candidate
        /\ SameLineage(s, evaluated) /\ evaluated.iteration = s.iteration
        /\ evaluated.plateau = s.plateau /\ evaluated.cost = s.cost
    BY <1>3 DEF OnItsWay
  <2>3. /\ paid \in Stage /\ SameLineage(evaluated, paid)
        /\ paid.cost = evaluated.cost + cost /\ paid.iteration = evaluated.iteration
        /\ paid.plateau = evaluated.plateau /\ paid.candHarness = evaluated.candHarness
    BY <2>2, Paid
  <2>4. \/ Aborted(evaluated, t) /\ t.meta = NoMeta
        \/ evaluated.cost + cost <= L.total /\ Rejected(L, paid, t)
        \/ /\ evaluated.cost + cost <= L.total /\ HarnessImproves(L, evaluated, score)
           /\ L.approval /\ SentToReview(evaluated, score, t)
           /\ t.cost = evaluated.cost + cost
        \/ /\ evaluated.cost + cost <= L.total /\ HarnessImproves(L, evaluated, score)
           /\ Accepted(L, paid, score, t)
    BY <1>1, <2>2, EvaluationOutcome DEF t
  <2> HIDE DEF paid
  <2>5. SameLineage(s, paid) /\ paid.iteration = s.iteration /\ paid.plateau = s.plateau
    BY <2>2, <2>3 DEF SameLineage, SameModel
  <2>6. CASE Aborted(evaluated, t) /\ t.meta = NoMeta
    <3>1. Aborted(s, t) /\ t.meta.modelScore = None
      BY <2>2, <2>6 DEF Aborted, SameLineage, SameModel, NoMeta
    <3> QED BY <1>1, <2>1, <3>1, AbortKeeps
  <2>7. CASE evaluated.cost + cost <= L.total /\ Rejected(L, paid, t)
    <3>1. Decided(L, paid, t) /\ paid.cost <= limits.outer.total
      BY <2>3, <2>7 DEF Rejected
    <3> QED BY <1>1, <2>1, <2>3, <2>5, <2>7, <3>1, DecidedKeeps
  <2>8. CASE /\ evaluated.cost + cost <= L.total /\ HarnessImproves(L, evaluated, score)
             /\ L.approval /\ SentToReview(evaluated, score, t)
             /\ t.cost = evaluated.cost + cost
    <3>1. /\ t \in SnapshotIn({"HARNESS_REVIEW_PENDING"}) /\ SameLineage(s, t)
          /\ t.iteration = s.iteration /\ t.plateau = s.plateau /\ t.meta = NoMeta
          /\ t.stop = "NONE" /\ t.candHarness = candidate
          /\ t.cost <= limits.outer.total
      BY <2>2, <2>8 DEF SentToReview, Entered, SameLineage, SameModel
    <3>2. t.candScore > s.score + limits.outer.minImprovement
      BY <2>2, <2>8 DEF SentToReview, HarnessImproves, SameLineage
    <3> QED BY <1>1, <2>1, <2>8, <3>1, <3>2, SentKeeps
  <2>9. CASE /\ evaluated.cost + cost <= L.total /\ HarnessImproves(L, evaluated, score)
             /\ Accepted(L, paid, score, t)
    <3>1. Decided(L, paid, t) /\ paid.cost <= limits.outer.total
      BY <2>3, <2>9 DEF Accepted
    <3>2. t.harness = candidate /\ t.score = score /\ t.plateau = 0
      BY <2>2, <2>3, <2>9 DEF Accepted
    <3>3. score > s.score
      BY <1>1, <2>2, <2>9 DEF HarnessImproves, SameLineage
    <3> QED BY <1>1, <2>1, <2>3, <2>5, <3>1, <3>2, <3>3, DecidedKeeps
  <2> QED BY <2>4, <2>6, <2>7, <2>8, <2>9
<1> QED BY <1>4, <1>5

\* A step inside a cycle that keeps the lineage and decides no candidate.
LEMMA LineageKeeps ==
  ASSUME IInv, run.snap.state # "SLIM_HARNESS",
         NEW t \in SnapshotIn(States), SameLineage(run.snap, t),
         t.stop \notin BudgetStops, t.state # "ABORTED", t.cost <= limits.outer.total,
         t.meta.modelScore \in {None, run.modelScore}, NEW pending \in Pendings,
         run' = Moved(run, t, run.completed, pending), limits' = limits
  PROVE  /\ TypeOK' /\ BudgetRespected' /\ CarriedScore' /\ ModelIsOlder' /\ Improving
         /\ run'.snap = t /\ run'.completed = run.completed /\ run'.pending = pending
         /\ run'.modelScore = run.modelScore /\ t.cycle = run'.completed + 1
         /\ run'.completed <= limits.maxCycles
         /\ FrozenLineage(t) /\ t.harness < Slim(t.cycle + 1) /\ t.harness # Slim(t.cycle)
<1>1. /\ TypeOK' /\ run'.snap = t /\ run'.completed = run.completed
      /\ run'.pending = pending /\ run'.modelScore = run.modelScore
  BY MovedFields, RunTypes DEF IInv, Pendings
<1>2. BudgetRespected' /\ CarriedScore' /\ ModelIsOlder' /\ Improving
  BY <1>1 DEF IInv, BudgetRespected, CarriedScore, ModelIsOlder, Improving, BudgetStops,
              SameLineage, SameModel
<1>3. /\ t.cycle = run'.completed + 1 /\ run'.completed <= limits.maxCycles
      /\ FrozenLineage(t) /\ t.harness < Slim(t.cycle + 1) /\ t.harness # Slim(t.cycle)
  BY <1>1 DEF IInv, SearchIsBounded, CandidatesAreJustified, HarnessIsOlder, FrozenLineage,
              SameLineage, SameModel
<1> QED BY <1>1, <1>2, <1>3

LEMMA BatchKeeps ==
  ASSUME IInv, NEW batch \in Batches, NEW cost \in Costs, TraceBatch(batch, cost)
  PROVE  IInv' /\ Improving
<1> DEFINE s == run.snap
           T == limits.trace
           id == Candidate(s.cycle, s.iteration)
           h == Final(BatchHarvested(T, s, id, cost))
           t == Final(VerificationCompleted(T, h, batch.accepted, batch.raw))
<1>1. /\ s.state = "HARVEST_TRACES" /\ limits' = limits /\ s \in Stage
      /\ TraceLimits(T) /\ id \in Nat /\ cost \in Nat
      /\ batch.accepted \in Nat /\ batch.raw \in Nat
  <2>1. s.state = "HARVEST_TRACES" /\ limits' = limits
    BY DEF TraceBatch, At
  <2>2. s.cycle \in Nat /\ s.iteration \in Nat /\ s \in Stage
    BY RunTypes, FieldTypes DEF IInv
  <2>3. id \in Nat
    BY <2>2 DEF Candidate, IdSpan
  <2> QED BY <2>1, <2>2, <2>3, LimitTypes, ObservationAssumption DEF IInv
<1>2. \/ Aborted(s, h) /\ h.meta.modelScore = s.meta.modelScore
      \/ Harvested(T, s, id, cost, h)
  BY <1>1, HarvestOutcome
<1>3. run' = Moved(run, IF h.state = "ABORTED" THEN h ELSE t, run.completed, "none")
  BY DEF TraceBatch, Follow
<1>4. s.meta.modelScore \in {None, run.modelScore}
  BY DEF IInv, CarriedScore
<1> HIDE DEF h
<1>5. CASE Aborted(s, h) /\ h.meta.modelScore = s.meta.modelScore
  <2>1. h.state = "ABORTED"
    BY <1>5 DEF Aborted, SnapshotIn
  <2> QED BY <1>1, <1>3, <1>4, <1>5, <2>1, AbortKeeps
<1>6. CASE Harvested(T, s, id, cost, h)
  <2>1. /\ h \in Stage /\ h.state = "VERIFY_TRACES" /\ h.meta.batch \in Nat
        /\ SameLineage(s, h) /\ h.iteration = s.iteration /\ h.cost <= T.total
        /\ h.meta.batches = s.meta.batches + 1
        /\ h.meta.modelScore = s.meta.modelScore
    BY <1>1, <1>6 DEF Harvested, Stage, StageStates, SnapshotIn
  <2>2. Verified(T, h, t)
    BY <1>1, <2>1, VerificationOutcome
  <2>3. run' = Moved(run, t, run.completed, "none")
    BY <1>3, <2>1
  <2> HIDE DEF t
  <2>4. /\ t \in SnapshotIn(States) /\ SameLineage(s, t) /\ t.stop \notin BudgetStops
        /\ t.state \in {"STOPPED", "HARVEST_TRACES", "TRAIN_MODEL"}
        /\ t.cost <= limits.outer.total /\ t.meta.modelScore = s.meta.modelScore
    <3>1. t \in SnapshotIn(States) /\ t.state \in {"STOPPED", "HARVEST_TRACES", "TRAIN_MODEL"}
      BY <2>2 DEF Verified, SnapshotIn, States
    <3>2. T.total = limits.outer.total
      BY LimitTypes DEF IInv
    <3> QED BY <2>1, <2>2, <3>1, <3>2 DEF Verified, SameLineage, SameModel
  <2>5. /\ TypeOK' /\ BudgetRespected' /\ CarriedScore' /\ ModelIsOlder' /\ Improving
        /\ run'.snap = t /\ run'.completed = run.completed /\ run'.pending = "none"
        /\ run'.modelScore = run.modelScore /\ t.cycle = run'.completed + 1
        /\ run'.completed <= limits.maxCycles
        /\ FrozenLineage(t) /\ t.harness < Slim(t.cycle + 1) /\ t.harness # Slim(t.cycle)
    BY <1>1, <1>4, <2>3, <2>4, LineageKeeps DEF Pendings
  <2>6. /\ s.iteration \in Nat /\ s.meta.batches \in Nat
        /\ s.meta.batches < limits.trace.maxBatches
        /\ s.iteration <= limits.outer.maxIterations + s.meta.batches
        /\ limits.outer.maxIterations \in Nat /\ limits.trace.maxBatches \in Nat
        /\ run.completed < limits.maxCycles
    <3>1. s.meta.batches \in Nat /\ s.iteration \in Nat
      BY RunTypes, FieldTypes DEF IInv, MetaType
    <3> QED BY <1>1, <3>1, LimitTypes DEF IInv, SearchIsBounded, StatesAreReachable
  <2>7. \/ t.state = "STOPPED"
        \/ /\ t.state = "HARVEST_TRACES" /\ t.iteration = s.iteration + 1
           /\ t.meta.batches = s.meta.batches + 1
           /\ s.meta.batches + 1 < limits.trace.maxBatches
        \/ /\ t.state = "TRAIN_MODEL" /\ t.meta.dataset # None /\ t.meta.accepted >= 1
           /\ t.meta.verified >= limits.trace.target
           /\ t.meta.batches = s.meta.batches + 1
    BY <2>1, <2>2 DEF Verified, SnapshotIn
  <2> HIDE DEF s, T
  <2>8. SearchIsBounded'
    BY <1>1, <2>4, <2>5, <2>6, <2>7 DEF SearchIsBounded
  <2>9. CandidatesAreJustified' /\ HarnessIsOlder' /\ PendingIsCurrent' /\ StatesAreReachable'
    BY <1>1, <2>4, <2>5, <2>6
    DEF CandidatesAreJustified, HarnessIsOlder, PendingIsCurrent, StatesAreReachable
  <2> QED BY <2>5, <2>8, <2>9 DEF IInv
<1> QED BY <1>2, <1>5, <1>6

LEMMA DatasetReviewKeeps ==
  ASSUME IInv, DatasetReview
  PROVE  IInv' /\ Improving
<1> DEFINE s == run.snap
           meta == [s.meta EXCEPT !.review = "REQUESTED"]
           t == [s EXCEPT !.state = "DATA_REVIEW_PENDING", !.meta = meta]
<1>1. s.state = "TRAIN_MODEL" /\ limits' = limits /\ limits.datasetReview
  BY DEF DatasetReview, At
<1>2. s \in SnapshotIn(States) /\ s.meta \in MetaType
  BY RunTypes, FieldTypes DEF IInv
<1>3. /\ meta \in MetaType /\ meta.modelScore = s.meta.modelScore
      /\ meta.dataset = s.meta.dataset /\ meta.accepted = s.meta.accepted
      /\ meta.verified = s.meta.verified /\ meta.batches = s.meta.batches
  BY <1>2 DEF MetaType
<1>4. run' = Moved(run, t, run.completed, "dataset")
  BY <1>2 DEF DatasetReview, DatasetReviewSnapshot
<1> HIDE DEF meta
<1>5. /\ t \in SnapshotIn(States) /\ SameLineage(s, t) /\ t.state = "DATA_REVIEW_PENDING"
      /\ t.cost = s.cost /\ t.stop = s.stop /\ t.meta = meta
  BY <1>2, <1>3 DEF SnapshotIn, States, SameLineage, SameModel
<1> HIDE DEF t
<1>6. /\ TypeOK' /\ BudgetRespected' /\ CarriedScore' /\ ModelIsOlder' /\ Improving
      /\ run'.snap = t /\ run'.completed = run.completed /\ run'.pending = "dataset"
      /\ run'.modelScore = run.modelScore /\ t.cycle = run'.completed + 1
      /\ run'.completed <= limits.maxCycles
      /\ FrozenLineage(t) /\ t.harness < Slim(t.cycle + 1) /\ t.harness # Slim(t.cycle)
  <2>1. t.stop \notin BudgetStops /\ t.cost <= limits.outer.total
    BY <1>1, <1>5 DEF IInv, BudgetRespected, BudgetStops
  <2>2. t.meta.modelScore \in {None, run.modelScore}
    BY <1>3, <1>5 DEF IInv, CarriedScore
  <2> QED BY <1>1, <1>4, <1>5, <2>1, <2>2, LineageKeeps DEF Pendings
<1>7. SearchIsBounded'
  BY <1>1, <1>3, <1>5, <1>6 DEF IInv, SearchIsBounded
<1>8. CandidatesAreJustified' /\ HarnessIsOlder' /\ PendingIsCurrent' /\ StatesAreReachable'
  BY <1>1, <1>5, <1>6
  DEF IInv, CandidatesAreJustified, HarnessIsOlder, PendingIsCurrent, StatesAreReachable
<1> QED BY <1>6, <1>7, <1>8 DEF IInv

\* A candidate model that was evaluated or reviewed.
LEMMA CandidateKeeps ==
  ASSUME IInv, run.snap.state # "SLIM_HARNESS", NEW t,
         t \in SnapshotIn({"PROMOTE_MODEL", "ROLLBACK_MODEL", "MODEL_REVIEW_PENDING"}),
         SameLineage(run.snap, t), t.stop = "NONE", t.cost <= limits.outer.total,
         t.candCkpt = run.snap.cycle, t.candScore \in Nat,
         t.meta.modelScore = run.modelScore,
         t.state # "ROLLBACK_MODEL" =>
           t.candScore > run.modelScore + limits.model.minImprovement,
         t.state = "MODEL_REVIEW_PENDING" => limits.model.approval,
         run.completed < limits.maxCycles,
         run' = Moved(run, t, run.completed, "none"), limits' = limits
  PROVE  IInv' /\ Improving
<1>1. /\ t \in SnapshotIn(States)
      /\ t.state \in {"PROMOTE_MODEL", "ROLLBACK_MODEL", "MODEL_REVIEW_PENDING"}
  BY DEF SnapshotIn, States
<1>2. /\ TypeOK' /\ BudgetRespected' /\ CarriedScore' /\ ModelIsOlder' /\ Improving
      /\ run'.snap = t /\ run'.completed = run.completed /\ run'.pending = "none"
      /\ run'.modelScore = run.modelScore /\ t.cycle = run'.completed + 1
      /\ run'.completed <= limits.maxCycles
      /\ FrozenLineage(t) /\ t.harness < Slim(t.cycle + 1) /\ t.harness # Slim(t.cycle)
  BY <1>1, LineageKeeps DEF Pendings, BudgetStops
<1>3. t.candCkpt = t.cycle
  BY DEF SameLineage, SameModel
<1>4. SearchIsBounded' /\ HarnessIsOlder' /\ PendingIsCurrent'
  BY <1>1, <1>2 DEF SearchIsBounded, HarnessIsOlder, PendingIsCurrent
<1>5. CandidatesAreJustified' /\ StatesAreReachable'
  BY <1>1, <1>2, <1>3 DEF CandidatesAreJustified, StatesAreReachable
<1> QED BY <1>2, <1>4, <1>5 DEF IInv

\* The record's score in the metadata a model policy is given.
LEMMA PolicyInputFields ==
  ASSUME TypeOK
  PROVE  LET p == PolicyInput(run, run.snap)
         IN  /\ p \in Stage /\ SameLineage(run.snap, p) /\ p.cost = run.snap.cost
             /\ p.meta.modelScore = run.modelScore
<1> DEFINE s == run.snap
           meta == [s.meta EXCEPT !.modelScore = run.modelScore]
<1>1. s \in Stage /\ s.meta \in MetaType /\ run.modelScore \in Nat
  BY RunTypes, FieldTypes
<1>2. meta \in MetaType /\ meta.modelScore = run.modelScore
  BY <1>1 DEF MetaType, Maybe
<1>3. PolicyInput(run, s) = [s EXCEPT !.meta = meta]
  BY <1>1 DEF PolicyInput
<1> HIDE DEF meta
<1>4. LET p == [s EXCEPT !.meta = meta]
      IN  p \in Stage /\ SameLineage(s, p) /\ p.cost = s.cost /\ p.meta = meta
  BY <1>1, <1>2 DEF Stage, SnapshotIn, SameLineage, SameModel
<1> QED BY <1>2, <1>3, <1>4

LEMMA ModelLoopKeeps ==
  ASSUME IInv, NEW trainCost \in Nat, NEW score \in Nat, NEW evalCost \in Nat,
         ModelLoop(trainCost, score, evalCost)
  PROVE  IInv' /\ Improving
<1> DEFINE s == run.snap
           M == limits.model
           p == PolicyInput(run, s)
           e == Final(TrainingCompleted(M, p, p.cycle, trainCost))
           t == Final(ModelEvaluation(M, e, score, evalCost))
<1>1. /\ s.state = "TRAIN_MODEL" /\ limits' = limits /\ s.cycle \in Nat
      /\ ModelLimits(M) /\ M.total = limits.outer.total
      /\ run.completed < limits.maxCycles
  <2>1. s.state = "TRAIN_MODEL" /\ limits' = limits
    BY DEF ModelLoop, At
  <2>2. s.cycle \in Nat
    BY RunTypes, FieldTypes DEF IInv
  <2>3. run.completed < limits.maxCycles
    BY <2>1 DEF IInv, StatesAreReachable
  <2> QED BY <2>1, <2>2, <2>3, LimitTypes DEF IInv
<1>2. run' = Moved(run, IF e.state = "ABORTED" THEN e ELSE t, run.completed, "none")
  BY DEF ModelLoop, Follow
<1>3. /\ p \in Stage /\ SameLineage(s, p) /\ p.meta.modelScore = run.modelScore
      /\ p.cycle = s.cycle
  BY PolicyInputFields DEF IInv, SameLineage, SameModel
<1> HIDE DEF p
<1>4. \/ Aborted(p, e) /\ e.meta = p.meta
      \/ Trained(M, p, p.cycle, trainCost, e)
  BY <1>1, <1>3, TrainingOutcome
<1> HIDE DEF e
<1>5. ASSUME NEW u, Aborted(p, u), u.meta.modelScore = run.modelScore,
             run' = Moved(run, u, run.completed, "none")
      PROVE  IInv' /\ Improving
  <2>1. Aborted(s, u)
    BY <1>3, <1>5 DEF Aborted, SameLineage, SameModel
  <2> QED BY <1>1, <1>5, <2>1, AbortKeeps
<1>6. CASE Aborted(p, e) /\ e.meta = p.meta
  <2>1. e.state = "ABORTED"
    BY <1>6 DEF Aborted, SnapshotIn
  <2> QED BY <1>2, <1>3, <1>5, <1>6, <2>1
<1>7. CASE Trained(M, p, p.cycle, trainCost, e)
  <2>1. /\ e \in Stage /\ e.state = "EVALUATE_MODEL" /\ SameLineage(p, e)
        /\ e.candCkpt = s.cycle /\ e.candCkpt \in Nat
        /\ e.meta.modelScore = run.modelScore
    BY <1>1, <1>3, <1>7 DEF Trained, Stage, StageStates, SnapshotIn
  <2>2. run' = Moved(run, t, run.completed, "none")
    BY <1>2, <2>1
  <2>3. \/ Aborted(e, t) /\ t.meta = e.meta
        \/ /\ t.cost <= M.total
           /\ \/ ModelDecided(e, score, "ROLLBACK_MODEL", t)
              \/ /\ ModelImproves(M, e, score) /\ M.approval
                 /\ ModelDecided(e, score, "MODEL_REVIEW_PENDING", t)
              \/ /\ ModelImproves(M, e, score)
                 /\ ModelDecided(e, score, "PROMOTE_MODEL", t)
    BY <1>1, <2>1, ModelEvaluationOutcome
  <2> HIDE DEF t
  <2>4. CASE Aborted(e, t) /\ t.meta = e.meta
    <3>1. Aborted(p, t)
      BY <2>1, <2>4 DEF Aborted, SameLineage, SameModel
    <3> QED BY <1>5, <2>1, <2>2, <2>4, <3>1
  <2>5. ASSUME NEW state \in {"PROMOTE_MODEL", "ROLLBACK_MODEL", "MODEL_REVIEW_PENDING"},
               t.cost <= M.total, ModelDecided(e, score, state, t),
               state # "ROLLBACK_MODEL" => ModelImproves(M, e, score),
               state = "MODEL_REVIEW_PENDING" => M.approval
        PROVE  IInv' /\ Improving
    <3>1. /\ t \in SnapshotIn({"PROMOTE_MODEL", "ROLLBACK_MODEL", "MODEL_REVIEW_PENDING"})
          /\ SameLineage(s, t) /\ t.state = state /\ t.stop = "NONE"
          /\ t.candCkpt = s.cycle /\ t.candScore = score
          /\ t.meta.modelScore = run.modelScore
      BY <1>3, <2>1, <2>5 DEF ModelDecided, SnapshotIn, SameLineage, SameModel
    <3>2. state # "ROLLBACK_MODEL" => score > run.modelScore + limits.model.minImprovement
      BY <2>1, <2>5 DEF ModelImproves
    <3> QED BY <1>1, <2>2, <2>5, <3>1, <3>2, CandidateKeeps
  <2> QED BY <2>3, <2>4, <2>5
<1> QED BY <1>4, <1>6, <1>7

LEMMA RequestReviewKeeps ==
  ASSUME IInv, RequestReview
  PROVE  IInv' /\ Improving
<1> DEFINE s == run.snap
<1>1. PICK state \in DOMAIN ReviewOf :
        At(state) /\ run' = Moved(run, s, run.completed, ReviewOf[state])
  BY DEF RequestReview
<1> DEFINE pending == ReviewOf[state]
<1>2. /\ \/ s.state = "HARNESS_REVIEW_PENDING" /\ pending = "harness"
         \/ s.state = "MODEL_REVIEW_PENDING" /\ pending = "checkpoint"
      /\ limits' = limits /\ s \in SnapshotIn(States)
  BY <1>1, RunTypes DEF At, ReviewOf, IInv
<1> HIDE DEF pending
<1>3. /\ SameLineage(s, s) /\ s.stop \notin BudgetStops /\ s.state # "ABORTED"
      /\ s.cost <= limits.outer.total /\ s.meta.modelScore \in {None, run.modelScore}
      /\ pending \in Pendings
  BY <1>2 DEF IInv, BudgetRespected, CarriedScore, BudgetStops, Pendings, SameLineage,
              SameModel
<1>4. run' = Moved(run, s, run.completed, pending)
  BY <1>1 DEF pending
<1>5. /\ TypeOK' /\ BudgetRespected' /\ CarriedScore' /\ ModelIsOlder' /\ Improving
      /\ run'.snap = s /\ run'.completed = run.completed /\ run'.pending = pending
      /\ run'.modelScore = run.modelScore
  BY <1>2, <1>3, <1>4, LineageKeeps
<1>6. SearchIsBounded' /\ HarnessIsOlder'
  BY <1>2, <1>5 DEF IInv, SearchIsBounded, HarnessIsOlder
<1>7. CandidatesAreJustified' /\ PendingIsCurrent' /\ StatesAreReachable'
  BY <1>2, <1>5 DEF IInv, CandidatesAreJustified, PendingIsCurrent, StatesAreReachable
<1> QED BY <1>5, <1>6, <1>7 DEF IInv

LEMMA HarnessReviewKeeps ==
  ASSUME IInv, NEW approved \in BOOLEAN,
         Answered("harness", HarnessReview(limits.outer, run.snap, approved))
  PROVE  IInv' /\ Improving
<1> DEFINE s == run.snap
           L == limits.outer
           t == Final(HarnessReview(L, s, approved))
<1>1. /\ s.state = "HARNESS_REVIEW_PENDING" /\ limits' = limits
      /\ run' = Moved(run, t, run.completed, "none")
  BY DEF Answered, Follow, IInv, PendingIsCurrent
<1>2. /\ s \in Stage /\ OuterLimits(L) /\ SameLineage(s, s)
      /\ s.cost <= limits.outer.total
  BY <1>1, RunTypes, LimitTypes DEF IInv, BudgetRespected, SameLineage, SameModel
<1>3. /\ s.candHarness = Candidate(s.cycle, s.iteration) /\ s.candHarness \in Nat
      /\ s.candScore \in Nat /\ s.candScore > s.score
  <2>1. /\ s.cycle \in Nat /\ s.iteration \in Nat /\ s.score \in Nat
        /\ s.candScore \in Maybe
    BY <1>2, FieldTypes DEF Stage
  <2>2. /\ s.candHarness = Candidate(s.cycle, s.iteration)
        /\ s.candScore > s.score + L.minImprovement /\ L.minImprovement \in Nat
    BY <1>1, LimitTypes DEF IInv, CandidatesAreJustified
  <2> QED BY <2>1, <2>2 DEF Candidate, IdSpan, Maybe, None
<1> HIDE DEF t
<1>4. CASE approved
  <2>1. t = Final(Advance(L, << Accept(s, s.candScore) >>))
    BY <1>4 DEF t, HarnessReview
  <2> DEFINE score == s.candScore
  <2>2. score \in Nat /\ t = Final(Advance(L, << Accept(s, score) >>))
    BY <1>3, <2>1
  <2> HIDE DEF score
  <2>3. Accepted(L, s, score, t)
    BY <1>2, <1>3, <2>2, AcceptOutcome
  <2>4. Decided(L, s, t) /\ t.harness = s.candHarness /\ t.score = s.candScore /\ t.plateau = 0
    BY <2>3 DEF Accepted, score
  <2> QED BY <1>1, <1>2, <1>3, <2>4, DecidedKeeps
<1>5. CASE ~approved
  <2>1. t = Final(Advance(L, << Reject(s, s.candScore) >>))
    BY <1>5 DEF t, HarnessReview
  <2> DEFINE score == s.candScore
  <2>2. score \in Maybe /\ t = Final(Advance(L, << Reject(s, score) >>))
    BY <1>3, <2>1 DEF Maybe
  <2> HIDE DEF score
  <2>3. Rejected(L, s, t)
    BY <1>2, <2>2, RejectOutcome
  <2>4. Decided(L, s, t)
    BY <2>3 DEF Rejected
  <2> QED BY <1>1, <1>2, <2>3, <2>4, DecidedKeeps
<1> QED BY <1>4, <1>5

LEMMA DatasetReviewedKeeps ==
  ASSUME IInv, NEW approved \in BOOLEAN,
         Answered("dataset", DatasetReviewed(run.snap, approved))
  PROVE  IInv' /\ Improving
<1> DEFINE s == run.snap
           meta == [s.meta EXCEPT !.review = IF approved THEN "GRANTED" ELSE "DENIED"]
           state == IF approved THEN "TRAIN_MODEL" ELSE "STOPPED"
           stop == IF approved THEN "NONE" ELSE "APPROVAL_NOT_GRANTED"
           t == [s EXCEPT !.state = state, !.stop = stop, !.meta = meta]
<1>1. s.state = "DATA_REVIEW_PENDING" /\ limits' = limits
  BY DEF Answered, IInv, PendingIsCurrent
<1>2. s \in SnapshotIn(States) /\ s.meta \in MetaType
  BY RunTypes, FieldTypes DEF IInv
<1>3. /\ meta \in MetaType /\ meta.modelScore = s.meta.modelScore
      /\ meta.dataset = s.meta.dataset /\ meta.accepted = s.meta.accepted
      /\ meta.verified = s.meta.verified /\ meta.batches = s.meta.batches
  BY <1>2 DEF MetaType
<1>4. run' = Moved(run, t, run.completed, "none")
  BY <1>2, FinalOfOne DEF Answered, Follow, DatasetReviewed, Edge
<1>a. /\ state \in {"TRAIN_MODEL", "STOPPED"} /\ stop \in {"NONE", "APPROVAL_NOT_GRANTED"}
  OBVIOUS
<1> HIDE DEF meta, state, stop
<1>5. /\ t \in SnapshotIn(States) /\ SameLineage(s, t) /\ t.state = state
      /\ t.cost = s.cost /\ t.stop = stop /\ t.meta = meta
  BY <1>2, <1>3, <1>a DEF SnapshotIn, States, Stops, SameLineage, SameModel
<1> HIDE DEF t
<1>6. /\ TypeOK' /\ BudgetRespected' /\ CarriedScore' /\ ModelIsOlder' /\ Improving
      /\ run'.snap = t /\ run'.completed = run.completed /\ run'.pending = "none"
      /\ run'.modelScore = run.modelScore /\ t.cycle = run'.completed + 1
      /\ run'.completed <= limits.maxCycles
      /\ FrozenLineage(t) /\ t.harness < Slim(t.cycle + 1) /\ t.harness # Slim(t.cycle)
  <2>1. t.stop \notin BudgetStops /\ t.state # "ABORTED" /\ t.cost <= limits.outer.total
    BY <1>1, <1>5, <1>a DEF IInv, BudgetRespected, BudgetStops
  <2>2. t.meta.modelScore \in {None, run.modelScore}
    BY <1>3, <1>5 DEF IInv, CarriedScore
  <2> QED BY <1>1, <1>4, <1>5, <2>1, <2>2, LineageKeeps DEF Pendings
<1>7. SearchIsBounded'
  BY <1>1, <1>3, <1>5, <1>6, <1>a DEF IInv, SearchIsBounded
<1>8. CandidatesAreJustified' /\ HarnessIsOlder' /\ PendingIsCurrent' /\ StatesAreReachable'
  BY <1>1, <1>5, <1>6, <1>a
  DEF IInv, CandidatesAreJustified, HarnessIsOlder, PendingIsCurrent, StatesAreReachable
<1> QED BY <1>6, <1>7, <1>8 DEF IInv

LEMMA ModelReviewKeeps ==
  ASSUME IInv, NEW approved \in BOOLEAN,
         Answered("checkpoint", ModelReview(run.snap, approved))
  PROVE  IInv' /\ Improving
<1> DEFINE s == run.snap
           t == Final(ModelReview(s, approved))
           score == s.candScore
           state == IF approved THEN "PROMOTE_MODEL" ELSE "ROLLBACK_MODEL"
<1>1. /\ s.state = "MODEL_REVIEW_PENDING" /\ limits' = limits
      /\ run' = Moved(run, t, run.completed, "none")
  BY DEF Answered, Follow, IInv, PendingIsCurrent
<1>2. /\ s \in Stage /\ s.cost <= limits.outer.total /\ s.candCkpt = s.cycle
      /\ s.cycle \in Nat /\ s.meta.modelScore = run.modelScore
      /\ score \in Nat /\ score > run.modelScore + limits.model.minImprovement
      /\ run.completed < limits.maxCycles
  <2>1. /\ s \in Stage /\ s.cycle \in Nat /\ score \in Maybe /\ run.modelScore \in Nat
        /\ limits.model.minImprovement \in Nat
    BY RunTypes, FieldTypes, LimitTypes DEF IInv
  <2>2. /\ s.candCkpt = s.cycle /\ s.meta.modelScore = run.modelScore
        /\ score > run.modelScore + limits.model.minImprovement
    BY <1>1 DEF IInv, CandidatesAreJustified
  <2> QED BY <1>1, <2>1, <2>2 DEF IInv, BudgetRespected, StatesAreReachable, Maybe, None
<1> HIDE DEF score
<1>3. /\ ModelDecided(s, score, "PROMOTE_MODEL", Final(PromotionDecision(s, score)))
      /\ Final(PromotionDecision(s, score)).cost = s.cost
      /\ ModelDecided(s, score, "ROLLBACK_MODEL", Final(RollbackDecision(s, score)))
      /\ Final(RollbackDecision(s, score)).cost = s.cost
  BY <1>2, DecisionOutcome
<1>4. ModelDecided(s, score, state, t) /\ t.cost = s.cost
  BY <1>3 DEF ModelReview, score
<1> HIDE DEF t
<1>5. /\ t \in SnapshotIn({"PROMOTE_MODEL", "ROLLBACK_MODEL", "MODEL_REVIEW_PENDING"})
      /\ SameLineage(s, t) /\ t.state = state /\ t.stop = "NONE"
      /\ t.candCkpt = s.cycle /\ t.candScore = score /\ t.meta.modelScore = run.modelScore
  BY <1>2, <1>4 DEF ModelDecided, SnapshotIn
<1> QED BY <1>1, <1>2, <1>4, <1>5, CandidateKeeps

LEMMA PromotionKeeps ==
  ASSUME IInv, Promotion
  PROVE  IInv' /\ Improving
<1> DEFINE s == run.snap
           ckpt == s.candCkpt
           score == s.candScore
           meta == [s.meta EXCEPT !.modelScore = score]
           turned == Turn(s, "SLIM_HARNESS", None, None, meta)
           t == [turned EXCEPT !.ckpt = ckpt, !.peak = ckpt]
<1>1. /\ s.state = "PROMOTE_MODEL" /\ limits' = limits
      /\ run' = Moved(run, t, run.completed, "none")
  BY FinalOfOne DEF Promotion, At, Follow, PromotionCommitted, Edge
<1>2. /\ s \in Stage /\ s.meta \in MetaType /\ ckpt = s.cycle /\ ckpt \in Nat
      /\ score \in Nat /\ score > run.modelScore + limits.model.minImprovement
      /\ run.modelScore \in Nat /\ limits.model.minImprovement \in Nat
      /\ s.cost <= limits.outer.total /\ run.completed < limits.maxCycles
      /\ s.cycle = run.completed + 1 /\ s.ckpt = s.peak
      /\ s.harness < Slim(s.cycle + 1) /\ s.harness # Slim(s.cycle)
      /\ s.ckpt < s.cycle /\ run.completed <= limits.maxCycles
  <2>1. s \in Stage /\ s.meta \in MetaType /\ s.cycle \in Nat
    BY RunTypes, FieldTypes DEF IInv
  <2>2. /\ ckpt = s.cycle /\ score > run.modelScore + limits.model.minImprovement
        /\ score \in Nat /\ s.ckpt = s.peak /\ run.completed < limits.maxCycles
    BY <1>1 DEF IInv, CandidatesAreJustified, StatesAreReachable, FrozenLineage
  <2> QED BY <1>1, <2>1, <2>2, RunTypes, LimitTypes
          DEF IInv, BudgetRespected, SearchIsBounded, HarnessIsOlder, ModelIsOlder
<1>3. meta \in MetaType /\ meta.modelScore = score
  BY <1>2 DEF MetaType, Maybe
<1> HIDE DEF meta
<1>4. /\ turned \in SnapshotIn({"SLIM_HARNESS"}) /\ SameLineage(s, turned)
      /\ turned.stop = "NONE" /\ turned.cost = s.cost /\ turned.meta = meta
  <2>1. /\ "SLIM_HARNESS" \in StageStates /\ None \in Maybe
        /\ s \in Stage /\ meta \in MetaType
    BY <1>2, <1>3 DEF StageStates, States, Maybe
  <2>2. LET u == Turn(s, "SLIM_HARNESS", None, None, meta)
        IN  /\ u \in SnapshotIn({"SLIM_HARNESS"}) /\ SameLineage(s, u)
            /\ u.stop = "NONE" /\ u.cost = s.cost /\ u.meta = meta
    BY <2>1, TurnFields
  <2> QED BY <2>2
<1> HIDE DEF turned, ckpt, score
<1>5. /\ t \in SnapshotIn({"SLIM_HARNESS"}) /\ t.ckpt = ckpt /\ t.peak = ckpt
      /\ t.cycle = s.cycle /\ t.harness = s.harness /\ t.score = s.score
      /\ t.stop = "NONE" /\ t.cost = s.cost /\ t.meta = meta /\ t.state = "SLIM_HARNESS"
  BY <1>2, <1>4 DEF SnapshotIn, SameLineage, SameModel
<1> HIDE DEF t
<1>6. t \in SnapshotIn(States)
  BY <1>5 DEF SnapshotIn, States
<1>7. /\ TypeOK' /\ run'.snap = t /\ run'.completed = run.completed
      /\ run'.pending = "none" /\ run'.modelScore = score
  <2>1. t.meta.modelScore = score /\ score # None
    BY <1>2, <1>3, <1>5 DEF None
  <2> QED BY <1>1, <1>6, <2>1, MovedFields, RunTypes DEF IInv, Pendings
<1>8. BudgetRespected' /\ CarriedScore' /\ PendingIsCurrent'
  BY <1>1, <1>2, <1>3, <1>5, <1>7 DEF BudgetRespected, CarriedScore, PendingIsCurrent
<1>9. SearchIsBounded' /\ HarnessIsOlder' /\ ModelIsOlder' /\ StatesAreReachable'
  BY <1>1, <1>2, <1>5, <1>7
  DEF SearchIsBounded, HarnessIsOlder, ModelIsOlder, StatesAreReachable
<1>10. CandidatesAreJustified'
  BY <1>1, <1>2, <1>5, <1>7 DEF CandidatesAreJustified, FrozenLineage, None
<1>11. Improving
  BY <1>1, <1>2, <1>5, <1>7 DEF Improving, ckpt
<1> QED BY <1>7, <1>8, <1>9, <1>10, <1>11 DEF IInv

\* The end of a cycle: the next one is to begin, with the Harness it was left.
LEMMA CycleKeeps ==
  ASSUME IInv, run.snap.state \in {"ROLLBACK_MODEL", "SLIM_HARNESS"},
         NEW t \in SnapshotIn({"FREEZE_MODEL"}), t.cycle = run.snap.cycle + 1,
         t.ckpt = run.snap.ckpt, t.peak = run.snap.ckpt, t.stop = "NONE",
         t.cost = run.snap.cost, t.meta.modelScore \in {None, run.modelScore},
         \/ t.harness = run.snap.harness /\ t.score = run.snap.score
         \/ /\ run.snap.state = "SLIM_HARNESS" /\ t.harness = Slim(run.snap.cycle)
            /\ t.score > run.snap.score,
         run' = Moved(run, t, run.completed + 1, "none"), limits' = limits
  PROVE  IInv' /\ Improving
<1> DEFINE s == run.snap
           completed == run.completed + 1
<1>1. t \in SnapshotIn(States) /\ t.state = "FREEZE_MODEL"
  BY DEF SnapshotIn, States
<1>2. /\ s.cycle \in Nat /\ s.harness \in Nat /\ s.score \in Nat /\ completed \in Nat
      /\ run.completed < limits.maxCycles /\ s.cycle = completed
      /\ s.harness < Slim(s.cycle + 1) /\ s.harness # Slim(s.cycle)
      /\ s.cost <= limits.outer.total /\ s.ckpt = s.peak /\ s.ckpt # None
      /\ limits.maxCycles \in Nat /\ run.completed \in Nat
  <2>1. s.cycle \in Nat /\ s.harness \in Nat /\ s.score \in Nat
    BY RunTypes, FieldTypes DEF IInv
  <2>2. run.completed \in Nat /\ limits.maxCycles \in Nat
    BY RunTypes, LimitTypes DEF IInv
  <2>3. /\ run.completed < limits.maxCycles /\ s.cost <= limits.outer.total
        /\ s.ckpt = s.peak /\ s.ckpt # None
    BY DEF IInv, StatesAreReachable, BudgetRespected, CandidatesAreJustified, FrozenLineage
  <2> QED BY <2>1, <2>2, <2>3 DEF IInv, SearchIsBounded, HarnessIsOlder
<1> HIDE DEF completed
<1>3. /\ TypeOK' /\ run'.snap = t /\ run'.completed = completed
      /\ run'.pending = "none" /\ run'.modelScore = run.modelScore
  <2>1. run' = Moved(run, t, completed, "none")
    BY DEF completed
  <2> QED BY <1>1, <1>2, <2>1, MovedFields, RunTypes DEF IInv, Pendings
<1>4. BudgetRespected' /\ CarriedScore' /\ PendingIsCurrent' /\ StatesAreReachable'
  BY <1>1, <1>2, <1>3
  DEF BudgetRespected, CarriedScore, PendingIsCurrent, StatesAreReachable
<1>5. SearchIsBounded' /\ CandidatesAreJustified'
  BY <1>1, <1>2, <1>3
  DEF SearchIsBounded, CandidatesAreJustified, FrozenLineage, completed
<1>6. HarnessIsOlder' /\ ModelIsOlder'
  <2>1. s.ckpt <= s.cycle /\ s.ckpt \in Nat
    BY <1>2, RunTypes, FieldTypes DEF IInv, ModelIsOlder
  <2>2. ModelIsOlder'
    BY <1>2, <1>3, <2>1 DEF ModelIsOlder
  <2>3. HarnessIsOlder'
    BY <1>1, <1>2, <1>3 DEF HarnessIsOlder, Slim, IdSpan
  <2> QED BY <2>2, <2>3
<1>7. Improving
  BY <1>2, <1>3 DEF Improving
<1> QED BY <1>3, <1>4, <1>5, <1>6, <1>7 DEF IInv

LEMMA RollbackKeeps ==
  ASSUME IInv, Rollback
  PROVE  IInv' /\ Improving
<1> DEFINE s == run.snap
           meta == s.meta
           turned == Turn(s, "FREEZE_MODEL", None, None, meta)
           next == s.cycle + 1
           iteration == s.iteration
           u == [turned EXCEPT !.cycle = @ + 1, !.iteration = 0]
           t == [u EXCEPT !.iteration = iteration]
<1>1. /\ s.state = "ROLLBACK_MODEL" /\ limits' = limits
      /\ run' = Moved(run, t, run.completed + 1, "none")
  <2>1. RollbackCommitted(s)[1] = Edge("CONTINUE", "CHECKPOINT", s.ckpt, u)
    BY DEF RollbackCommitted
  <2> HIDE DEF u
  <2>2. [Edge("CONTINUE", "CHECKPOINT", s.ckpt, u) EXCEPT !.snap.iteration = s.iteration].snap = t
    BY DEF Edge
  <2> HIDE DEF t
  <2>3. Final(RollbackStep(s)) = t
    BY <2>1, <2>2, FinalOfOne DEF RollbackStep
  <2> QED BY <2>3 DEF Rollback, At
<1>2. /\ s \in Stage /\ meta \in MetaType /\ next \in Nat /\ iteration \in Nat
      /\ s.ckpt = s.peak
  BY RunTypes, FieldTypes DEF IInv, CandidatesAreJustified, FrozenLineage
<1> HIDE DEF meta
<1>3. /\ turned \in SnapshotIn({"FREEZE_MODEL"}) /\ SameLineage(s, turned)
      /\ turned.stop = "NONE" /\ turned.cost = s.cost /\ turned.meta = meta
  <2>1. "FREEZE_MODEL" \in StageStates /\ None \in Maybe
    BY DEF StageStates, States, Maybe
  <2> QED BY <1>2, <2>1, TurnFields
<1> HIDE DEF turned
<1>4. t = [turned EXCEPT !.cycle = next, !.iteration = iteration]
  BY <1>3 DEF SameLineage, SameModel, SnapshotIn
<1> HIDE DEF next, iteration, t
<1>5. /\ t \in SnapshotIn({"FREEZE_MODEL"}) /\ t.cycle = next /\ t.ckpt = s.ckpt
      /\ t.peak = s.ckpt /\ t.stop = "NONE" /\ t.cost = s.cost /\ t.meta = meta
      /\ t.harness = s.harness /\ t.score = s.score
  BY <1>2, <1>3, <1>4 DEF SnapshotIn, SameLineage, SameModel
<1>6. t.meta.modelScore \in {None, run.modelScore}
  BY <1>5 DEF IInv, CarriedScore, meta
<1> QED BY <1>1, <1>5, <1>6, CycleKeeps DEF next

LEMMA SlimKeeps ==
  ASSUME IInv, SlimHarness
  PROVE  IInv' /\ Improving
<1> DEFINE s == run.snap
           score == SlimScore(limits, s)
           next == s.cycle + 1
           meta == [NoMeta EXCEPT !.modelScore = run.modelScore]
           t == Final(SlimStep(limits, run, s))
<1>1. /\ s.state = "SLIM_HARNESS" /\ limits' = limits /\ score > s.score
      /\ run' = Moved(run, t, run.completed + 1, "none")
  BY DEF SlimHarness, At, MaySlim
<1>2. /\ score \in Nat /\ next \in Nat /\ meta \in MetaType
      /\ meta.modelScore = run.modelScore /\ s.ckpt \in Nat /\ s.cost \in Nat
      /\ Slim(s.cycle) \in Nat
  <2>1. /\ s.score \in Nat /\ s.cycle \in Nat /\ s.ckpt \in Nat /\ s.cost \in Nat
    BY RunTypes, FieldTypes DEF IInv
  <2>2. score \in Nat
    BY <2>1, LimitTypes DEF IInv, SlimScore
  <2>3. meta \in MetaType /\ meta.modelScore = run.modelScore
    BY NoMetaType, RunTypes DEF IInv, MetaType, Maybe, NoMeta
  <2> QED BY <2>1, <2>2, <2>3 DEF Slim, IdSpan
<1>3. t = [NoSnapshot EXCEPT !.state = "FREEZE_MODEL", !.cycle = next,
                             !.ckpt = s.ckpt, !.peak = s.ckpt, !.harness = Slim(s.cycle),
                             !.score = score, !.cost = s.cost, !.meta = meta]
  <2>1. t = [NoSnapshot EXCEPT !.state = "FREEZE_MODEL", !.cycle = next,
                               !.ckpt = s.ckpt, !.peak = s.ckpt, !.harness = Slim(s.cycle),
                               !.score = score, !.cost = s.cost,
                               !.meta.modelScore = run.modelScore]
    BY FinalOfOne DEF SlimStep, Edge
  <2> QED BY <2>1 DEF NoSnapshot
<1> HIDE DEF score, next, meta, t
<1>4. /\ t \in SnapshotIn({"FREEZE_MODEL"}) /\ t.cycle = next /\ t.ckpt = s.ckpt
      /\ t.peak = s.ckpt /\ t.stop = "NONE" /\ t.cost = s.cost /\ t.meta = meta
      /\ t.harness = Slim(s.cycle) /\ t.score = score
  BY <1>2, <1>3 DEF NoSnapshot, SnapshotIn, Stops, Maybe, None
<1> QED BY <1>1, <1>2, <1>4, CycleKeeps DEF next

LEMMA BeginKeeps ==
  ASSUME IInv, BeginCycle
  PROVE  IInv' /\ Improving
<1> DEFINE s == run.snap
           meta == [NoMeta EXCEPT !.modelScore = run.modelScore]
           t == Final(BeginStep(run, s))
<1>1. /\ s.state = "FREEZE_MODEL" /\ limits' = limits /\ run.completed < limits.maxCycles
      /\ run' = Moved(run, t, run.completed, "none")
  BY DEF BeginCycle, At, Follow, MoreCycles
<1>2. meta \in MetaType /\ meta.modelScore = run.modelScore
  BY NoMetaType, RunTypes DEF IInv, MetaType, Maybe, NoMeta
<1>3. /\ s \in SnapshotIn(States) /\ s.cycle \in Nat /\ s.ckpt \in Nat /\ s.harness \in Nat
      /\ s.score \in Nat /\ s.cost \in Nat /\ s.ckpt = s.peak
      /\ s.cost <= limits.outer.total /\ s.harness < Slim(s.cycle)
  BY <1>1, RunTypes, FieldTypes
  DEF IInv, CandidatesAreJustified, FrozenLineage, BudgetRespected, HarnessIsOlder
<1>4. t = [NoSnapshot EXCEPT !.state = "MUTATE_HARNESS", !.cycle = s.cycle,
                             !.iteration = 1, !.ckpt = s.ckpt, !.peak = s.ckpt,
                             !.harness = s.harness, !.score = s.score,
                             !.cost = s.cost, !.meta = meta]
  <2>1. t = [NoSnapshot EXCEPT !.state = "MUTATE_HARNESS", !.cycle = s.cycle,
                               !.iteration = 1, !.ckpt = s.ckpt, !.peak = s.ckpt,
                               !.harness = s.harness, !.score = s.score,
                               !.cost = s.cost, !.meta.modelScore = run.modelScore]
    BY FinalOfOne DEF BeginStep, Edge
  <2> QED BY <2>1 DEF NoSnapshot
<1> HIDE DEF meta, t
<1>5. /\ t \in SnapshotIn(States) /\ SameLineage(s, t) /\ t.state = "MUTATE_HARNESS"
      /\ t.iteration = 1 /\ t.stop = "NONE" /\ t.cost = s.cost /\ t.meta = meta
      /\ t.plateau = 0
  <2>1. t = [state |-> "MUTATE_HARNESS", cycle |-> s.cycle, iteration |-> 1,
             ckpt |-> s.ckpt, peak |-> s.ckpt, harness |-> s.harness,
             candCkpt |-> None, candHarness |-> None, candScore |-> None,
             score |-> s.score, plateau |-> 0, cost |-> s.cost, stop |-> "NONE",
             meta |-> meta]
    BY ONLY <1>4 DEF NoSnapshot
  <2>2. t \in SnapshotIn(States)
    BY ONLY <2>1, <1>2, <1>3 DEF SnapshotIn, States, Stops, Maybe, None
  <2>3. SameLineage(s, t)
    BY ONLY <2>1, <1>3 DEF SameLineage, SameModel
  <2> QED BY <2>1, <2>2, <2>3
<1>6. /\ TypeOK' /\ BudgetRespected' /\ CarriedScore' /\ ModelIsOlder' /\ Improving
      /\ run'.snap = t /\ run'.completed = run.completed /\ run'.pending = "none"
      /\ run'.modelScore = run.modelScore /\ t.cycle = run'.completed + 1
      /\ run'.completed <= limits.maxCycles
      /\ FrozenLineage(t) /\ t.harness < Slim(t.cycle + 1) /\ t.harness # Slim(t.cycle)
  BY <1>1, <1>2, <1>3, <1>5, LineageKeeps DEF Pendings, BudgetStops
<1>7. SearchIsBounded'
  BY <1>1, <1>5, <1>6, LimitTypes DEF IInv, SearchIsBounded
<1>8. HarnessIsOlder'
  BY <1>1, <1>3, <1>5, <1>6
  DEF HarnessIsOlder, SameLineage, SameModel, Candidate, Slim, IdSpan
<1>9. CandidatesAreJustified' /\ PendingIsCurrent' /\ StatesAreReachable'
  BY <1>1, <1>5, <1>6 DEF CandidatesAreJustified, PendingIsCurrent, StatesAreReachable
<1> QED BY <1>6, <1>7, <1>8, <1>9 DEF IInv

LEMMA StopKeeps ==
  ASSUME IInv, StopAtLimit
  PROVE  IInv' /\ Improving
<1> DEFINE s == run.snap
           meta == [NoMeta EXCEPT !.modelScore = run.modelScore]
           iteration == s.iteration
           plateau == s.plateau
           t == Final(StopStep(run, s))
<1>1. /\ s.state = "FREEZE_MODEL" /\ limits' = limits
      /\ run' = Moved(run, t, run.completed, "none")
  BY DEF StopAtLimit, At, Follow
<1>2. meta \in MetaType /\ meta.modelScore = run.modelScore
  BY NoMetaType, RunTypes DEF IInv, MetaType, Maybe, NoMeta
<1>3. /\ s \in SnapshotIn(States) /\ s.cycle \in Nat /\ s.ckpt \in Nat /\ s.harness \in Nat
      /\ s.score \in Nat /\ s.cost \in Nat /\ s.ckpt = s.peak
      /\ iteration \in Nat /\ plateau \in Nat /\ s.cost <= limits.outer.total
  BY <1>1, RunTypes, FieldTypes
  DEF IInv, CandidatesAreJustified, FrozenLineage, BudgetRespected
<1>4. t = [NoSnapshot EXCEPT !.state = "STOPPED", !.cycle = s.cycle,
                             !.iteration = iteration, !.ckpt = s.ckpt,
                             !.peak = s.ckpt, !.harness = s.harness,
                             !.score = s.score, !.plateau = plateau,
                             !.cost = s.cost, !.stop = "CYCLE_LIMIT", !.meta = meta]
  <2>1. t = [NoSnapshot EXCEPT !.state = "STOPPED", !.cycle = s.cycle,
                               !.iteration = iteration, !.ckpt = s.ckpt,
                               !.peak = s.ckpt, !.harness = s.harness,
                               !.score = s.score, !.plateau = plateau,
                               !.cost = s.cost, !.stop = "CYCLE_LIMIT",
                               !.meta.modelScore = run.modelScore]
    BY FinalOfOne DEF StopStep, Edge
  <2> QED BY <2>1 DEF NoSnapshot
<1> HIDE DEF meta, iteration, plateau, t
<1>5. /\ t \in SnapshotIn(States) /\ SameLineage(s, t) /\ t.state = "STOPPED"
      /\ t.stop = "CYCLE_LIMIT" /\ t.cost = s.cost /\ t.meta = meta
  <2>1. t = [state |-> "STOPPED", cycle |-> s.cycle, iteration |-> iteration,
             ckpt |-> s.ckpt, peak |-> s.ckpt, harness |-> s.harness,
             candCkpt |-> None, candHarness |-> None, candScore |-> None,
             score |-> s.score, plateau |-> plateau, cost |-> s.cost,
             stop |-> "CYCLE_LIMIT", meta |-> meta]
    BY ONLY <1>4 DEF NoSnapshot
  <2>2. t \in SnapshotIn(States)
    BY ONLY <2>1, <1>2, <1>3 DEF SnapshotIn, States, Stops, Maybe, None
  <2>3. SameLineage(s, t)
    BY ONLY <2>1, <1>3 DEF SameLineage, SameModel
  <2> QED BY <2>1, <2>2, <2>3
<1>6. /\ TypeOK' /\ BudgetRespected' /\ CarriedScore' /\ ModelIsOlder' /\ Improving
      /\ run'.snap = t /\ run'.completed = run.completed /\ run'.pending = "none"
      /\ run'.modelScore = run.modelScore /\ t.cycle = run'.completed + 1
      /\ run'.completed <= limits.maxCycles
      /\ FrozenLineage(t) /\ t.harness < Slim(t.cycle + 1) /\ t.harness # Slim(t.cycle)
  BY <1>1, <1>2, <1>3, <1>5, LineageKeeps DEF Pendings, BudgetStops
<1> HIDE DEF s
<1>7. SearchIsBounded' /\ HarnessIsOlder'
  <2>1. SearchIsBounded'
    BY <1>1, <1>5, <1>6 DEF SearchIsBounded
  <2>2. HarnessIsOlder'
    BY <1>5, <1>6 DEF HarnessIsOlder
  <2> QED BY <2>1, <2>2
<1>8. CandidatesAreJustified' /\ PendingIsCurrent' /\ StatesAreReachable'
  BY <1>5, <1>6 DEF CandidatesAreJustified, PendingIsCurrent, StatesAreReachable
<1> QED BY <1>6, <1>7, <1>8 DEF IInv

-----------------------------------------------------------------------------

\* FirstRun keeps every promise.
LEMMA Start == ASSUME LoopsInit PROVE IInv
<1> DEFINE c == limits
           score == c.harnessScore
           frozen == [NoSnapshot EXCEPT !.state = "FREEZE_MODEL", !.cycle = 1,
                                        !.ckpt = 0, !.peak = 0, !.harness = 0,
                                        !.score = score, !.cost = 0]
           in == Enter(frozen, "MUTATE_HARNESS")
           t == [in EXCEPT !.iteration = 1]
<1>1. /\ c \in Configs /\ c.modelScore \in Nat /\ score \in Nat /\ c.maxCycles \in Nat
      /\ c.maxCycles >= 1 /\ OuterLimits(c.outer)
  BY ConfigAssumption DEF Configuration, LoopsInit
<1>2. Final(OuterStart(1, 0, 0, score, 0)) = t
  <2>1. ASSUME NEW e, NEW f PROVE Final(<< e, f >>) = f.snap
    BY DEF Final
  <2>2. OuterStart(1, 0, 0, score, 0) =
          << Edge("CONTINUE", "CHECKPOINT", 0, frozen),
             Edge("CONTINUE", "HARNESS", 0, t) >>
    BY DEF OuterStart
  <2>3. Edge("CONTINUE", "HARNESS", 0, t).snap = t
    BY DEF Edge
  <2> HIDE DEF t
  <2> QED BY <2>1, <2>2, <2>3
<1>3. /\ run.snap = t /\ run.completed = 0 /\ run.pending = "none"
      /\ run.modelScore = c.modelScore
      /\ run = [snap |-> t, modelScore |-> c.modelScore, completed |-> 0, pending |-> "none"]
  BY <1>2 DEF LoopsInit, FirstRun
<1> HIDE DEF score
<1>4. /\ t \in SnapshotIn(States) /\ t.state = "MUTATE_HARNESS" /\ t.cycle = 1
      /\ t.iteration = 1 /\ t.ckpt = 0 /\ t.peak = 0 /\ t.harness = 0 /\ t.plateau = 0
      /\ t.cost = 0 /\ t.stop = "NONE" /\ t.meta = NoMeta
  <2>1. /\ frozen \in SnapshotIn({"FREEZE_MODEL"}) /\ frozen.cycle = 1 /\ frozen.ckpt = 0
        /\ frozen.peak = 0 /\ frozen.harness = 0 /\ frozen.plateau = 0 /\ frozen.cost = 0
    BY <1>1, NoMetaType DEF NoSnapshot, SnapshotIn, Stops, Maybe, None
  <2> HIDE DEF frozen
  <2>2. frozen \in Stage /\ "MUTATE_HARNESS" \in StageStates
    BY <2>1 DEF SnapshotIn, Stage, StageStates, States
  <2>3. /\ in \in SnapshotIn({"MUTATE_HARNESS"}) /\ Entered(frozen, in) /\ in.stop = "NONE"
        /\ in.plateau = frozen.plateau /\ in.cost = frozen.cost
    BY <2>2, EnterFields
  <2> HIDE DEF in
  <2> QED BY <2>1, <2>3 DEF SnapshotIn, States, Entered, SameLineage, SameModel
<1> HIDE DEF t
<1>5. TypeOK
  BY <1>1, <1>3, <1>4 DEF TypeOK, RunType
<1>6. BudgetRespected /\ SearchIsBounded
  BY <1>1, <1>3, <1>4, <1>5, LimitTypes DEF BudgetRespected, SearchIsBounded
<1>7. CandidatesAreJustified /\ PendingIsCurrent /\ StatesAreReachable
  BY <1>1, <1>3, <1>4
  DEF CandidatesAreJustified, PendingIsCurrent, StatesAreReachable, FrozenLineage, None
<1>8. HarnessIsOlder /\ ModelIsOlder /\ CarriedScore
  BY <1>3, <1>4
  DEF HarnessIsOlder, ModelIsOlder, CarriedScore, Candidate, Slim, IdSpan, NoMeta
<1> QED BY <1>5, <1>6, <1>7, <1>8 DEF IInv

\* Every step keeps the invariant and only improves what is accepted.
LEMMA Step == ASSUME IInv, [LoopsNext]_loopVars PROVE IInv' /\ Improving
<1>1. ASSUME NEW score \in Scores, NEW cost \in Costs, HarnessAttempt(TRUE, score, cost)
      PROVE  IInv' /\ Improving
  <2>1. score \in Nat /\ cost \in Nat
    BY ObservationAssumption
  <2> QED BY <1>1, <2>1, AttemptKeeps
<1>2. ASSUME HarnessAttempt(FALSE, 0, 0) PROVE IInv' /\ Improving
  BY <1>2, AttemptKeeps
<1>3. ASSUME NEW batch \in Batches, NEW cost \in Costs, TraceBatch(batch, cost)
      PROVE  IInv' /\ Improving
  BY <1>3, BatchKeeps
<1>4. ASSUME DatasetReview PROVE IInv' /\ Improving
  BY <1>4, DatasetReviewKeeps
<1>5. ASSUME NEW trainCost \in Costs, NEW score \in Scores, NEW evalCost \in Costs,
             ModelLoop(trainCost, score, evalCost)
      PROVE  IInv' /\ Improving
  <2>1. trainCost \in Nat /\ score \in Nat /\ evalCost \in Nat
    BY ObservationAssumption
  <2> QED BY <1>5, <2>1, ModelLoopKeeps
<1>6. ASSUME RequestReview PROVE IInv' /\ Improving
  BY <1>6, RequestReviewKeeps
<1>7. ASSUME NEW approved \in BOOLEAN, Review(approved) PROVE IInv' /\ Improving
  BY <1>7, HarnessReviewKeeps, DatasetReviewedKeeps, ModelReviewKeeps DEF Review
<1>8. ASSUME Promotion PROVE IInv' /\ Improving
  BY <1>8, PromotionKeeps
<1>9. ASSUME Rollback PROVE IInv' /\ Improving
  BY <1>9, RollbackKeeps
<1>10. ASSUME SlimHarness PROVE IInv' /\ Improving
  BY <1>10, SlimKeeps
<1>11. ASSUME BeginCycle PROVE IInv' /\ Improving
  BY <1>11, BeginKeeps
<1>12. ASSUME StopAtLimit PROVE IInv' /\ Improving
  BY <1>12, StopKeeps
<1>13. CASE UNCHANGED loopVars
  <2>1. run' = run /\ limits' = limits
    BY <1>13 DEF loopVars
  <2>2. TypeOK' /\ BudgetRespected' /\ SearchIsBounded' /\ CandidatesAreJustified'
    BY <2>1 DEF IInv, TypeOK, BudgetRespected, SearchIsBounded, CandidatesAreJustified
  <2>3. /\ HarnessIsOlder' /\ ModelIsOlder' /\ PendingIsCurrent' /\ StatesAreReachable'
        /\ CarriedScore'
    BY <2>1
    DEF IInv, HarnessIsOlder, ModelIsOlder, PendingIsCurrent, StatesAreReachable, CarriedScore
  <2>4. Improving
    BY <2>1 DEF Improving
  <2> QED BY <2>2, <2>3, <2>4 DEF IInv
<1> QED BY <1>1, <1>2, <1>3, <1>4, <1>5, <1>6, <1>7, <1>8, <1>9, <1>10, <1>11, <1>12, <1>13
        DEF LoopsNext, Progress

LEMMA Invariance == LoopsSpec => []IInv
<1>1. LoopsInit => IInv
  BY Start
<1>2. IInv /\ [LoopsNext]_loopVars => IInv'
  BY Step
<1> QED BY <1>1, <1>2, PTL DEF LoopsSpec

\* The record and its snapshot keep their types whatever the outside reports.
THEOREM TypeCorrect == LoopsSpec => []TypeOK
<1>1. IInv => TypeOK
  BY DEF IInv
<1> QED BY <1>1, Invariance, PTL

\* No run goes on above its total budget.
THEOREM Budget == LoopsSpec => []BudgetRespected
<1>1. IInv => BudgetRespected
  BY DEF IInv
<1> QED BY <1>1, Invariance, PTL

\* The searches and the cycles stop where their limits say.
THEOREM SearchBounded == LoopsSpec => []SearchIsBounded
<1>1. IInv => SearchIsBounded
  BY DEF IInv
<1> QED BY <1>1, Invariance, PTL

\* Nothing is promoted or sent to a reviewer that does not beat what is active.
THEOREM CandidatesJustified == LoopsSpec => []CandidatesAreJustified
<1>1. IInv => CandidatesAreJustified
  BY DEF IInv
<1> QED BY <1>1, Invariance, PTL

\* The accepted model and Harness only improve, and one at a time.
THEOREM AcceptedImproves == LoopsSpec => AcceptedOnlyImproves
<1>1. IInv /\ [LoopsNext]_loopVars => [Improving]_loopVars
  BY Step
<1>2. LoopsSpec => [][Improving]_loopVars
  BY <1>1, Invariance, PTL DEF LoopsSpec
<1> QED BY <1>2 DEF AcceptedOnlyImproves, Improving

=============================================================================
