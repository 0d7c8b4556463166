---------------------------- MODULE ConvergedRSI ----------------------------
(***************************************************************************)
(* The converged RSI controller (orchestration/converged.py): one run of   *)
(* one workspace, driven by one controller process that may crash between  *)
(* any two durable writes and be started again, with human reviewers and   *)
(* the wall clock beside it.                                               *)
(*                                                                         *)
(* Durable: control transactions (with the record files of interrupted     *)
(* ones), checkpoint bundles, the Peak pointer and its history, quarantine *)
(* markers, approval requests and decisions, and the accepted dataset      *)
(* files.  Volatile: where the process is and what it holds.  Logical      *)
(* timestamps are seconds since the run started, LogicalRunClock.at; the   *)
(* wall clock is on the same axis.  A stale store lock left by a crash is  *)
(* assumed removed by the operator before the next start (_io.py,          *)
(* exclusive_lock: "stale locks require human cleanup").                   *)
(***************************************************************************)
EXTENDS RSIPolicy, FiniteSets

CONSTANTS InitialScore,     \* config.rsi.initial_score
          Scores,           \* scores an evaluation may report
          TeacherCosts,     \* what a synthesis batch may cost
          EvalCosts,        \* what an evaluation may cost
          Qualities,        \* verification outcomes: subset of {"ok","low","none"}
          DatasetReview,    \* config.approval.dataset_review_required
          CheckpointReview, \* config.approval.checkpoint_review_required
          TTL,              \* config.approval.decision_ttl_seconds
          WallTimes,        \* bound: the wall-clock instants of the model
          MaxCrashes        \* bound: crashes of the process

ASSUME ControllerAssumption ==
  /\ InitialScore \in Nat /\ Scores \subseteq Nat
  /\ TeacherCosts \subseteq Nat /\ EvalCosts \subseteq Nat
  /\ Qualities \subseteq {"ok", "low", "none"}
  /\ DatasetReview \in BOOLEAN /\ CheckpointReview \in BOOLEAN
  /\ TTL \in Nat \ {0}
  /\ WallTimes \subseteq Nat /\ 0 \in WallTimes
  /\ MaxCrashes \in Nat

VARIABLES
  \* durable
  txs,        \* committed control transactions
  orphans,    \* transactions whose record files exist without their marker
  bundles,    \* checkpoint bundles
  pointer,    \* peak_checkpoint.json
  history,    \* peak_history/*.json
  markers,    \* quarantine markers
  requests,   \* approval requests
  decisions,  \* approval decisions
  accepted,   \* iterations whose accepted.jsonl exists and is not empty
  \* the world
  wall,       \* the wall clock
  batch,      \* per iteration, the teacher's answer once it was asked
  trial,      \* per iteration, the candidate's evaluation once it was made
  \* the process
  pc, mem, job, target, back, warm, fault,
  \* bookkeeping
  crashes, report

disk    == <<txs, orphans, bundles, pointer, history, markers, requests,
             decisions, accepted>>
world   == <<wall, batch, trial>>
process == <<pc, mem, job, target, back, warm, fault>>
vars    == <<disk, world, process, crashes, report>>

Iterations == 1..MaxIterations

\* A mutant: iterations a minute apart, so that their stages overlap.
AtMinutes(iteration, offset) == iteration * 60 + offset

\* LogicalRunClock.at: hours for the iteration, seconds for the stage.
At(iteration, offset) == iteration * 3600 + offset

NoBatch == [cost |-> None, quality |-> "none"]
NoTrial == [score |-> None, cost |-> None]

NoPointer == [ckpt |-> None, prev |-> None, iter |-> 0, score |-> 0, tag |-> "none"]
NoTx      == [tag |-> "none", iter |-> 0, origin |-> "controller", snaps |-> {}]

NoSnapshot ==
  [iteration |-> 0, state |-> "NONE", rank |-> 0, at |-> 0, active |-> None,
   peak |-> None, score |-> 0, cand |-> None, candScore |-> 0, plateau |-> 0,
   cost |-> 0, stop |-> "NONE", meta |-> NoMeta]

Idle == {"down", "failed", "done"}

-----------------------------------------------------------------------------
(* Snapshots and transactions.                                             *)

\* _snapshot: a controller snapshot derived from base.
Snapshot(base, state, at, cand, candScore, meta) ==
  [base EXCEPT !.state = state, !.rank = 0, !.at = at, !.cand = cand,
               !.candScore = candScore, !.stop = "NONE", !.meta = meta]

\* The snapshot of a decision by which the controller itself ends the run: the
\* candidate and the metadata are those of base.
Terminal(base, state, at, cost, stop) ==
  [base EXCEPT !.state = state, !.rank = 0, !.at = at, !.cost = cost, !.stop = stop]

\* origin: who made its evidence; an adapter's carries the wall-clock time at
\* which it was made, the controller's only logical times.
Tx(tag, iteration, origin, snaps) ==
  [tag |-> tag, iter |-> iteration, origin |-> origin, snaps |-> snaps]

SameId(t, u) == t.tag = u.tag /\ t.iter = u.iter

Committed == UNION {t.snaps : t \in txs}

\* A mutant: the tie-break on the snapshot id is dropped.
BeforeWithoutId(a, b) ==
  \/ a.at < b.at
  \/ a.at = b.at /\ a.iteration < b.iteration

\* The key of latest_snapshot: entered_at, then iteration, then snapshot_id.
\* Two hashed ids (rank 0) of one time and iteration are in an order the model
\* leaves open.
Before(a, b) ==
  \/ a.at < b.at
  \/ a.at = b.at /\ a.iteration < b.iteration
  \/ a.at = b.at /\ a.iteration = b.iteration /\ a.rank < b.rank

\* latest_snapshot: what a started process resumes from.
LatestSnapshots == {s \in Committed : \A r \in Committed : ~Before(s, r)}

\* _bootstrap: the base model is promoted and iteration 1 begins.
BaseMeta == [NoMeta EXCEPT !.ckpt = Base, !.score = InitialScore,
                           !.tag = "bootstrap", !.action = "PROMOTE"]

BootPromoted ==
  [NoSnapshot EXCEPT !.state = "PROMOTED", !.at = At(0, 1), !.active = Base,
                     !.peak = Base, !.score = InitialScore]

BootDiagnose ==
  [BootPromoted EXCEPT !.state = "DIAGNOSE", !.at = At(0, 2), !.iteration = 1]

\* _data_stage_records: the snapshots on the way to VERIFY.
DataStages(s, meta) ==
  {Snapshot(s, "HYPOTHESIS", At(s.iteration, 10), None, 0, meta),
   Snapshot(s, "SYNTHESIZE", At(s.iteration, 20), None, 0, meta),
   Snapshot(s, "VERIFY",     At(s.iteration, 40), None, 0, meta)}

\* _data_train_records: the dataset is admitted to training.
TrainSnapshot(s, at, meta) == Snapshot(s, "TRAIN", at, None, 0, meta)

Observation(s, e) ==
  [ckpt |-> e.cand, parent |-> s.active, iteration |-> s.iteration,
   score |-> e.candScore, cost |-> e.meta.spent, at |-> e.at]

EvaluateSnapshot(s, ckpt, score, spent, at) ==
  Snapshot(s, "EVALUATE", at, ckpt, score,
           [NoMeta EXCEPT !.ckpt = ckpt, !.parent = s.active, !.score = score,
                          !.spent = spent, !.source = s.iteration])

\* The materialized snapshot of _commit_policy_step: the policy's final
\* snapshot again, at the logical time of the iteration, with what
\* _materialize_checkpoint needs.
Materialized(final, e, tag, action) ==
  [final EXCEPT !.rank = 0, !.at = At(e.iteration, 110),
                !.meta = [e.meta EXCEPT !.tag = tag, !.action = action]]

\* The snapshots _commit_policy_step commits besides the stage snapshots.
PolicySnapshots(step, m) == {step[k] : k \in 1..Len(step)} \cup {m}

-----------------------------------------------------------------------------
(* Approvals, as the controller sees them (approval/service.py, store.py). *)

Later(a, b) == IF a >= b THEN a ELSE b   \* _not_before_timestamp

Request(kind, iteration, at) ==
  [kind |-> kind, iter |-> iteration, at |-> at, expires |-> at + TTL]

DecisionsOn(r) == {d \in decisions : d.kind = r.kind /\ d.iter = r.iter}

\* A mutant: any decision counts as an approval.
StatusAnyDecision(r, asOf) ==
  IF \E d \in DecisionsOn(r) : d.at <= asOf THEN "APPROVED"
  ELSE IF asOf > r.expires THEN "EXPIRED" ELSE "PENDING"

\* A mutant: a decision of this very instant is not seen.
StatusStrict(r, asOf) ==
  IF \E d \in DecisionsOn(r) : d.at < asOf
  THEN IF \E d \in DecisionsOn(r) : d.approved THEN "APPROVED" ELSE "DENIED"
  ELSE IF asOf > r.expires THEN "EXPIRED" ELSE "PENDING"

\* ApprovalService.status
Status(r, asOf) ==
  IF \E d \in DecisionsOn(r) : d.at <= asOf
  THEN IF \E d \in DecisionsOn(r) : d.approved THEN "APPROVED" ELSE "DENIED"
  ELSE IF asOf > r.expires THEN "EXPIRED" ELSE "PENDING"

\* The request a pending snapshot waits on (metadata.approval_request_id).
KindOf(s) == IF s.state = "DATA_REVIEW_PENDING" THEN "DATASET" ELSE "CHECKPOINT"

Pending == {"DATA_REVIEW_PENDING", "MODEL_REVIEW_PENDING"}

RequestOf(s) == Request(KindOf(s), s.iteration, s.at)

StatusOf(s) == Status(RequestOf(s), Later(wall, s.at))

DecidedAt(s) == (CHOOSE d \in DecisionsOn(RequestOf(s)) : TRUE).at

-----------------------------------------------------------------------------
(* The process.                                                            *)

Init ==
  /\ txs = {} /\ orphans = {} /\ bundles = {} /\ pointer = NoPointer
  /\ history = {} /\ markers = {} /\ requests = {} /\ decisions = {}
  /\ accepted = {}
  /\ wall = 0
  /\ batch = [i \in Iterations |-> NoBatch]
  /\ trial = [i \in Iterations |-> NoTrial]
  /\ pc = "down" /\ mem = NoSnapshot /\ job = NoTx /\ target = NoMeta
  /\ back = "loop" /\ warm = {} /\ fault = "none"
  /\ crashes = 0 /\ report = NoSnapshot

\* The process ends: with a result, an exception or a crash.
Ends(how, why) ==
  /\ pc' = how /\ fault' = why
  /\ mem' = NoSnapshot /\ job' = NoTx /\ target' = NoMeta
  /\ back' = "loop" /\ warm' = {}

Goto(label) == pc' = label /\ UNCHANGED <<mem, job, target, back, warm, fault>>

\* Hand a transaction to the control store; mem becomes the snapshot the
\* handler returns, and what, if anything, is to be materialized after it.
Submit(label, tx, result, what) ==
  /\ pc' = label /\ job' = tx /\ mem' = result /\ target' = what
  /\ back' = "reconcile"
  /\ UNCHANGED <<warm, fault>>

\* run() in a workspace without a snapshot of the run: _bootstrap.  A Peak
\* without a snapshot is refused.
StartFresh ==
  /\ pc \in Idle /\ Committed = {} /\ pointer = NoPointer
  /\ pc' = "commit"
  /\ job' = Tx("bootstrap", 0, "controller", {BootPromoted, BootDiagnose})
  /\ mem' = BootDiagnose /\ target' = BaseMeta /\ back' = "reconcile"
  /\ warm' = accepted /\ fault' = "none"
  /\ UNCHANGED <<disk, world, crashes, report>>

\* run() in a workspace with committed snapshots: __init__ warms the verifier
\* with every accepted dataset on disk, then the latest snapshot is resumed.
StartResume ==
  /\ pc \in Idle /\ Committed # {}
  /\ \E s \in LatestSnapshots : mem' = s
  /\ pc' = "reconcile"
  /\ warm' = accepted /\ fault' = "none"
  /\ UNCHANGED <<disk, world, job, target, back, crashes, report>>

\* A mutant: resuming never materializes.
ReconcileNever ==
  /\ pc = "reconcile"
  /\ Goto("loop")
  /\ UNCHANGED <<disk, world, crashes, report>>

\* _reconcile_snapshot: a materialize_checkpoint snapshot is materialized
\* again; every step of it accepts an exact repetition.
Reconcile ==
  /\ pc = "reconcile"
  /\ IF mem.meta.action # "NONE"
     THEN /\ pc' = "bundle" /\ target' = mem.meta /\ back' = "loop"
          /\ UNCHANGED <<mem, job, warm, fault>>
     ELSE Goto("loop")
  /\ UNCHANGED <<disk, world, crashes, report>>

\* _finish on a terminal snapshot, or on one that still waits for a review.
Finish ==
  /\ pc = "loop"
  /\ \/ mem.state \in TerminalStates
     \/ mem.state \in Pending /\ StatusOf(mem) = "PENDING"
  /\ report' = mem
  /\ Ends("done", "none")
  /\ UNCHANGED <<disk, world, crashes>>

-----------------------------------------------------------------------------
(* ControlRecordStore.commit.                                              *)

AfterCommit ==
  CASE job.tag \in {"bootstrap", "candidate", "model-review-approved"} -> "bundle"
    [] job.tag \in {"data", "data-review-approved"} /\ mem.state = "TRAIN" -> "train"
    [] job.tag = "data" /\ mem.state = "STOPPED" -> "mark"
    [] job.tag \in {"approval-denied-stop", "approval-expired-stop"} ->
         IF mem.cand = None THEN "mark" ELSE "bundle"
    [] OTHER -> "reconcile"

\* A mutant: only committed transactions are compared.
ConflictsCommittedOnly(t) == \E u \in txs : SameId(t, u) /\ (t # u \/ t.origin = "adapter")

\* Another transaction of that identifier is on disk, committed or torn.  What
\* carries wall-clock times is never written twice with the same bytes: no
\* process submits it twice, and a later process asks the adapters again.
Conflicts(t) == \E u \in txs \cup orphans : SameId(t, u) /\ (t # u \/ t.origin = "adapter")

\* Under the store lock: an existing marker must be byte-identical, and so
\* must every record file that an interrupted attempt left behind; then the
\* record files are written.
WriteRecords ==
  /\ pc = "commit"
  /\ IF Conflicts(job)
     THEN Ends("failed", "record-conflict") /\ UNCHANGED orphans
     ELSE IF job \in txs THEN Goto(AfterCommit) /\ UNCHANGED orphans
          ELSE Goto("marker") /\ orphans' = orphans \cup {job}
  /\ UNCHANGED <<txs, bundles, pointer, history, markers, requests, decisions,
                 accepted, world, crashes, report>>

\* The marker is written last: the transaction is committed.
WriteMarker ==
  /\ pc = "marker"
  /\ txs' = txs \cup {job}
  /\ orphans' = orphans \ {job}
  /\ Goto(AfterCommit)
  /\ UNCHANGED <<bundles, pointer, history, markers, requests, decisions,
                 accepted, world, crashes, report>>

-----------------------------------------------------------------------------
(* _materialize_checkpoint: bundle, then Peak or quarantine marker.        *)

BundleStatus == [PROMOTE |-> "PEAK", REJECT |-> "REJECTED",
                 ROLLBACK |-> "ROLLED_BACK", ABORT |-> "ABORTED"]

TargetBundle == [ckpt |-> target.ckpt, iter |-> target.source,
                 tag |-> target.tag, status |-> BundleStatus[target.action]]

\* A mutant: every candidate with a bundle is offered to the Peak.
CommitBundleThenCas ==
  /\ pc = "bundle"
  /\ IF \E b \in bundles : b.ckpt = target.ckpt /\ b # TargetBundle
     THEN Ends("failed", "bundle-conflict") /\ UNCHANGED bundles
     ELSE /\ bundles' = bundles \cup {TargetBundle}
          /\ Goto(IF target.action \in {"PROMOTE", "REJECT"} THEN "cas"
                  ELSE IF target.action = "ROLLBACK" THEN "mark" ELSE back)
  /\ UNCHANGED <<txs, orphans, pointer, history, markers, requests, decisions,
                 accepted, world, crashes, report>>

\* CheckpointBundleStore.commit: staged, then one directory rename; an
\* existing bundle must be identical.
CommitBundle ==
  /\ pc = "bundle"
  /\ IF \E b \in bundles : b.ckpt = target.ckpt /\ b # TargetBundle
     THEN Ends("failed", "bundle-conflict") /\ UNCHANGED bundles
     ELSE /\ bundles' = bundles \cup {TargetBundle}
          /\ Goto(CASE target.action = "PROMOTE" -> "cas"
                    [] target.action \in {"REJECT", "ROLLBACK"} -> "mark"
                    [] target.action = "ABORT" -> back)
  /\ UNCHANGED <<txs, orphans, pointer, history, markers, requests, decisions,
                 accepted, world, crashes, report>>

TargetPointer == [ckpt |-> target.ckpt, prev |-> target.parent,
                  iter |-> target.source, score |-> target.score,
                  tag |-> target.tag]

\* A mutant: the expected previous checkpoint is not compared.
CasAllowedBlindly(p) ==
  pointer # NoPointer => p.iter >= pointer.iter /\ p.score > pointer.score

CasAllowed(p) ==
  /\ pointer.ckpt = p.prev
  /\ pointer # NoPointer => p.iter >= pointer.iter /\ p.score > pointer.score

\* A mutant: the exact repetition of an update is not recognised.
CasHistoryNoReplay ==
  /\ pc = "cas"
  /\ IF CasAllowed(TargetPointer)
     THEN Goto("swap") /\ history' = history \cup {TargetPointer}
     ELSE Ends("failed", "peak-cas") /\ UNCHANGED history
  /\ UNCHANGED <<txs, orphans, bundles, pointer, markers, requests, decisions,
                 accepted, world, crashes, report>>

\* PeakPointerStore.compare_and_swap up to the history file.
CasHistory ==
  /\ pc = "cas"
  /\ IF pointer = TargetPointer THEN Goto(back) /\ UNCHANGED history
     ELSE IF CasAllowed(TargetPointer)
          THEN Goto("swap") /\ history' = history \cup {TargetPointer}
          ELSE Ends("failed", "peak-cas") /\ UNCHANGED history
  /\ UNCHANGED <<txs, orphans, bundles, pointer, markers, requests, decisions,
                 accepted, world, crashes, report>>

\* The pointer file is replaced atomically.
CasSwap ==
  /\ pc = "swap"
  /\ pointer' = TargetPointer
  /\ Goto(back)
  /\ UNCHANGED <<txs, orphans, bundles, history, markers, requests, decisions,
                 accepted, world, crashes, report>>

\* QuarantineStore.commit; a marker without a checkpoint is the dataset's.
WriteQuarantine ==
  /\ pc = "mark"
  /\ markers' = markers \cup {[ckpt |-> target.ckpt, iter |-> target.source,
                               tag |-> target.tag]}
  /\ Goto(back)
  /\ UNCHANGED <<txs, orphans, bundles, pointer, history, requests, decisions,
                 accepted, world, crashes, report>>

-----------------------------------------------------------------------------
(* _run_iteration.                                                         *)

Diagnosing == pc = "loop" /\ mem.state = "DIAGNOSE"

\* _abort_before_candidate: neither a cost nor the metadata of the snapshot it
\* started from is recorded.
AbortBefore(stop) ==
  LET s == Terminal([mem EXCEPT !.meta = NoMeta], "ABORTED", At(mem.iteration, 35),
                    mem.cost, stop)
  IN  Submit("commit", Tx("pre-candidate-abort", mem.iteration, "controller", {s}),
             s, NoMeta)

\* The teacher or its transport fails.
TeacherFails ==
  /\ Diagnosing
  /\ AbortBefore("INTERNAL_ERROR")
  /\ UNCHANGED <<disk, world, crashes, report>>

\* CostLedger.charge of the batch: a crossing raises BudgetExceeded.
Charge(cost) ==
  IF cost > PerIterationBudget THEN "PER_ITERATION_BUDGET_EXCEEDED"
  ELSE IF mem.cost + cost > TotalBudget THEN "TOTAL_BUDGET_EXCEEDED"
  ELSE "NONE"

\* The batch is the same whenever the iteration is synthesized again.
Batches(i) == IF batch[i] # NoBatch THEN {batch[i]}
              ELSE [cost : TeacherCosts, quality : Qualities]

\* VerificationPipeline.verify: examples of a dataset the verifier was warmed
\* with are exact duplicates, so that none is accepted.
Verdict(b, i) == IF i \in warm THEN "none" ELSE b.quality

DataMeta(b) == [NoMeta EXCEPT !.spent = b.cost, !.source = mem.iteration]

\* _commit_data_rejection
RejectDataset(b, quality) ==
  LET i    == mem.iteration
      stop == IF quality = "none" THEN "NO_ACCEPTED_DATA" ELSE "LOW_ACCEPTANCE"
      q    == Snapshot(mem, "QUARANTINED", At(i, 50), None, 0, DataMeta(b))
      s    == Terminal([mem EXCEPT !.meta = DataMeta(b)], "STOPPED", At(i, 51),
                       mem.cost + b.cost, stop)
  IN  Submit("commit", Tx("data", i, "adapter", DataStages(mem, DataMeta(b)) \cup {q, s}),
             s, [NoMeta EXCEPT !.source = i, !.tag = "data", !.action = "QUARANTINE"])

AdmitDataset(b) ==
  LET i == mem.iteration
      s == IF DatasetReview
           THEN Snapshot(mem, "DATA_REVIEW_PENDING", At(i, 50), None, 0, DataMeta(b))
           ELSE TrainSnapshot(mem, At(i, 50), DataMeta(b))
  IN  Submit(IF DatasetReview THEN "request" ELSE "commit",
             Tx("data", i, "adapter", DataStages(mem, DataMeta(b)) \cup {s}), s, NoMeta)

\* Synthesis, verification and write_iteration_bundle; a dataset that meets
\* the admission floor goes on to review or training, another ends the run.
Synthesize ==
  /\ Diagnosing
  /\ LET i == mem.iteration
     IN  \E b \in Batches(i) :
           /\ batch' = [batch EXCEPT ![i] = b]
           /\ IF Charge(b.cost) # "NONE"
              THEN AbortBefore(Charge(b.cost)) /\ UNCHANGED accepted
              ELSE LET quality == Verdict(b, i)
                   IN  /\ accepted' = IF quality = "none" THEN accepted \ {i}
                                      ELSE accepted \cup {i}
                       /\ IF quality = "ok" THEN AdmitDataset(b)
                          ELSE RejectDataset(b, quality)
  /\ UNCHANGED <<txs, orphans, bundles, pointer, history, markers, requests,
                 decisions, wall, trial, crashes, report>>

\* ApprovalService.create_request, before the pending state is committed.
CreateRequest ==
  /\ pc = "request"
  /\ requests' = requests \cup {RequestOf(mem)}
  /\ Goto("commit")
  /\ UNCHANGED <<txs, orphans, bundles, pointer, history, markers, decisions,
                 accepted, world, crashes, report>>

-----------------------------------------------------------------------------
(* _train_evaluate_decide.                                                 *)

Training == pc = "train" \/ (pc = "loop" /\ mem.state = "TRAIN")

\* _abort_after_data: an adapter failed; no cost is recorded.
TrainFails ==
  /\ Training
  /\ LET s == Terminal(mem, "ABORTED", At(mem.iteration, 75), mem.cost, "INTERNAL_ERROR")
     IN  Submit("commit", Tx("candidate-execution-abort", mem.iteration, "controller", {s}),
                s, NoMeta)
  /\ UNCHANGED <<disk, world, crashes, report>>

\* The adapters answer a repeated request for the same checkpoint the same.
Trials(i) == IF trial[i] # NoTrial THEN {trial[i]}
             ELSE [score : Scores, cost : EvalCosts]

ServeSnapshot(s) == Snapshot(s, "SERVE", At(s.iteration, 70), s.iteration, 0, s.meta)

\* A promotion that needs a reviewer: the pending transaction.
SubmitForReview(e, stages) ==
  LET s == Snapshot(e, "MODEL_REVIEW_PENDING", At(e.iteration, 90), e.cand,
                    e.candScore, e.meta)
  IN  Submit("request",
             Tx("candidate-pending-review", e.iteration, "adapter", stages \cup {s}),
             s, NoMeta)

\* _commit_policy_step
SubmitDecision(tag, e, step, action, origin, stages) ==
  LET m == Materialized(FinalSnapshot(step), e, tag, action)
  IN  Submit("commit",
             Tx(tag, e.iteration, origin, stages \cup PolicySnapshots(step, m)), m, m.meta)

TrainAndEvaluate ==
  /\ Training
  /\ LET i == mem.iteration
     IN  \E t \in Trials(i) :
           LET e      == EvaluateSnapshot(mem, i, t.score, mem.meta.spent + t.cost, At(i, 80))
               c      == Observation(mem, e)
               action == PrimaryAction(e, c)
               stages == {ServeSnapshot(mem), e}
           IN  /\ ValidInput(e, c)
               /\ trial' = [trial EXCEPT ![i] = t]
               /\ IF action = "PROMOTE" /\ CheckpointReview
                  THEN SubmitForReview(e, stages)
                  ELSE SubmitDecision("candidate", e, Evaluate(e, c), action,
                                      "adapter", stages)
  /\ UNCHANGED <<disk, wall, batch, crashes, report>>

-----------------------------------------------------------------------------
(* _resume_data_review and _resume_model_review.                           *)

Reviewing(state, status) ==
  pc = "loop" /\ mem.state = state /\ StatusOf(mem) = status

\* A mutant: the charge of the batch is lost when the reviewer has answered.
DataApprovedUncharged ==
  /\ Reviewing("DATA_REVIEW_PENDING", "APPROVED")
  /\ LET s == TrainSnapshot(mem, DecidedAt(mem), [mem.meta EXCEPT !.spent = 0])
     IN  Submit("commit", Tx("data-review-approved", mem.iteration, "controller", {s}),
                s, NoMeta)
  /\ UNCHANGED <<disk, world, crashes, report>>

DataApproved ==
  /\ Reviewing("DATA_REVIEW_PENDING", "APPROVED")
  /\ LET s == TrainSnapshot(mem, DecidedAt(mem), mem.meta)
     IN  Submit("commit", Tx("data-review-approved", mem.iteration, "controller", {s}),
                s, NoMeta)
  /\ UNCHANGED <<disk, world, crashes, report>>

\* The policy is asked again, at the time of the decision.
ModelApproved ==
  /\ Reviewing("MODEL_REVIEW_PENDING", "APPROVED")
  /\ LET e == EvaluateSnapshot(mem, mem.meta.ckpt, mem.meta.score, mem.meta.spent,
                               DecidedAt(mem))
         c == Observation(mem, e)
     IN  /\ ValidInput(e, c)
         /\ PrimaryAction(e, c) = "PROMOTE"
         /\ SubmitDecision("model-review-approved", e, Evaluate(e, c), "PROMOTE",
                           "controller", {e})
  /\ UNCHANGED <<disk, world, crashes, report>>

\* _stop_for_approval_failure: the stopped snapshot does not ask for
\* materialization; a refused checkpoint is materialized in passing.
ApprovalRefused(status, tag, at) ==
  LET s == Terminal(mem, "STOPPED", at, mem.cost + mem.meta.spent, "APPROVAL_NOT_GRANTED")
  IN  /\ mem.state \in Pending /\ Reviewing(mem.state, status)
      /\ Submit("commit", Tx(tag, mem.iteration, "controller", {s}), s,
                [mem.meta EXCEPT !.tag = tag,
                                 !.action = IF mem.cand = None THEN "QUARANTINE" ELSE "REJECT"])
      /\ UNCHANGED <<disk, world, crashes, report>>

Denied  == ApprovalRefused("DENIED", "approval-denied-stop", DecidedAt(mem))
Expired == ApprovalRefused("EXPIRED", "approval-expired-stop", At(mem.iteration, 120))

-----------------------------------------------------------------------------
(* The reviewers, the clock and crashes.                                   *)

\* What a decision may carry as decided_at: a time of the clock or an explicit
\* one, not before the request and not after its deadline.
DecisionTimes(r) == {at \in {Later(t, r.at) : t \in WallTimes} : at <= r.expires}

\* A mutant: a later decision takes the place of the one there is.
ReviewReplaces(r, approved) ==
  /\ \E at \in DecisionTimes(r) :
       decisions' = (decisions \ DecisionsOn(r)) \cup
                      {[kind |-> r.kind, iter |-> r.iter, approved |-> approved, at |-> at]}
  /\ UNCHANGED <<txs, orphans, bundles, pointer, history, markers, requests,
                 accepted, world, process, crashes, report>>

\* ApprovalService.review at the link of the decision's file, which only the
\* first decision of a request gets.  The check against the deadline came
\* before, of a decided_at that the wall clock may have left behind since or
\* not reached yet; it looks at nothing that changes (the request and
\* decided_at), so that it needs no step of its own.
Review(r, approved) ==
  /\ DecisionsOn(r) = {}
  /\ \E at \in DecisionTimes(r) :
       decisions' = decisions \cup
                      {[kind |-> r.kind, iter |-> r.iter, approved |-> approved, at |-> at]}
  /\ UNCHANGED <<txs, orphans, bundles, pointer, history, markers, requests,
                 accepted, world, process, crashes, report>>

Tick ==
  /\ \E t \in WallTimes : t > wall /\ wall' = t
  /\ UNCHANGED <<disk, batch, trial, process, crashes, report>>

\* The process dies between two durable writes.
Crash ==
  /\ pc \notin Idle /\ crashes < MaxCrashes
  /\ crashes' = crashes + 1
  /\ Ends("down", "none")
  /\ UNCHANGED <<disk, world, report>>

Start == StartFresh \/ StartResume

\* One step of the running process.
Step ==
  \/ Reconcile \/ Finish
  \/ WriteRecords \/ WriteMarker
  \/ CommitBundle \/ CasHistory \/ CasSwap \/ WriteQuarantine
  \/ TeacherFails \/ Synthesize \/ CreateRequest
  \/ TrainFails \/ TrainAndEvaluate
  \/ DataApproved \/ ModelApproved \/ Denied \/ Expired

Human == \E r \in requests, approved \in BOOLEAN : Review(r, approved)

Next == Start \/ Step \/ Human \/ Tick \/ Crash

Spec == Init /\ [][Next]_vars

\* The process, once started, runs; the operator starts it (again).
FairSpec == Spec /\ WF_vars(Step) /\ WF_vars(Start)

=============================================================================
