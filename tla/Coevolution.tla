---------------------------- MODULE Coevolution ----------------------------
(***************************************************************************)
(* CoEvolutionController (orchestration/coevolution.py): the three Harness *)
(* loops over durable stores, driven by controller processes that may      *)
(* crash between any two writes and be started again.  A handler is the    *)
(* sequence of durable operations it performs, its plan, worked out from   *)
(* the run record and the snapshot it was given; one step of a process     *)
(* performs one operation.  What a handler computes is that of the policy  *)
(* modules, with the scores and costs of the reference runtime.            *)
(*                                                                         *)
(* Durable: the plain files, the control transactions, the bundles and the *)
(* pointers of Harness and Peak, quarantine markers, approval requests and *)
(* answers, and the run record.  Operations of a locked store are one step *)
(* each (PeakStore and ControlStore show what is inside); a lock that a    *)
(* crash leaves behind is removed before the next start.                   *)
(***************************************************************************)
EXTENDS HarnessSearch, TraceHarvest, ModelInner, FiniteSets

CONSTANTS Setups,   \* LoopsRun configurations with the fields of SetupAssumption
          Scores,   \* a superset of the scores that occur
          Costs,    \* a superset of the costs that occur
          Batches   \* a superset of the batches that occur

VARIABLES conf,     \* the configuration, fixed for the run
          disk,     \* everything durable
          crew,     \* the controller processes
          crashes   \* how many there were

vars == <<conf, disk, crew, crashes>>

NoRecord == [rev |-> None]
NoPointer == [id |-> None, prev |-> None, order |-> 0, score |-> 0, by |-> <<>>]

\* The run record: revision, current_cycle, and the rest as in LoopsRun.
FirstRecord ==
  [rev |-> 0, cycle |-> 1,
   run |-> [snap |-> Final(OuterStart(1, 0, 0, conf.harnessScore, 0)),
            modelScore |-> conf.modelScore, completed |-> 0, pending |-> "none"]]

RunView == IF disk.record = NoRecord THEN FirstRecord.run ELSE disk.record.run

Loops == INSTANCE LoopsRun WITH limits <- conf, run <- RunView, Configs <- Setups

\* harvest is what the verifier makes of a batch of the reference harvester;
\* controllers and maxCrashes are bounds; mayTear lets a crash leave a part of
\* a plain file behind.
ASSUME SetupAssumption ==
  \A c \in Setups :
    /\ Loops!Configuration(c)
    /\ c.harvest.accepted \in Nat /\ c.harvest.raw \in Nat
    /\ c.harvest.accepted <= c.harvest.raw /\ c.harvest.raw >= 1
    /\ c.controllers \in Nat \ {0} /\ c.maxCrashes \in Nat
    /\ c.mayTear \in BOOLEAN

Resting == [job |-> "idle", meta |-> NoRecord, snap |-> NoSnapshot, at |-> 0]

EmptyDisk ==
  [files |-> {}, torn |-> {}, txs |-> {},
   bundles |-> [peak |-> {}, harness |-> {}],
   active |-> [peak |-> NoPointer, harness |-> NoPointer],
   history |-> [peak |-> {}, harness |-> {}],
   markers |-> {}, requests |-> {}, answers |-> {}, record |-> NoRecord]

Init ==
  /\ conf \in Setups
  /\ disk = EmptyDisk
  /\ crew = [c \in 1..conf.controllers |-> Resting]
  /\ crashes = 0

-----------------------------------------------------------------------------
(* The reference runtime (harness/reference_runtime.py, task suite).  Scores *)
(* are in units of 1/79000, costs in thousandths of a dollar.                *)

Capped(score) == IF score < conf.top THEN score ELSE conf.top

\* reference_harness_candidate_score, and what the task families add to it.
HarnessScore(s) ==
  Capped((IF s.iteration = 1 THEN Capped(s.score + conf.outer.minImprovement + 1580)
          ELSE s.score) + 17)
HarnessCost == 100
HarvestCost == 100

\* reference_model_score: only the first cycle's model is better.
ModelScore(m, s) ==
  IF s.cycle = 1 THEN Capped(m.run.modelScore + conf.model.minImprovement + 2370)
  ELSE IF m.run.modelScore > 1580 THEN m.run.modelScore - 1580 ELSE 0
TrainingCost(s) == 200 + s.meta.accepted
ModelEvaluationCost == 150

-----------------------------------------------------------------------------
(* Operations, the elements of a plan.                                       *)

File(kind, id) == <<[do |-> "file", path |-> <<kind, id>>]>>

\* _commit_records: the records grouped by iteration, the group of the
\* evidence first, one transaction each; those of another iteration share that
\* of the last record.  reads is what else the evidence holds, worked out when
\* it is committed: pointers whose files are hashed, or a count.
Commits(label, subject, evidenceAt, step, reads) ==
  LET first == {k \in DOMAIN step : step[k].snap.iteration = evidenceAt}
      other == DOMAIN step \ first
      Tx(iter, group) ==
        [do |-> "commit", name |-> <<label, iter, subject>>,
         edges |-> [k \in group |-> step[k]],
         evidenceAt |-> evidenceAt, reads |-> reads]
  IN  <<Tx(evidenceAt, first)>>
      \o (IF other = {} THEN <<>> ELSE <<Tx(Final(step).iteration, other)>>)

\* The bundle a pointer needs, and the pointer: checkpoint_store.commit and
\* peak_store.compare_and_swap, or the two Harness stores.
Adopt(which, pointer) ==
  << [do |-> "bundle", which |-> which,
      of |-> [id |-> pointer.id, order |-> pointer.order,
              score |-> pointer.score, by |-> pointer.by]],
     [do |-> "point", which |-> which, to |-> pointer] >>

Pointer(id, prev, order, score, by) ==
  [id |-> id, prev |-> prev, order |-> order, score |-> score, by |-> by]

\* _update_run: the next revision; current_cycle does not fall behind.
Update(m, snap, completed, pending) ==
  <<[do |-> "update",
     to |-> [rev |-> m.rev + 1,
             cycle |-> IF snap.cycle > m.cycle THEN snap.cycle ELSE m.cycle,
             run |-> Loops!Moved(m.run, snap, completed, pending)]]>>

Follow(m, step) == Update(m, Final(step), m.run.completed, "none")

\* A mutant: the completed cycle is not counted.
CompleteCycleUncounted(m, step) ==
  <<[do |-> "update",
     to |-> [rev |-> m.rev + 1, cycle |-> Final(step).cycle,
             run |-> Loops!Moved(m.run, Final(step), m.run.completed, "none")]]>>

\* A cycle is completed: the record takes the snapshot's cycle, come what may.
CompleteCycle(m, step) ==
  <<[do |-> "update",
     to |-> [rev |-> m.rev + 1, cycle |-> Final(step).cycle,
             run |-> Loops!Moved(m.run, Final(step), m.run.completed + 1, "none")]]>>

\* run_store.load() in the middle of a handler, which goes on with the fresh
\* record and the snapshot it already had.
GoOn(job, snap) == <<[do |-> "reload", job |-> job, snap |-> snap]>>


-----------------------------------------------------------------------------
(* Plans: the operations of each handler, from the run record m and the      *)
(* snapshot s it was given.                                                  *)

\* _bootstrap
BootModel == Pointer(0, None, 0, conf.modelScore, <<"bootstrap-model", 0, 0>>)
BootHarness == Pointer(0, None, 1, conf.harnessScore, <<"bootstrap-harness", 0, 0>>)

Bootstrap ==
  LET start == OuterStart(1, 0, 0, conf.harnessScore, 0)
      frozen == [start[1].snap EXCEPT !.meta.modelScore = conf.modelScore]
  IN  File("model", 0) \o File("config", 0)
      \o Commits("bootstrap-model", 0, 0, <<Edge("PROMOTE", "CHECKPOINT", 0, frozen)>>, {})
      \o Adopt("peak", BootModel)
      \o File("harness", 0)
      \o Commits("bootstrap-harness", 0, 0, <<Edge("ACCEPT", "HARNESS", 0, frozen)>>, {})
      \o Adopt("harness", BootHarness)
      \o Commits("outer-start", 0, 0, start, {"peak", "harness"})
      \o <<[do |-> "create", to |-> FirstRecord]>>

\* _run_harness_attempt; the reference mutations are always valid.
HarnessAttempt(m, s) ==
  LET candidate == Candidate(s.cycle, s.iteration)
      created == CandidateCreated(s, candidate)
      validated == ValidationCompleted(conf.outer, Final(created), TRUE)
      evaluated == OuterEvaluation(conf.outer, Final(validated), HarnessScore(s), HarnessCost)
  IN  <<[do |-> "check", harness |-> m.run.snap.harness]>>
      \o File("candidate", candidate)
      \o Commits("harness-mutated", candidate, s.iteration, created, {})
      \o File("validation", candidate)
      \o Commits("harness-validated", candidate, s.iteration, validated, {})
      \o File("evaluation", candidate)
      \o Commits("harness-evaluated", candidate, s.iteration, evaluated, {})
      \o (IF evaluated[1].snap.state = "ACCEPT_HARNESS"
          THEN Adopt("harness", Pointer(candidate, m.run.snap.harness, s.cycle, HarnessScore(s),
                                        <<"harness-evaluated", s.iteration, candidate>>))
          ELSE <<>>)
      \o Follow(m, evaluated)
      \o (IF Final(evaluated).state = "HARNESS_REVIEW_PENDING"
          THEN GoOn("request", Final(evaluated)) ELSE <<>>)

\* _run_trace_batch; the dataset of an aborted harvest is written, too, before
\* verification_completed refuses the snapshot of the abort.
TraceBatch(m, s) ==
  LET batch == Candidate(s.cycle, s.iteration)
      harvested == BatchHarvested(conf.trace, s, batch, HarvestCost)
      verified == VerificationCompleted(conf.trace, Final(harvested),
                                        conf.harvest.accepted, conf.harvest.raw)
  IN  File("traces", s.cycle)
      \o Commits("trace-harvested", batch, s.iteration, harvested, {})
      \o File("dataset", batch)
      \o (IF Final(harvested).state = "ABORTED" THEN <<[do |-> "raise"]>>
          ELSE Commits("trace-verified", batch, s.iteration, verified, {})
               \o Follow(m, verified)
               \o (IF Final(verified).state = "TRAIN_MODEL" /\ conf.datasetReview
                   THEN GoOn("dataset-review", Final(verified)) ELSE <<>>))

\* _enter_dataset_review
DatasetReview(m, s) ==
  LET review == Loops!DatasetReviewSnapshot(s)
  IN  <<[do |-> "request", id |-> <<"dataset", s.meta.dataset, s.iteration>>]>>
      \o Commits("dataset-review-requested", s.meta.dataset, s.iteration,
                 <<Edge("REQUEST_APPROVAL", "DATASET", s.meta.dataset, review)>>, {})
      \o Update(m, review, m.run.completed, "dataset")

\* What follows the decision on a candidate model, by its state.
AfterModel == [MODEL_REVIEW_PENDING |-> "request", PROMOTE_MODEL |-> "promotion",
               ROLLBACK_MODEL |-> "rollback"]

AfterDecision(step) ==
  IF Final(step).state \in DOMAIN AfterModel
  THEN GoOn(AfterModel[Final(step).state], Final(step)) ELSE <<>>

\* _run_model_inner_loop; evaluation_completed refuses the snapshot of an abort.
ModelLoop(m, s) ==
  LET input == Loops!PolicyInput(m.run, s)
      trained == TrainingCompleted(conf.model, input, s.cycle, TrainingCost(s))
      evaluated == ModelEvaluation(conf.model, Final(trained), ModelScore(m, s),
                                   ModelEvaluationCost)
  IN  File("weights", s.cycle)
      \o Commits("model-trained", s.cycle, s.iteration, trained, {})
      \o (IF Final(trained).state = "ABORTED" THEN <<[do |-> "raise"]>>
          ELSE Commits("model-evaluated", s.cycle, s.iteration, evaluated, {})
               \o Follow(m, evaluated) \o AfterDecision(evaluated))

\* The subject of a request, by its kind.
RequestId(subject, s) ==
  << subject,
     CASE subject = "harness" -> s.candHarness
       [] subject = "dataset" -> s.meta.dataset
       [] subject = "checkpoint" -> s.candCkpt,
     s.iteration >>

\* A mutant: the record says pending before the request exists.
CreateRequestLate(m, s) ==
  LET subject == Loops!ReviewOf[s.state]
      id == RequestId(subject, s)
  IN  Update(m, s, m.run.completed, subject)
      \o <<[do |-> "request", id |-> id]>>
      \o Commits("approval-requested", id, s.iteration, <<>>, {})

\* _create_approval_request: no decision, only the evidence of the request.
CreateRequest(m, s) ==
  LET subject == Loops!ReviewOf[s.state]
      id == RequestId(subject, s)
  IN  <<[do |-> "request", id |-> id]>>
      \o Commits("approval-requested", id, s.iteration, <<>>, {})
      \o Update(m, s, m.run.completed, subject)

\* _commit_model_promotion
Promotion(m, s) ==
  LET decided == IF conf.model.approval THEN "model-review-completed" ELSE "model-evaluated"
      promoted == PromotionCommitted(s)
  IN  Adopt("peak", Pointer(s.candCkpt, m.run.snap.ckpt, s.iteration, s.candScore,
                            <<decided, s.iteration, s.candCkpt>>))
      \o Commits("model-promotion-committed", s.candCkpt, s.iteration, promoted,
                 {"peak"})
      \o Follow(m, promoted)

\* _commit_model_rollback
Rollback(m, s) ==
  LET step == Loops!RollbackStep(s)
  IN  <<[do |-> "mark", id |-> <<s.candCkpt, s.iteration>>]>>
      \o Commits("model-rollback-committed", s.candCkpt, s.iteration, step, {})
      \o CompleteCycle(m, step)

\* _slim_harness_after_model_promotion
SlimHarness(m, s) ==
  LET step == Loops!SlimStep(conf, m.run, s)
      slim == Slim(s.cycle)
  IN  File("slim", slim)
      \o Commits("harness-slimmed", slim, 0, step, {})
      \o Adopt("harness", Pointer(slim, m.run.snap.harness, s.cycle, Final(step).score,
                                  <<"harness-slimmed", 0, slim>>))
      \o CompleteCycle(m, step)

\* _begin_outer_cycle: the evidence keeps the snapshot's iteration, the new
\* records have iteration 1.
BeginCycle(m, s) ==
  LET step == Loops!BeginStep(m.run, s)
  IN  Commits("begin-cycle", s.cycle, s.iteration, step, {"peak"})
      \o Follow(m, step)

\* _stop_cycle_limit
StopAtLimit(m, s) ==
  LET step == Loops!StopStep(m.run, s)
  IN  Commits("cycle-limit", s.cycle, s.iteration, step, {"completed"})
      \o Follow(m, step)

Answered(m) == \E a \in disk.answers : a[1] = RequestId(m.run.pending, m.run.snap)

\* A mutant: any answer is taken for an approval.
ApprovedByAnyAnswer(m) == Answered(m)

Approved(m) == <<RequestId(m.run.pending, m.run.snap), TRUE>> \in disk.answers

\* _resume_pending_approval once there is an answer.
Resume(m, s) ==
  CASE m.run.pending = "harness" ->
         LET step == HarnessReview(conf.outer, s, Approved(m))
             label == "harness-review-completed"
         IN  Commits(label, s.candHarness, s.iteration, step, {})
             \o (IF step[1].snap.state = "ACCEPT_HARNESS"
                 THEN Adopt("harness", Pointer(s.candHarness, m.run.snap.harness, s.cycle,
                                               s.candScore, <<label, s.iteration, s.candHarness>>))
                 ELSE <<>>)
             \o Follow(m, step)
    [] m.run.pending = "dataset" ->
         LET step == Loops!DatasetReviewed(s, Approved(m))
         IN  Commits("dataset-review-completed", s.meta.dataset, s.iteration, step, {})
             \o Follow(m, step)
    [] m.run.pending = "checkpoint" ->
         LET step == ModelReview(s, Approved(m))
         IN  Commits("model-review-completed", s.candCkpt, s.iteration, step, {})
             \o Follow(m, step) \o AfterDecision(step)

-----------------------------------------------------------------------------
(* The processes.                                                            *)

Handlers == {"bootstrap", "attempt", "batch", "dataset-review", "model", "request",
             "promotion", "rollback", "slim", "begin", "stop", "resume"}

Plan(p) ==
  CASE p.job = "bootstrap"      -> Bootstrap
    [] p.job = "attempt"        -> HarnessAttempt(p.meta, p.snap)
    [] p.job = "batch"          -> TraceBatch(p.meta, p.snap)
    [] p.job = "dataset-review" -> DatasetReview(p.meta, p.snap)
    [] p.job = "model"          -> ModelLoop(p.meta, p.snap)
    [] p.job = "request"        -> CreateRequest(p.meta, p.snap)
    [] p.job = "promotion"      -> Promotion(p.meta, p.snap)
    [] p.job = "rollback"       -> Rollback(p.meta, p.snap)
    [] p.job = "slim"           -> SlimHarness(p.meta, p.snap)
    [] p.job = "begin"          -> BeginCycle(p.meta, p.snap)
    [] p.job = "stop"           -> StopAtLimit(p.meta, p.snap)
    [] p.job = "resume"         -> Resume(p.meta, p.snap)

Sets(c, job, meta, snap, at) ==
  crew' = [crew EXCEPT ![c] = [job |-> job, meta |-> meta, snap |-> snap, at |-> at]]

Rests(c, how) == Sets(c, how, NoRecord, NoSnapshot, 0)

\* run() is called: _bootstrap, or the loop over the run record.
Start(c) ==
  /\ crew[c].job \in {"idle", "failed", "returned"}
  /\ IF disk.record = NoRecord THEN Sets(c, "bootstrap", NoRecord, NoSnapshot, 1)
     ELSE Rests(c, "loop")
  /\ UNCHANGED <<conf, disk, crashes>>

\* What run() does about a state when no review is pending; any other state is
\* "unsupported durable Co-Evolution state".
HandlerOf(m) ==
  CASE m.run.snap.state = "MUTATE_HARNESS" -> "attempt"
    [] m.run.snap.state = "HARVEST_TRACES" -> "batch"
    [] m.run.snap.state = "TRAIN_MODEL" -> "model"
    [] m.run.snap.state = "SLIM_HARNESS" -> "slim"
    [] m.run.snap.state = "FREEZE_MODEL" ->
         IF m.run.completed >= conf.maxCycles THEN "stop" ELSE "begin"
    [] OTHER -> "failed"

Ended(m) == m.run.snap.state \in {"STOPPED", "ABORTED"}

\* One turn of the loop of run(): load the record and its snapshot, then
\* return, fail or enter a handler.
Dispatch(c) ==
  LET m == disk.record
      job == IF m.run.pending = "none" THEN HandlerOf(m)
             ELSE IF Answered(m) THEN "resume" ELSE "returned"
  IN  /\ crew[c].job = "loop"
      /\ IF Ended(m) \/ job \in {"failed", "returned"}
         THEN Rests(c, IF Ended(m) THEN "returned" ELSE job)
         ELSE Sets(c, job, m, m.run.snap, 1)
      /\ UNCHANGED <<conf, disk, crashes>>

Advances(c) ==
  IF crew[c].at < Len(Plan(crew[c]))
  THEN crew' = [crew EXCEPT ![c].at = @ + 1]
  ELSE Rests(c, "loop")

\* An operation is performed, or raises and ends the process.
Effect(c, accepted, after) ==
  IF accepted THEN disk' = after /\ Advances(c)
  ELSE UNCHANGED disk /\ Rests(c, "failed")

\* _write_immutable_or_equal: what is written follows from the path, so only
\* the torn rest of a write has other bytes.
WriteFile(c, op) ==
  /\ op.do = "file"
  /\ Effect(c, op.path \notin disk.torn, [disk EXCEPT !.files = @ \cup {op.path}])

\* ControlRecordStore.commit: a record may not rest on evidence of a later
\* iteration, and record ids are not used again for other records.
Supported(tx) == \A k \in DOMAIN tx.edges : tx.evidenceAt <= tx.edges[k].snap.iteration

\* A mutant: a repetition is refused.
CommitsOnce(tx) == Supported(tx) /\ \A u \in disk.txs : u.name # tx.name

MayCommit(tx) ==
  tx \in disk.txs \/ (Supported(tx) /\ \A u \in disk.txs : u.name # tx.name)

Reading(c, what) ==
  IF what = "completed" THEN crew[c].meta.run.completed ELSE disk.active[what].id

Transaction(c, op) ==
  [name |-> op.name, edges |-> op.edges, evidenceAt |-> op.evidenceAt,
   reads |-> [what \in op.reads |-> Reading(c, what)]]

Commit(c, op) ==
  /\ op.do = "commit"
  /\ Effect(c, MayCommit(Transaction(c, op)),
            [disk EXCEPT !.txs = @ \cup {Transaction(c, op)}])

\* CheckpointBundleStore.commit and HarnessSnapshotStore.commit
StoreBundle(c, op) ==
  /\ op.do = "bundle"
  /\ Effect(c,
       /\ \E t \in disk.txs : t.name = op.of.by
       /\ \A b \in disk.bundles[op.which] : b.id = op.of.id => b = op.of,
       [disk EXCEPT !.bundles[op.which] = @ \cup {op.of}])

\* _verify_links of both pointer stores: the bundle and the decision.
Linked(which, p) ==
  /\ \E b \in disk.bundles[which] :
       b.id = p.id /\ b.order = p.order /\ b.score = p.score /\ b.by = p.by
  /\ \E t \in disk.txs : t.name = p.by /\ \E k \in DOMAIN t.edges :
       LET e == t.edges[k]
       IN  /\ e.id = p.id
           /\ which = "harness" => e.action = "ACCEPT" /\ e.on = "HARNESS"
           /\ which = "peak" => /\ e.action = "PROMOTE" /\ e.on = "CHECKPOINT"
                                /\ e.snap.iteration = p.order

\* A mutant: the pointer moves without comparing it to what is there.
MayPointBlindly(which, p) == Linked(which, p)

\* compare_and_swap of both pointer stores: an exact repetition is accepted;
\* otherwise the pointer moves on from the expected one, never to an earlier
\* cycle (Harness) or iteration (Peak), and only to a higher score.
MayPoint(which, p) ==
  LET current == disk.active[which]
  IN  \/ current # NoPointer /\ current = p
      \/ /\ current.id = p.prev
         /\ current # NoPointer => p.order >= current.order /\ p.score > current.score
         /\ Linked(which, p)

MovePointer(c, op) ==
  /\ op.do = "point"
  /\ Effect(c, MayPoint(op.which, op.to),
       [disk EXCEPT !.active[op.which] = op.to,
                    !.history[op.which] = @ \cup {op.to}])

\* The first lines of _run_harness_attempt.
CheckHarness(c, op) ==
  op.do = "check" /\ Effect(c, disk.active.harness.id = op.harness, disk)

\* quarantine_store.commit and approval_service.create_request
Mark(c, op) ==
  op.do = "mark" /\ Effect(c, TRUE, [disk EXCEPT !.markers = @ \cup {op.id}])

Request(c, op) ==
  op.do = "request" /\ Effect(c, TRUE, [disk EXCEPT !.requests = @ \cup {op.id}])

\* CoEvolutionRunStore.create and compare_and_swap
CreateRun(c, op) ==
  /\ op.do = "create"
  /\ Effect(c, disk.record \in {NoRecord, op.to}, [disk EXCEPT !.record = op.to])

MayUpdate(new) ==
  \/ disk.record = new
  \/ /\ disk.record.rev = new.rev - 1
     /\ disk.record.run.completed <= new.run.completed
     /\ disk.record.cycle <= new.cycle

UpdateRun(c, op) ==
  /\ op.do = "update"
  /\ Effect(c, MayUpdate(op.to), [disk EXCEPT !.record = op.to])

\* run_store.load() before the rest of a handler.
Reload(c, op) ==
  /\ op.do = "reload"
  /\ Sets(c, op.job, disk.record, op.snap, 1)
  /\ UNCHANGED disk

\* A policy refuses the snapshot it is given.
Raise(c, op) == op.do = "raise" /\ Effect(c, FALSE, disk)

\* The operation a process is at (a set of one, so that TLC works it out once).
NextOp(c) == {Plan(crew[c])[crew[c].at]}

Perform(c) ==
  /\ crew[c].job \in Handlers
  /\ \E op \in NextOp(c) :
       \/ WriteFile(c, op) \/ Commit(c, op) \/ StoreBundle(c, op)
       \/ MovePointer(c, op) \/ CheckHarness(c, op) \/ Mark(c, op)
       \/ Request(c, op) \/ CreateRun(c, op) \/ UpdateRun(c, op)
       \/ Reload(c, op) \/ Raise(c, op)
  /\ UNCHANGED <<conf, crashes>>

\* The process dies between two operations.
Crash(c) ==
  /\ crew[c].job \in Handlers \cup {"loop"} /\ crashes < conf.maxCrashes
  /\ crashes' = crashes + 1
  /\ Rests(c, "idle")
  /\ UNCHANGED <<conf, disk>>

\* The process dies while it writes a plain file.
CrashInWrite(c) ==
  /\ crew[c].job \in Handlers /\ crashes < conf.maxCrashes /\ conf.mayTear
  /\ \E op \in NextOp(c) :
       /\ op.do = "file" /\ op.path \notin disk.files \cup disk.torn
       /\ disk' = [disk EXCEPT !.torn = @ \cup {op.path}]
  /\ crashes' = crashes + 1
  /\ Rests(c, "idle")
  /\ UNCHANGED conf

\* A reviewer answers a request, once (ApprovalService.decide).
Review(id, approved) ==
  /\ id \in disk.requests /\ \A a \in disk.answers : a[1] # id
  /\ disk' = [disk EXCEPT !.answers = @ \cup {<<id, approved>>}]
  /\ UNCHANGED <<conf, crew, crashes>>

Goes(c) == Start(c) \/ Dispatch(c) \/ Perform(c)

Next ==
  \/ \E c \in DOMAIN crew : Goes(c) \/ Crash(c) \/ CrashInWrite(c)
  \/ \E id \in disk.requests, approved \in BOOLEAN : Review(id, approved)

Spec == Init /\ [][Next]_vars

\* A single process goes on, and when it ended its operator starts it again.
\* Nothing is asked of two processes, of crashes or of reviewers.
FairSpec == Spec /\ WF_vars(conf.controllers = 1 /\ Goes(1))

=============================================================================
