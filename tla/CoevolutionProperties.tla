----------------------- MODULE CoevolutionProperties -----------------------
(***************************************************************************)
(* What the durable Co-Evolution controller keeps over crashes, restarts,  *)
(* reviewers and a second controller process, and where it does not.       *)
(***************************************************************************)
EXTENDS Coevolution

Record == disk.record.run

CommittedEdges == UNION {{t.edges[k] : k \in DOMAIN t.edges} : t \in disk.txs}

\* A snapshot is in a committed transaction, and its active model and Harness
\* have their bundles.
Backed(s) ==
  /\ \E e \in CommittedEdges : e.snap = s
  /\ \E b \in disk.bundles.peak : b.id = s.ckpt
  /\ \E b \in disk.bundles.harness : b.id = s.harness

\* The evidence that the review r waits for was requested is committed.
HasRequest(r) ==
  \E t \in disk.txs :
    t.name = IF r.pending = "dataset"
             THEN <<"dataset-review-requested", r.snap.iteration, r.snap.meta.dataset>>
             ELSE <<"approval-requested", r.snap.iteration, RequestId(r.pending, r.snap)>>

Settled(r) ==
  /\ Backed(r.snap)
  /\ r.pending # "none" =>
       RequestId(r.pending, r.snap) \in disk.requests /\ HasRequest(r)

\* The run record is only a pointer: whatever process wrote it, its snapshot
\* is in a committed transaction (docs/coevolution-convergence.md, "The
\* pointer is updated only after its referenced control Snapshot has been
\* committed"), the snapshot's active model and Harness have their bundles, and
\* the review it waits for was requested and its evidence committed.
RecordIsCommitted == disk.record # NoRecord => Settled(Record)

\* Whatever either pointer ever was rests on a committed decision and its
\* bundle, and came after a pointer of a lower score.
PointerChain ==
  \A which \in {"peak", "harness"} : \A p \in disk.history[which] :
    /\ Linked(which, p)
    /\ p.prev # None =>
         \E q \in disk.history[which] : q.id = p.prev /\ q.score < p.score

Present ==
  \A which \in {"peak", "harness"} : \A p \in disk.history[which] :
    p # disk.active[which] => p.score < disk.active[which].score

AtMostOneAhead ==
  LET s == Record.snap
      peak == disk.active.peak
      harness == disk.active.harness
  IN  /\ peak.id = s.ckpt \/ (peak.prev = s.ckpt /\ s.state = "PROMOTE_MODEL")
      /\ \/ harness.id = s.harness
         \/ /\ harness.prev = s.harness
            /\ s.state \in {"MUTATE_HARNESS", "HARNESS_REVIEW_PENDING", "SLIM_HARNESS"}

\* A second process may move the record between the two loads of a handler.
OneProcess == conf.controllers = 1

\* Both pointers only rise: every value they ever had is justified, and the
\* present one is the best there was.  And while one process at a time drives
\* the run, a pointer is at most one adoption ahead of the run record, never
\* behind it (_run_harness_attempt, _commit_model_promotion, the two pointer
\* stores).
PointersJustified ==
  /\ PointerChain
  /\ Present
  /\ disk.record # NoRecord /\ OneProcess => AtMostOneAhead

\* One process, and no crash where a dataset review can be lost.
Alone == OneProcess /\ ~(conf.datasetReview /\ conf.maxCrashes > 0)

Granted(subject, id) == \E a \in disk.answers : a[1][1] = subject /\ a[1][2] = id /\ a[2]

\* docs/coevolution-convergence.md: "Pending or expired authority does not execute
\* the gated side effect".  A model is evaluated only after the dataset it was
\* trained on was approved (_run_trace_batch, _enter_dataset_review).
DatasetAuthority ==
  conf.datasetReview =>
    \A e \in CommittedEdges :
      e.snap.state = "EVALUATE_MODEL" => Granted("dataset", e.snap.meta.dataset)

\* A searched Harness and a trained model need a grant where they are reviewed.
Authorised(which, p) ==
  /\ which = "harness" /\ conf.outer.approval /\ p.id % IdSpan # 0 => Granted("harness", p.id)
  /\ which = "peak" /\ conf.model.approval /\ p.id # 0 => Granted("checkpoint", p.id)

PointersAuthorised ==
  \A which \in {"peak", "harness"} : \A p \in disk.history[which] : Authorised(which, p)

\* Nothing that a reviewer has to grant takes effect without the grant, however
\* often the controller is restarted and whatever else runs: a searched Harness
\* and a trained model become active, and (for one process that does not crash)
\* a dataset trains a model, only after an approval of exactly that subject
\* (_resume_pending_approval).
HumanAuthority == PointersAuthorised /\ (Alone => DatasetAuthority)

\* The durable controller implements the run of LoopsRun: over crashes and
\* restarts each change of the run record is one step of the three loops, so
\* nothing is searched, spent, counted or decided twice.
RefinesLoops ==
  Loops!LoopsInit /\ [][Alone => Loops!LoopsNext]_<<conf, RunView>>

Decided == Record.pending = "none"

\* Where a crash leaves a run for good: between an adoption and its update of
\* the record, before a request or a materialization that only the handler
\* that made the decision would go on with, or inside a plain file.
StrandedByCrash ==
  /\ crashes > 0
  /\ \/ disk.torn # {}
     \/ /\ disk.record # NoRecord /\ Decided
        /\ \/ Record.snap.state \in {"HARNESS_REVIEW_PENDING", "MODEL_REVIEW_PENDING",
                                     "PROMOTE_MODEL", "ROLLBACK_MODEL"}
           \/ /\ Record.snap.state = "MUTATE_HARNESS"
              /\ disk.active.harness.id # Record.snap.harness

\* Where the controller raises for ever by itself: a budget crossed in the
\* middle of a handler, and a next cycle after a rollback in a later iteration.
StrandedByItself ==
  \/ \E t \in disk.txs, k \in {1} :
       t.name[1] \in {"trace-harvested", "model-trained"} /\ t.edges[k].action = "ABORT"
  \/ /\ disk.record # NoRecord /\ Record.snap.state = "FREEZE_MODEL"
     /\ Record.completed < conf.maxCycles /\ Record.snap.iteration > 1

\* A run whose controller is started again after every crash and every error
\* ends or waits for a reviewer, unless a crash or the controller itself
\* stranded it in one of the states named above.
Completes ==
  <>[](\/ conf.controllers > 1
       \/ StrandedByCrash \/ StrandedByItself
       \/ /\ disk.record # NoRecord
          /\ Ended(disk.record) \/ (~Decided /\ ~Answered(disk.record)))

\* docs/coevolution-convergence.md: "HARVEST_TRACES --> ABORTED: budget
\* crossed", "TRAIN_MODEL --> ABORTED: budget crossed".
AbortIsReported ==
  (\E e \in CommittedEdges : e.snap.state = "ABORTED") ~>
    (disk.record # NoRecord /\ Record.snap.state = "ABORTED")

\* docs/coevolution-convergence.md: FREEZE_MODEL leads to the next cycle while
\* cycles are left.
NextCycleBegins ==
  (RunView.snap.state = "FREEZE_MODEL" /\ RunView.completed < conf.maxCycles) ~>
    (RunView.snap.state = "MUTATE_HARNESS")

=============================================================================
