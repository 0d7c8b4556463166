----------------------- MODULE ConvergedRSIProperties -----------------------
(***************************************************************************)
(* What the converged controller promises: to the policy, to the Peak, to  *)
(* the reviewers and to whoever starts it again.  The last section states  *)
(* promises of the documentation that the code keeps only in part; each    *)
(* has a run of its own that shows where.                                  *)
(***************************************************************************)
EXTENDS ConvergedRSI

CheckpointIds == Nat \cup {None}
Actions       == {"NONE", "PROMOTE", "REJECT", "ROLLBACK", "ABORT", "QUARANTINE"}

States == TerminalStates \cup Pending \cup
          {"NONE", "DIAGNOSE", "HYPOTHESIS", "SYNTHESIZE", "VERIFY", "TRAIN", "SERVE",
           "EVALUATE", "PROMOTED", "REJECTED", "QUARANTINED"}

Stops  == {"NONE", "NO_ACCEPTED_DATA", "LOW_ACCEPTANCE", "APPROVAL_NOT_GRANTED", "PLATEAU",
           "MAX_ITERATIONS", "REGRESSION_ROLLBACK", "PER_ITERATION_BUDGET_EXCEEDED",
           "TOTAL_BUDGET_EXCEEDED", "INTERNAL_ERROR"}

\* The handlers that commit; with the iteration, the id of a transaction.
Tags   == {"none", "bootstrap", "pre-candidate-abort", "data", "data-review-approved",
           "candidate", "candidate-execution-abort", "candidate-pending-review",
           "model-review-approved", "approval-denied-stop", "approval-expired-stop"}

MetaType ==
  [ckpt : CheckpointIds, parent : CheckpointIds, score : Nat, spent : Nat,
   source : Nat, tag : Tags, action : Actions]

SnapshotType ==
  [iteration : Nat, state : States, rank : 0..6, at : Nat,
   active : CheckpointIds, peak : CheckpointIds, score : Nat,
   cand : CheckpointIds, candScore : Nat, plateau : Nat, cost : Nat,
   stop : Stops, meta : MetaType]

Origins     == {"adapter", "controller"}
TxType      == [tag : Tags, iter : Nat, origin : Origins, snaps : SUBSET SnapshotType]
PointerType == [ckpt : CheckpointIds, prev : CheckpointIds, iter : Nat,
                score : Nat, tag : Tags]
RequestType == [kind : {"DATASET", "CHECKPOINT"}, iter : Nat, at : Nat, expires : Nat]

\* Every variable has its type; a transaction is committed or an orphan, never
\* both, and no two transactions of one id differ.
TypeOK ==
  /\ txs \subseteq TxType /\ orphans \subseteq TxType
  /\ txs \cap orphans = {}
  /\ \A t, u \in txs \cup orphans : SameId(t, u) => t = u
  /\ pointer \in PointerType /\ history \subseteq PointerType
  /\ requests \subseteq RequestType
  /\ pc \in Idle \cup {"commit", "marker", "bundle", "cas", "swap", "mark",
                       "reconcile", "loop", "request", "train"}
  /\ mem \in SnapshotType /\ report \in SnapshotType
  /\ job \in TxType /\ target \in MetaType /\ back \in {"loop", "reconcile"}
  /\ accepted \subseteq Iterations /\ warm \subseteq Iterations
  /\ crashes \in 0..MaxCrashes

-----------------------------------------------------------------------------
(* The decisions and the Peak.                                             *)

\* A run about to take its next step trains from the Peak of its snapshot and
\* has in peak_checkpoint.json that Peak, with that score: whatever commit,
\* bundle or swap a crash cut off was completed by _reconcile_snapshot
\* (docs/rsi-convergence.md, section 4).  A workspace whose bootstrap was cut
\* off has no pointer at all; see ResumedRunHasPeak.
RunMatchesPointer ==
  pc = "loop" => /\ mem.active = mem.peak
                 /\ pointer # NoPointer => /\ pointer.ckpt = mem.peak
                                          /\ pointer.score = mem.score

\* A Peak history entry follows a promotion that was committed before it, of
\* that checkpoint with that score, and no checkpoint in the history carries a
\* reject or rollback marker (_materialize_checkpoint, PeakPointerStore).
HistoryIsJustified ==
  \A h \in history :
    /\ \E s \in Committed : /\ s.state = "PROMOTED"
                            /\ s.peak = h.ckpt /\ s.score = h.score
    /\ \A q \in markers : q.ckpt # h.ckpt

\* What the controller reports as its final decision is on disk: a finished
\* run has, for every decision that asked for it, the checkpoint bundle with
\* the status of the decision and the Peak history entry or marker.
DecisionsMaterialized ==
  pc = "done" =>
    \A s \in Committed : s.meta.action # "NONE" =>
      /\ \E b \in bundles : b.ckpt = s.meta.ckpt /\ b.status = BundleStatus[s.meta.action]
      /\ s.meta.action = "PROMOTE" => \E h \in history : h.ckpt = s.meta.ckpt
      /\ s.meta.action \in {"REJECT", "ROLLBACK"} => \E q \in markers : q.ckpt = s.meta.ckpt

\* What a crash cut off is completed before the run goes on, and nothing that a
\* decision asked for is missing when it ends (_reconcile_snapshot).
RunIsMaterialized == RunMatchesPointer /\ DecisionsMaterialized

\* The recorded cost of a run crosses the total budget only in the decision
\* that aborts it, although charges are spread over the teacher's ledger, the
\* metadata of a pending snapshot and the policy.
BudgetRespected ==
  \A s \in Committed : s.state # "ABORTED" => s.cost <= TotalBudget

\* What the first n iterations cost: every batch and every evaluation once.
SpentIn[n \in Nat] ==
  IF n = 0 THEN 0 ELSE SpentIn[n - 1] + batch[n].cost + trial[n].cost

\* Snapshots by what of their iteration's charges the run must have recorded:
\* none where it begins, or is aborted with no decision on a candidate
\* (_abort_before_candidate, _abort_after_data) ...
BeforeCharges(s) ==
  \/ s.state = "DIAGNOSE"
  \/ s.state = "ABORTED" /\ (s.cand = None \/ s.stop = "INTERNAL_ERROR")

\* ... the batch where its dataset was refused (_commit_data_rejection,
\* _stop_for_approval_failure) ...
BatchCharged(s) ==
  \/ s.stop \in {"NO_ACCEPTED_DATA", "LOW_ACCEPTANCE"}
  \/ s.stop = "APPROVAL_NOT_GRANTED" /\ s.cand = None

\* ... and both where its candidate was decided or refused.
AllCharged(s) ==
  \/ s.state \in {"PROMOTED", "REJECTED", "ROLLED_BACK"}
  \/ s.state = "ABORTED" /\ s.cand # None /\ s.stop # "INTERNAL_ERROR"
  \/ s.stop \in {"PLATEAU", "MAX_ITERATIONS"}
  \/ s.stop = "APPROVAL_NOT_GRANTED" /\ s.cand # None

\* Each batch and each evaluation is charged to the run once: no charge is lost
\* or repeated while it waits in the metadata of a snapshot for a reviewer, a
\* restart or the decision (_commit_policy_step, _resume_data_review,
\* _resume_model_review).
ChargedOnce ==
  \A s \in Committed :
    LET i == s.iteration
    IN  /\ BeforeCharges(s) => s.cost = SpentIn[i - 1]
        /\ BatchCharged(s)  => s.cost = SpentIn[i - 1] + batch[i].cost
        /\ AllCharged(s)    => s.cost = SpentIn[i]

\* Whatever the last commit left, latest_snapshot picks a state run() can
\* resume, never a stage, a policy's intermediate or a quarantine snapshot, and
\* an iteration that may still be taken: neither the LineageIntegrityError at
\* the end of its loop nor _stop_without_candidate is ever reached.
Resumable ==
  pc = "loop" =>
    /\ mem.state \in TerminalStates \cup Pending \cup {"DIAGNOSE", "TRAIN"}
    /\ mem.state = "DIAGNOSE" => /\ mem.iteration \in Iterations
                                 /\ mem.plateau < PlateauPatience

Outcome(s) == <<s.state, s.iteration, s.peak, s.score, s.stop, s.cost>>

\* A reported terminal state is final: a run started again in the workspace
\* commits nothing new, does not fail and reports the same verdict (run(),
\* latest_snapshot; docs/rsi-convergence.md:151 "requests a deterministic
\* resume").
TerminalSticks ==
  [][report.state \in TerminalStates =>
       /\ txs' = txs /\ pc' # "failed"
       /\ Outcome(report') = Outcome(report)]_vars

PointerView == [ckpt |-> pointer.ckpt, prev |-> pointer.prev,
                iter |-> pointer.iter, score |-> pointer.score]

Register == INSTANCE PeakRegister
              WITH Checkpoints <- 0..MaxIterations, NoCheckpoint <- None,
                   peak <- PointerView

\* The Peak pointer of a run that crashes, resumes and repeats its writes is
\* still a register that only moves to better successors.
PeakIsRegister == Register!Spec

-----------------------------------------------------------------------------
(* The reviewers.                                                          *)

ApprovedRequest(kind, i) ==
  \E d \in decisions : d.kind = kind /\ d.iter = i /\ d.approved

\* With review switched on nothing is trained on a dataset, and no trained
\* checkpoint reaches the Peak, without the reviewer's approval of exactly
\* that one; crashes and restarts included (require_approved).
HumanAuthority ==
  /\ DatasetReview => \A i \in Iterations :
                        trial[i] # NoTrial => ApprovedRequest("DATASET", i)
  /\ CheckpointReview => \A h \in history :
                           h.ckpt # Base => ApprovedRequest("CHECKPOINT", h.iter)

\* The request a transaction answers, by going on or by ending the run.
Answers(t, kind, i) ==
  /\ t.iter = i
  /\ \/ t.tag = "data-review-approved" /\ kind = "DATASET"
     \/ t.tag = "model-review-approved" /\ kind = "CHECKPOINT"
     \/ /\ t.tag \in {"approval-denied-stop", "approval-expired-stop"}
        /\ \E s \in t.snaps : kind = (IF s.cand = None THEN "DATASET" ELSE "CHECKPOINT")

\* The run takes one answer per request and keeps to it: it never goes on with
\* what it also stopped over, whatever is linked after its deadline, and where
\* it acted on a decision that decision is on disk for good, an approval where
\* it went on and a denial where it stopped (_resume_data_review,
\* _resume_model_review, _stop_for_approval_failure).
OneVerdict ==
  \A kind \in {"DATASET", "CHECKPOINT"}, i \in Iterations :
    \A t \in txs : Answers(t, kind, i) =>
      /\ \A u \in txs : Answers(u, kind, i) => u = t
      /\ t.tag # "approval-expired-stop" =>
           {d.approved : d \in {e \in decisions : e.kind = kind /\ e.iter = i}}
             = {t.tag # "approval-denied-stop"}

-----------------------------------------------------------------------------
(* What must happen.                                                       *)

\* A run that is started again and again ends each time with a report, of a
\* verdict or of the review it waits for: it neither fails for ever nor goes
\* round in its loop.
Completes == []<>(pc = "done")

\* A checkpoint the reviewer approved becomes the Peak.
ApprovedIsPromoted ==
  \A i \in Iterations :
    ApprovedRequest("CHECKPOINT", i) ~> \E h \in history : h.ckpt = i

-----------------------------------------------------------------------------
(* Promises of the documentation that fail; one run each.                  *)

\* docs/rsi-convergence.md:107 names active = Peak a release blocker and :126
\* makes the Peak state part of what resume relies on.
ResumedRunHasPeak == pc = "loop" => pointer.ckpt = mem.peak

\* docs/lineage-runtime.md:88: the orphans of an interrupted transaction do
\* not keep it from being retried.
InterruptedCommitRetries == fault # "record-conflict"

\* docs/rsi-convergence.md:151: a resume is deterministic; a dataset is
\* refused for having no accepted example only when it has none.
ResumeKeepsVerdict ==
  \A s \in Committed : s.stop = "NO_ACCEPTED_DATA" => batch[s.iteration].quality = "none"

\* docs/hitl-approval.md:56: EXPIRED is final; a request the run gave up as
\* expired has no decision, then or later.
ExpiredIsFinal ==
  \A t \in txs, d \in decisions :
    t.tag = "approval-expired-stop" => ~Answers(t, d.kind, d.iter)

\* docs/rsi-convergence.md:269 and :95: a refused candidate or dataset has its
\* marker.
RefusalLeavesMarker ==
  (/\ pc = "done"
   /\ report.stop \in {"APPROVAL_NOT_GRANTED", "NO_ACCEPTED_DATA", "LOW_ACCEPTANCE"})
    => \E q \in markers : q.iter = report.iteration

=============================================================================
