------------------------- MODULE ConvergedRSIChain -------------------------
(***************************************************************************)
(* A run without reviewers, over any crashes: its committed snapshots form *)
(* a chain in logical time, whose last one is what latest_snapshot picks.  *)
(* Every decision but the last one's is materialized, the last one's is    *)
(* before the run goes on, and so is the Peak; what a run reported it will *)
(* report again.                                                           *)
(*                                                                         *)
(* With a reviewer this does not hold: a decision later than the stage     *)
(* that follows it breaks the order (MCRSILateApproval, MCRSILostPromotion *)
(* show it).                                                               *)
(***************************************************************************)
EXTENDS ConvergedRSIProofs

\* config.approval asks for no review, which is the default.
Unreviewed == DatasetReview = FALSE /\ CheckpointReview = FALSE

BundleOf(m)  == [ckpt |-> m.ckpt, iter |-> m.source, tag |-> m.tag,
                 status |-> BundleStatus[m.action]]
PointerOf(m) == [ckpt |-> m.ckpt, prev |-> m.parent, iter |-> m.source,
                 score |-> m.score, tag |-> m.tag]
MarkerOf(m)  == [ckpt |-> m.ckpt, iter |-> m.source, tag |-> m.tag]

Asks(s) == s.meta.action # "NONE"

\* What a decision asks for is on disk.
Done(m) ==
  m.action # "NONE" =>
    /\ BundleOf(m) \in bundles
    /\ m.action = "PROMOTE" => PointerOf(m) \in history
    /\ m.action \in {"REJECT", "ROLLBACK"} => MarkerOf(m) \in markers

AllDone == \A s \in Committed : Done(s.meta)

\* What run() can go on from, and when: before the first stage it will commit.
Standing(s) ==
  /\ s.state \in TerminalStates \cup {"DIAGNOSE", "TRAIN"}
  /\ s.state = "DIAGNOSE" => /\ s.plateau < PlateauPatience
                             /\ s.at <= At(s.iteration - 1, 110)
  /\ s.state = "TRAIN" => s.at = At(s.iteration, 50) /\ s.meta.action = "NONE"
  /\ s.active = s.peak
  /\ s.meta.action = "PROMOTE" => s.meta.ckpt = s.peak /\ s.meta.score = s.score

\* The pointer is the Peak of the snapshot, unless bootstrap was cut off.
Fits(s) == pointer # NoPointer => pointer.ckpt = s.peak /\ pointer.score = s.score

\* A promotion was committed with the checkpoint and the score.
PromotedIn(S, ckpt, score) ==
  \E s \in S : s.state = "PROMOTED" /\ s.peak = ckpt /\ s.score = score

\* A run that goes on has decided about the candidates of earlier iterations only.
Fresh(S, s) ==
  s.state \in {"DIAGNOSE", "TRAIN"} => \A r \in S : Asks(r) => r.meta.ckpt < s.iteration

Last(s) == \A r \in Committed : r = s \/ r.at < s.at

Tip(s) ==
  /\ s \in Committed /\ Last(s) /\ Standing(s)
  /\ \A r \in Committed : r = s \/ Done(r.meta)
  /\ s.meta.action # "PROMOTE" => Fits(s)
  /\ Fresh(Committed, s)

FilesAgree ==
  /\ \A b, c \in bundles : b.ckpt = c.ckpt => b = c
  /\ pointer # NoPointer => pointer \in history
  /\ \A h \in history :
       /\ PromotedIn(Committed, h.ckpt, h.score)
       /\ h.ckpt = Base \/ \E s \in Committed : s.meta.action = "PROMOTE" /\ s.meta.ckpt = h.ckpt
  /\ \A q \in markers :
       \/ q.ckpt = None
       \/ \E s \in Committed : /\ s.meta.action \in {"REJECT", "ROLLBACK"}
                               /\ s.meta.ckpt = q.ckpt

\* One decision for one candidate.
Decides(S, m) ==
  m.action # "NONE" =>
    /\ m.ckpt \in Iterations
    /\ m.action = "PROMOTE" => PromotedIn(S, m.ckpt, m.score)
    /\ \A r \in S : Asks(r) /\ r.meta.ckpt = m.ckpt => r.meta.action = m.action

Chain ==
  /\ \A s \in Committed : Decides(Committed, s.meta)
  /\ Committed # {} => \E s \in Committed : Tip(s)

\* What the process is materializing.
Aim ==
  \/ target = mem.meta /\ Asks(mem)
  \/ /\ target = BaseMeta /\ mem = BootDiagnose /\ BootPromoted \in Committed
     /\ back = "reconcile"
  \/ /\ pc = "mark" /\ target.action = "QUARANTINE" /\ target.ckpt = None
     /\ back = "reconcile"

\* What follows the commit of a transaction, by its handler.
Follows(tx, s, what) ==
  \/ /\ tx.tag = "bootstrap" /\ what = BaseMeta /\ s = BootDiagnose
     /\ BootPromoted \in tx.snaps
  \/ tx.tag = "candidate" /\ what = s.meta /\ Asks(s)
  \/ tx.tag = "data" /\ s.state = "TRAIN"
  \/ /\ tx.tag = "data" /\ s.state = "STOPPED"
     /\ what.action = "QUARANTINE" /\ what.ckpt = None
  \/ tx.tag \in {"pre-candidate-abort", "candidate-execution-abort"}

\* A transaction whose snapshot s becomes the last of the chain.
Joins(tx, s) ==
  /\ s \in tx.snaps /\ Standing(s)
  /\ \A r \in tx.snaps : r = s \/ (r.at < s.at /\ r.meta.action = "NONE")
  /\ \A r \in Committed : r.at < s.at
  /\ s.meta.action # "PROMOTE" => Fits(s)
  /\ Decides(Committed \cup tx.snaps, s.meta)
  /\ Fresh(Committed \cup tx.snaps, s)

\* The transaction on its way.
Coming ==
  AllDone /\ back = "reconcile" /\ Joins(job, mem) /\ Follows(job, mem, target)

Materializing == {"bundle", "cas", "swap", "mark"}

Progress ==
  /\ pc \in {"reconcile", "loop", "train"} \cup Materializing => Tip(mem)
  /\ pc \in {"loop", "train"} => Fits(mem) /\ Done(mem.meta)
  /\ pc = "loop" /\ mem.meta.action = "PROMOTE" => pointer = PointerOf(mem.meta)
  /\ pc \in Materializing => Aim
  /\ pc \in {"cas", "swap"} => BundleOf(target) \in bundles
  /\ pc = "swap" => PointerOf(target) \in history
  /\ pc = "mark" /\ target.action # "QUARANTINE" =>
       BundleOf(target) \in bundles /\ target.action \in {"REJECT", "ROLLBACK"}
  /\ pc \in {"commit", "marker"} => Coming
  /\ pc = "done" => AllDone
  /\ pc # "request"

\* What was reported stays the last of the chain, materialized.
Reported ==
  report.state \in TerminalStates =>
    /\ report \in Committed /\ Last(report) /\ AllDone
    /\ report.meta.action = "PROMOTE" => pointer = PointerOf(report.meta)
    /\ pc \in {"down", "done", "reconcile", "bundle", "cas", "mark", "loop"}

CInv == FilesAgree /\ Chain /\ Progress /\ Reported

-----------------------------------------------------------------------------
(* Snapshots on the chain.                                                 *)

LEMMA HeldTypes ==
  ASSUME IInv
  PROVE  /\ \A s \in Committed \cup job.snaps \cup {mem, report} :
              /\ s \in SnapshotType /\ s.at \in Nat /\ s.iteration \in Nat /\ s.meta \in MetaType
         /\ \A s \in Committed \cup job.snaps \cup {mem} : Sound(s)
<1>1. \A s \in Committed \cup job.snaps \cup {mem} : Sound(s)
  BY DEF IInv, RecordsOK, ProcessOK, Keeps, Committed
<1>2. \A s \in Committed \cup job.snaps \cup {mem, report} : s \in SnapshotType
  BY <1>1 DEF Sound, IInv, WorldOK
<1> QED
  BY <1>1, <1>2, SnapshotFields

\* What is on the chain stays while its files only gain.
LEMMA DiskGrows ==
  ASSUME txs' = txs, bundles \subseteq bundles', history \subseteq history',
         markers \subseteq markers'
  PROVE  /\ Committed' = Committed
         /\ AllDone => AllDone'
         /\ \A s : Last(s) => Last(s)'
         /\ \A m : Done(m) => Done(m)'
<1>1. Committed' = Committed
  BY DEF Committed
<1>2. \A m : Done(m) => Done(m)'
  BY DEF Done
<1>3. \A s : Last(s) => Last(s)'
  BY <1>1 DEF Last
<1>4. AllDone => AllDone'
  BY <1>1, <1>2 DEF AllDone
<1> QED
  BY <1>1, <1>2, <1>3, <1>4

\* So does its last snapshot, as long as the pointer fits it.
LEMMA TipStays ==
  ASSUME txs' = txs, bundles \subseteq bundles', history \subseteq history',
         markers \subseteq markers', NEW s, Tip(s),
         s.meta.action # "PROMOTE" => Fits(s)'
  PROVE  Tip(s)' /\ (Chain => Chain')
<1>1. Committed' = Committed /\ Last(s)' /\ \A m : Done(m) => Done(m)'
  BY DiskGrows DEF Tip
<1>2. Tip(s)'
  BY <1>1 DEF Tip
<1> QED
  BY <1>1, <1>2 DEF Chain, Tip

\* Nothing but the files the chain is about has to stay for the chain to stay.
LEMMA DiskFrame ==
  ASSUME txs' = txs, bundles' = bundles, pointer' = pointer, history' = history,
         markers' = markers
  PROVE  /\ Committed' = Committed
         /\ FilesAgree => FilesAgree'
         /\ Chain => Chain'
         /\ AllDone => AllDone'
         /\ \A s : Tip(s) => Tip(s)'
         /\ \A s : Last(s) => Last(s)'
         /\ \A s : Fits(s) => Fits(s)'
         /\ \A m : Done(m) => Done(m)'
         /\ \A t, s : Joins(t, s) => Joins(t, s)'
<1>1. /\ Committed' = Committed /\ (AllDone => AllDone')
      /\ (\A s : Last(s) => Last(s)') /\ (\A m : Done(m) => Done(m)')
  BY DiskGrows
<1>2. \A s : Fits(s) => Fits(s)'
  BY DEF Fits
<1>3. \A s : Tip(s) => Tip(s)'
  BY <1>1, <1>2 DEF Tip
<1>4. FilesAgree => FilesAgree'
  BY <1>1 DEF FilesAgree
<1>5. Chain => Chain'
  BY <1>1, <1>3 DEF Chain
<1>6. \A t, s : Joins(t, s) => Joins(t, s)'
  BY <1>1, <1>2 DEF Joins
<1> QED
  BY <1>1, <1>2, <1>3, <1>4, <1>5, <1>6

LEMMA LastIsOne ==
  ASSUME IInv, NEW s \in Committed, NEW t \in Committed, Last(s), Last(t)
  PROVE  s = t
<1>1. s.at \in Nat /\ t.at \in Nat
  BY HeldTypes
<1> QED
  BY <1>1 DEF Last

\* latest_snapshot picks the last of the chain.
LEMMA LatestIsTip ==
  ASSUME IInv, Chain, NEW s \in LatestSnapshots
  PROVE  Tip(s)
<1>1. s \in Committed /\ \A r \in Committed : ~Before(s, r)
  BY DEF LatestSnapshots
<1>2. PICK t \in Committed : Tip(t)
  BY <1>1 DEF Chain
<1>3. ~(s.at < t.at)
  BY <1>1, <1>2 DEF Before
<1>4. s = t
  BY <1>1, <1>2, <1>3 DEF Tip, Last
<1> QED
  BY <1>2, <1>4

\* What was reported is what the process holds when it runs again.
LEMMA ReportIsMem ==
  ASSUME IInv, Reported, report.state \in TerminalStates, Tip(mem)
  PROVE  report = mem
BY LastIsOne DEF Reported, Tip

-----------------------------------------------------------------------------
(* Starting, stopping and the steps that write nothing of the chain.       *)

LEMMA InitCInv ==
  ASSUME Init
  PROVE  CInv
<1>1. Committed = {}
  BY DEF Init, Committed
<1>2. FilesAgree /\ Chain
  BY <1>1 DEF Init, FilesAgree, Chain
<1>3. Progress
  BY DEF Init, Progress, Materializing
<1>4. Reported
  BY DEF Init, Reported, NoSnapshot, TerminalStates
<1> QED
  BY <1>2, <1>3, <1>4 DEF CInv

\* The process ends without writing; it fails only before its report.
LEMMA IdleStep ==
  ASSUME IInv, CInv, pc' \in {"down", "failed"}, report' = report,
         txs' = txs, bundles' = bundles, pointer' = pointer, history' = history,
         markers' = markers, pc' = "failed" => report.state \notin TerminalStates
  PROVE  CInv'
<1>1. FilesAgree' /\ Chain' /\ Committed' = Committed /\ (AllDone => AllDone')
      /\ (\A s : Last(s) => Last(s)')
  BY DiskFrame DEF CInv
<1>2. Progress'
  BY DEF Progress, Materializing
<1>3. Reported'
  BY <1>1 DEF CInv, Reported
<1> QED
  BY <1>1, <1>2, <1>3 DEF CInv

LEMMA CrashChain ==
  ASSUME IInv, CInv, Crash
  PROVE  CInv'
BY IdleStep DEF Crash, Ends, disk

\* A step of the reviewers or the clock, or none.
LEMMA OtherStep ==
  ASSUME CInv, report' = report, UNCHANGED process,
         txs' = txs, bundles' = bundles, pointer' = pointer, history' = history,
         markers' = markers
  PROVE  CInv'
<1>1. /\ FilesAgree' /\ Chain' /\ Committed' = Committed /\ (AllDone => AllDone')
      /\ \A s : Last(s) => Last(s)'
      /\ \A s : Tip(s) => Tip(s)'
      /\ \A s : Fits(s) => Fits(s)'
      /\ \A m : Done(m) => Done(m)'
      /\ \A t, s : Joins(t, s) => Joins(t, s)'
  BY DiskFrame DEF CInv
<1>2. /\ pc' = pc /\ mem' = mem /\ job' = job /\ target' = target /\ back' = back
  BY DEF process
<1>3. Aim => Aim'
  BY <1>1, <1>2 DEF Aim, Asks
<1>4. Coming => Coming'
  BY <1>1, <1>2 DEF Coming, Follows, Asks
<1>5. Progress'
  BY <1>1, <1>2, <1>3, <1>4 DEF CInv, Progress, Materializing, BundleOf, PointerOf
<1>6. Reported'
  BY <1>1, <1>2 DEF CInv, Reported, PointerOf
<1> QED
  BY <1>1, <1>5, <1>6 DEF CInv

LEMMA BootFields ==
  /\ BootPromoted.state = "PROMOTED" /\ BootPromoted.at = At(0, 1)
  /\ BootPromoted.peak = Base /\ BootPromoted.score = InitialScore
  /\ BootPromoted.meta = NoMeta
  /\ BootDiagnose.state = "DIAGNOSE" /\ BootDiagnose.at = At(0, 2)
  /\ BootDiagnose.iteration = 1 /\ BootDiagnose.plateau = 0
  /\ BootDiagnose.active = Base /\ BootDiagnose.peak = Base
  /\ BootDiagnose.score = InitialScore /\ BootDiagnose.meta = NoMeta
  /\ BaseMeta.action = "PROMOTE" /\ BaseMeta.ckpt = Base
  /\ BaseMeta.score = InitialScore
  /\ NoMeta.action = "NONE"
BY DEF BootPromoted, BootDiagnose, BaseMeta, NoSnapshot, NoMeta

\* Both snapshots of the bootstrap precede every stage of an iteration.
LEMMA StartFreshChain ==
  ASSUME IInv, CInv, StartFresh
  PROVE  CInv'
<1> DEFINE tx == Tx("bootstrap", 0, "controller", {BootPromoted, BootDiagnose})
<1>1. /\ Committed = {} /\ pointer = NoPointer /\ pc' = "commit" /\ report' = report
      /\ job' = tx
      /\ mem' = BootDiagnose /\ target' = BaseMeta /\ back' = "reconcile"
      /\ txs' = txs /\ bundles' = bundles /\ pointer' = pointer /\ history' = history
      /\ markers' = markers
  BY DEF StartFresh, disk
<1>2. /\ FilesAgree' /\ Chain' /\ Committed' = {}
      /\ (Joins(tx, BootDiagnose) => Joins(tx, BootDiagnose)')
  BY <1>1, DiskFrame DEF CInv
<1>3. Reported'
  BY <1>1, <1>2 DEF CInv, Reported
<1>4. tx.tag = "bootstrap" /\ tx.snaps = {BootPromoted, BootDiagnose}
  BY DEF Tx
<1> HIDE DEF tx
<1>5. Standing(BootDiagnose)
  BY BootFields, LimitsAssumption DEF Standing, At
<1>6. Joins(tx, BootDiagnose)
  <2>1. BootPromoted.at < BootDiagnose.at
    BY BootFields DEF At
  <2>2. Fits(BootDiagnose)
    BY <1>1 DEF Fits
  <2>3. Decides(Committed \cup tx.snaps, BootDiagnose.meta)
    BY BootFields DEF Decides
  <2>4. Fresh(Committed \cup tx.snaps, BootDiagnose)
    BY <1>1, <1>4, BootFields DEF Fresh, Asks
  <2> QED
    BY <1>1, <1>4, <1>5, <2>1, <2>2, <2>3, <2>4, BootFields DEF Joins
<1>7. AllDone'
  BY <1>2 DEF AllDone
<1>8. Follows(job, mem, target)'
  BY <1>1, <1>4 DEF Follows
<1>9. Joins(job, mem)'
  BY <1>1, <1>2, <1>6
<1>10. Progress'
  BY <1>1, <1>7, <1>8, <1>9 DEF Progress, Materializing, Coming
<1> QED
  BY <1>2, <1>3, <1>10 DEF CInv

LEMMA StartResumeChain ==
  ASSUME IInv, CInv, StartResume
  PROVE  CInv'
<1>1. /\ pc' = "reconcile" /\ report' = report /\ txs' = txs /\ bundles' = bundles
      /\ pointer' = pointer /\ history' = history /\ markers' = markers
  BY DEF StartResume, disk
<1>2. PICK s \in LatestSnapshots : mem' = s
  BY DEF StartResume
<1>3. Tip(s)
  BY <1>2, LatestIsTip DEF CInv
<1>4. /\ FilesAgree' /\ Chain' /\ Committed' = Committed /\ (AllDone => AllDone')
      /\ (\A r : Last(r) => Last(r)') /\ Tip(s)'
  BY <1>1, <1>3, DiskFrame DEF CInv
<1>5. Tip(mem)'
  BY <1>2, <1>4
<1>6. Progress'
  BY <1>1, <1>5 DEF Progress, Materializing
<1>7. Reported'
  BY <1>1, <1>4 DEF CInv, Reported, PointerOf
<1> QED
  BY <1>4, <1>6, <1>7 DEF CInv

LEMMA ReconcileChain ==
  ASSUME IInv, CInv, Reconcile
  PROVE  CInv'
<1>1. /\ pc = "reconcile" /\ report' = report /\ txs' = txs /\ bundles' = bundles
      /\ pointer' = pointer /\ history' = history /\ markers' = markers /\ mem' = mem
  BY DEF Reconcile, disk, Goto
<1>2. /\ FilesAgree' /\ Chain' /\ Committed' = Committed /\ (AllDone => AllDone')
      /\ (\A r : Last(r) => Last(r)') /\ (Tip(mem) => Tip(mem)') /\ (Fits(mem) => Fits(mem)')
  BY <1>1, DiskFrame DEF CInv
<1>3. Tip(mem)
  BY <1>1 DEF CInv, Progress
<1>4. CASE Asks(mem)
  <2>1. pc' = "bundle" /\ target' = mem.meta
    BY <1>4 DEF Reconcile, Asks
  <2>2. Progress'
    BY <1>1, <1>2, <1>3, <1>4, <2>1 DEF Progress, Materializing, Aim, Asks
  <2>3. Reported'
    BY <1>1, <1>2, <2>1 DEF CInv, Reported, PointerOf
  <2> QED
    BY <1>2, <2>2, <2>3 DEF CInv
<1>5. CASE ~Asks(mem)
  <2>1. pc' = "loop" /\ mem.meta.action = "NONE"
    BY <1>5 DEF Reconcile, Asks, Goto
  <2>2. Fits(mem) /\ Done(mem.meta)
    BY <1>3, <2>1 DEF Tip, Done
  <2>3. Progress'
    BY <1>1, <1>2, <1>3, <2>1, <2>2 DEF Progress, Materializing, Done
  <2>4. Reported'
    BY <1>1, <1>2, <2>1 DEF CInv, Reported, PointerOf
  <2> QED
    BY <1>2, <2>3, <2>4 DEF CInv
<1> QED
  BY <1>4, <1>5

\* At the head of the loop everything the snapshots ask for is done.
LEMMA LoopDone ==
  ASSUME CInv, pc \in {"loop", "train"}
  PROVE  Tip(mem) /\ Fits(mem) /\ Done(mem.meta) /\ AllDone
<1>1. Tip(mem) /\ Fits(mem) /\ Done(mem.meta)
  BY DEF CInv, Progress
<1> QED
  BY <1>1 DEF Tip, AllDone

LEMMA FinishChain ==
  ASSUME IInv, CInv, Finish
  PROVE  CInv'
<1>1. /\ pc = "loop" /\ pc' = "done" /\ report' = mem /\ txs' = txs /\ bundles' = bundles
      /\ pointer' = pointer /\ history' = history /\ markers' = markers
  BY DEF Finish, Ends, disk
<1>2. Tip(mem) /\ AllDone
  BY <1>1, LoopDone
<1>3. FilesAgree' /\ Chain' /\ Committed' = Committed /\ AllDone'
  BY <1>1, <1>2, DiskFrame DEF CInv
<1>4. mem.meta.action = "PROMOTE" => pointer = PointerOf(mem.meta)
  BY <1>1 DEF CInv, Progress
<1>5. Progress'
  BY <1>1, <1>3 DEF Progress, Materializing
<1>6. Last(report)'
  BY <1>1, <1>2, <1>3 DEF Tip, Last
<1>7. Reported'
  BY <1>1, <1>2, <1>3, <1>4, <1>6 DEF Reported, PointerOf, Tip
<1> QED
  BY <1>3, <1>5, <1>7 DEF CInv

-----------------------------------------------------------------------------
(* Materializing.                                                          *)

\* What a process that materializes is about.
LEMMA AimHolds ==
  ASSUME IInv, CInv, pc \in {"bundle", "cas", "swap"}
  PROVE  /\ Tip(mem)
         /\ \/ target = mem.meta /\ Asks(mem)
            \/ /\ target = BaseMeta /\ mem = BootDiagnose /\ BootPromoted \in Committed
               /\ back = "reconcile"
BY DEF CInv, Progress, Materializing, Aim

\* What was reported was materialized: doing it again changes nothing.
LEMMA ReportedDone ==
  ASSUME IInv, CInv, pc \in {"bundle", "cas", "swap"}, report.state \in TerminalStates
  PROVE  /\ report = mem /\ target = mem.meta
         /\ Done(target) /\ BundleOf(target) \in bundles
         /\ target.action = "PROMOTE" => pointer = PointerOf(target)
<1>1. report = mem
  BY AimHolds, ReportIsMem DEF CInv
<1>2. mem # BootDiagnose
  BY <1>1, BootFields DEF TerminalStates
<1>3. target = mem.meta /\ Asks(mem) /\ mem \in Committed
  BY <1>2, AimHolds DEF Tip
<1>4. Done(mem.meta)
  BY <1>3 DEF CInv, Reported, AllDone
<1>5. mem.meta.action = "PROMOTE" => pointer = PointerOf(mem.meta)
  BY <1>1 DEF CInv, Reported
<1> QED
  BY <1>1, <1>3, <1>4, <1>5 DEF Done, Asks

LEMMA CommitBundleChain ==
  ASSUME IInv, CInv, CommitBundle
  PROVE  CInv'
<1> DEFINE conflict == \E b \in bundles : b.ckpt = target.ckpt /\ b # TargetBundle
<1>1. /\ pc = "bundle" /\ report' = report /\ txs' = txs
      /\ pointer' = pointer /\ history' = history /\ markers' = markers
  BY DEF CommitBundle
<1>2. TargetBundle = BundleOf(target) /\ TargetBundle.ckpt = target.ckpt
  BY DEF TargetBundle, BundleOf
<1>3. target.action \in Decided /\ back \in {"loop", "reconcile"}
  BY <1>1 DEF IInv, ProcessOK
<1>4. Tip(mem) /\ Aim
  BY <1>1 DEF CInv, Progress, Materializing
<1>5. CASE conflict
  <2>1. pc' = "failed" /\ bundles' = bundles
    BY <1>5 DEF CommitBundle, Ends
  <2>2. report.state \notin TerminalStates
    BY <1>1, <1>2, <1>5, ReportedDone DEF CInv, FilesAgree
  <2> QED
    BY <1>1, <2>1, <2>2, IdleStep
<1>6. CASE ~conflict
  <2>1. /\ bundles' = bundles \cup {BundleOf(target)}
        /\ mem' = mem /\ target' = target /\ job' = job /\ back' = back
        /\ \/ target.action = "PROMOTE" /\ pc' = "cas"
           \/ target.action \in {"REJECT", "ROLLBACK"} /\ pc' = "mark"
           \/ target.action = "ABORT" /\ pc' = back
    BY <1>2, <1>3, <1>6 DEF CommitBundle, Goto, Decided
  <2> HIDE DEF conflict
  <2>2. /\ Committed' = Committed /\ (AllDone => AllDone')
        /\ \A r : Last(r) => Last(r)'
    BY <1>1, <2>1, DiskGrows
  <2>3. Fits(mem) => Fits(mem)'
    BY <1>1, <2>1 DEF Fits
  <2>4. Tip(mem)' /\ Chain'
    <3>1. Tip(mem) /\ (mem.meta.action # "PROMOTE" => Fits(mem)')
      BY <1>4, <2>3 DEF Tip
    <3> DEFINE s == mem
    <3>2. Fits(mem)' => Fits(s)'
      BY <2>1 DEF Fits
    <3>3. (\A r : (Tip(r) /\ (r.meta.action # "PROMOTE" => Fits(r)')) => Tip(r)' /\ (Chain => Chain'))
      BY <1>1, <2>1, TipStays
    <3> QED
      BY <3>1, <3>3, <2>1 DEF CInv, Tip
  <2>5. FilesAgree'
    <3>1. \A b \in bundles : b.ckpt = target.ckpt => b = BundleOf(target)
      BY <1>2, <1>6 DEF conflict
    <3> QED
      BY <1>1, <1>2, <2>1, <2>2, <3>1 DEF CInv, FilesAgree
  <2>6. Aim => Aim' \/ pc' = back
    BY <1>1, <2>1, <2>2 DEF Aim, Asks
  <2>7. pc' = "loop" => Fits(mem)' /\ Done(mem.meta)' /\ mem.meta.action # "PROMOTE"
    <3>1. ASSUME pc' = "loop" PROVE target = mem.meta /\ target.action = "ABORT"
      BY <1>1, <1>4, <2>1, <3>1 DEF Aim
    <3> QED
      BY <1>4, <2>1, <2>3, <3>1 DEF Tip, Done, BundleOf
  <2>8. Progress'
    BY <1>3, <1>4, <2>1, <2>4, <2>6, <2>7 DEF Progress, Materializing, BundleOf
  <2>9. Reported'
    BY <1>1, <1>3, <2>1, <2>2 DEF CInv, Reported, PointerOf
  <2> QED
    BY <2>4, <2>5, <2>8, <2>9 DEF CInv
<1> QED
  BY <1>5, <1>6

\* A pointer that was swapped in is the one the process aims at.
LEMMA AimedPointer ==
  ASSUME IInv, CInv, pc \in {"cas", "swap"}
  PROVE  /\ PromotedIn(Committed, target.ckpt, target.score)
         /\ \/ target.ckpt = Base
            \/ \E s \in Committed : s.meta.action = "PROMOTE" /\ s.meta.ckpt = target.ckpt
<1>1. target.action = "PROMOTE"
  BY DEF IInv, ProcessOK
<1>2. CASE target = mem.meta /\ Asks(mem)
  <2>1. mem \in Committed
    BY AimHolds DEF Tip
  <2>2. Decides(Committed, mem.meta)
    BY <2>1 DEF CInv, Chain
  <2> QED
    BY <1>1, <1>2, <2>1, <2>2 DEF Decides
<1>3. CASE target = BaseMeta /\ BootPromoted \in Committed
  <2>1. PromotedIn(Committed, Base, InitialScore)
    BY <1>3, BootFields DEF PromotedIn
  <2> QED
    BY <1>3, <2>1, BootFields
<1> QED
  BY <1>2, <1>3, AimHolds

LEMMA CasHistoryChain ==
  ASSUME IInv, CInv, CasHistory
  PROVE  CInv'
<1>1. /\ pc = "cas" /\ report' = report /\ txs' = txs /\ bundles' = bundles
      /\ pointer' = pointer /\ markers' = markers
  BY DEF CasHistory
<1>2. TargetPointer = PointerOf(target)
  BY DEF TargetPointer, PointerOf
<1>3. target.action = "PROMOTE" /\ back \in {"loop", "reconcile"}
  BY <1>1 DEF IInv, ProcessOK
<1>4. Tip(mem) /\ Aim /\ BundleOf(target) \in bundles
  BY <1>1 DEF CInv, Progress, Materializing
<1>5. CASE pointer = TargetPointer
  <2>1. pc' = back /\ mem' = mem /\ history' = history
    BY <1>5 DEF CasHistory, Goto
  <2>2. /\ FilesAgree' /\ Chain' /\ Committed' = Committed /\ (AllDone => AllDone')
        /\ (\A r : Last(r) => Last(r)') /\ Tip(mem)'
    <3>1. \A s : Tip(s) => Tip(s)'
      BY <1>1, <2>1, DiskFrame
    <3>2. Tip(mem)'
      BY <1>4, <2>1, <3>1
    <3> QED
      BY <1>1, <2>1, <3>2, DiskFrame DEF CInv
  <2>3. pc' = "loop" => Fits(mem)' /\ Done(mem.meta)' /\ pointer = PointerOf(mem.meta)
    <3> SUFFICES ASSUME pc' = "loop"
                 PROVE  Fits(mem)' /\ Done(mem.meta)' /\ pointer = PointerOf(mem.meta)
      OBVIOUS
    <3>1. target = mem.meta
      BY <1>1, <1>4, <2>1 DEF Aim
    <3>2. mem.meta.ckpt = mem.peak /\ mem.meta.score = mem.score
      BY <1>3, <1>4, <3>1 DEF Tip, Standing
    <3>3. pointer = PointerOf(mem.meta) /\ pointer.ckpt = mem.peak /\ pointer.score = mem.score
      BY <1>2, <1>5, <3>1, <3>2 DEF PointerOf
    <3>4. PointerOf(mem.meta) \in history
      <4>1. pointer # NoPointer
        BY <1>3, <3>1, <3>3 DEF IInv, ProcessOK, NoPointer, None, PointerOf
      <4> QED
        BY <3>3, <4>1 DEF CInv, FilesAgree
    <3>5. Fits(mem)'
      BY <1>1, <2>1, <3>3 DEF Fits
    <3>6. Done(mem.meta)'
      BY <1>1, <1>3, <1>4, <2>1, <3>1, <3>4 DEF Done, BundleOf, PointerOf
    <3> QED
      BY <3>3, <3>5, <3>6
  <2>4. Progress'
    BY <1>1, <1>3, <2>1, <2>2, <2>3 DEF Progress, Materializing, PointerOf
  <2>5. Reported'
    BY <1>1, <1>3, <2>1, <2>2 DEF CInv, Reported, PointerOf
  <2> QED
    BY <2>2, <2>4, <2>5 DEF CInv
<1>6. CASE pointer # TargetPointer
  <2>1. report.state \notin TerminalStates
    BY <1>1, <1>2, <1>3, <1>6, ReportedDone
  <2>2. CASE ~CasAllowed(TargetPointer)
    <3>1. pc' = "failed" /\ history' = history
      BY <1>6, <2>2 DEF CasHistory, Ends
    <3> QED
      BY <1>1, <2>1, <3>1, IdleStep
  <2>3. CASE CasAllowed(TargetPointer)
    <3>1. /\ pc' = "swap" /\ mem' = mem /\ target' = target /\ back' = back
          /\ history' = history \cup {PointerOf(target)}
      BY <1>2, <1>6, <2>3 DEF CasHistory, Goto
    <3>2. Fits(mem) => Fits(mem)'
      BY <1>1, <3>1 DEF Fits
    <3>3. Tip(mem)' /\ Chain' /\ Committed' = Committed
      <4>1. Tip(mem) /\ (mem.meta.action # "PROMOTE" => Fits(mem)')
        BY <1>4, <3>2 DEF Tip
      <4>2. (\A r : (Tip(r) /\ (r.meta.action # "PROMOTE" => Fits(r)')) => Tip(r)' /\ (Chain => Chain'))
        BY <1>1, <3>1, TipStays
      <4>3. Committed' = Committed
        BY <1>1, <3>1, DiskGrows
      <4> QED
        BY <4>1, <4>2, <4>3, <3>1 DEF CInv, Tip
    <3>4. FilesAgree'
      <4>1. PromotedIn(Committed, target.ckpt, target.score)
            /\ \/ target.ckpt = Base
               \/ \E s \in Committed : s.meta.action = "PROMOTE" /\ s.meta.ckpt = target.ckpt
        BY <1>1, AimedPointer
      <4>2. PointerOf(target).ckpt = target.ckpt /\ PointerOf(target).score = target.score
        BY DEF PointerOf
      <4> QED
        BY <1>1, <3>1, <3>3, <4>1, <4>2 DEF CInv, FilesAgree
    <3>5. Aim'
      BY <1>1, <1>4, <3>1, <3>3 DEF Aim, Asks
    <3>6. Progress'
      BY <1>1, <1>4, <3>1, <3>3, <3>5 DEF Progress, Materializing, BundleOf, PointerOf
    <3>7. Reported'
      BY <1>1, <2>1 DEF Reported
    <3> QED
      BY <3>3, <3>4, <3>6, <3>7 DEF CInv
  <2> QED
    BY <2>2, <2>3
<1> QED
  BY <1>5, <1>6

LEMMA CasSwapChain ==
  ASSUME IInv, CInv, CasSwap
  PROVE  CInv'
<1>1. /\ pc = "swap" /\ report' = report /\ txs' = txs /\ bundles' = bundles
      /\ pointer' = PointerOf(target) /\ history' = history /\ markers' = markers
      /\ mem' = mem /\ pc' = back
  BY DEF CasSwap, Goto, TargetPointer, PointerOf
<1>2. target.action = "PROMOTE" /\ back \in {"loop", "reconcile"}
  BY <1>1 DEF IInv, ProcessOK
<1>3. Tip(mem) /\ Aim /\ BundleOf(target) \in bundles /\ PointerOf(target) \in history
  BY <1>1 DEF CInv, Progress, Materializing
<1>4. Fits(mem)'
  <2>1. CASE target = mem.meta
    BY <1>1, <1>2, <1>3, <2>1 DEF Tip, Standing, Fits, PointerOf
  <2>2. CASE target = BaseMeta /\ mem = BootDiagnose
    BY <1>1, <2>2, BootFields DEF Fits, PointerOf
  <2> QED
    BY <1>1, <1>3, <2>1, <2>2 DEF Aim
<1>5. Tip(mem)' /\ Chain' /\ Committed' = Committed
  <2>1. \A r : (Tip(r) /\ (r.meta.action # "PROMOTE" => Fits(r)')) => Tip(r)' /\ (Chain => Chain')
    BY <1>1, TipStays
  <2>2. Committed' = Committed
    BY <1>1, DiskGrows
  <2> QED
    BY <1>1, <1>3, <1>4, <2>1, <2>2 DEF CInv
<1>6. FilesAgree'
  BY <1>1, <1>3, <1>5 DEF CInv, FilesAgree
<1>7. pc' = "loop" => Done(mem.meta)' /\ target = mem.meta
  BY <1>1, <1>2, <1>3 DEF Aim, Done, BundleOf, PointerOf
<1>8. Progress'
  BY <1>1, <1>2, <1>4, <1>5, <1>7 DEF Progress, Materializing, PointerOf
<1>9. Reported'
  BY <1>1 DEF CInv, Reported
<1> QED
  BY <1>5, <1>6, <1>8, <1>9 DEF CInv

LEMMA WriteQuarantineChain ==
  ASSUME IInv, CInv, WriteQuarantine
  PROVE  CInv'
<1>1. /\ pc = "mark" /\ report' = report /\ txs' = txs /\ bundles' = bundles
      /\ pointer' = pointer /\ history' = history
      /\ markers' = markers \cup {MarkerOf(target)}
      /\ mem' = mem /\ pc' = back /\ back \in {"loop", "reconcile"}
  BY DEF WriteQuarantine, Goto, MarkerOf, IInv, ProcessOK
<1>2. Tip(mem) /\ Aim
  BY <1>1 DEF CInv, Progress, Materializing
<1>3. target.action # "QUARANTINE" =>
        BundleOf(target) \in bundles /\ target.action \in {"REJECT", "ROLLBACK"}
  BY <1>1 DEF CInv, Progress
<1>4. Fits(mem) => Fits(mem)'
  BY <1>1 DEF Fits
<1>5. Tip(mem)' /\ Chain' /\ Committed' = Committed /\ (AllDone => AllDone')
      /\ \A r : Last(r) => Last(r)'
  <2>1. \A r : (Tip(r) /\ (r.meta.action # "PROMOTE" => Fits(r)')) => Tip(r)' /\ (Chain => Chain')
    BY <1>1, TipStays
  <2>2. /\ Committed' = Committed /\ (AllDone => AllDone')
        /\ \A r : Last(r) => Last(r)'
    BY <1>1, DiskGrows
  <2>3. Tip(mem) /\ (mem.meta.action # "PROMOTE" => Fits(mem)')
    BY <1>2, <1>4 DEF Tip
  <2> QED
    BY <1>1, <2>1, <2>2, <2>3 DEF CInv
<1>6. \/ target.ckpt = None
      \/ \E s \in Committed : s.meta.action \in {"REJECT", "ROLLBACK"} /\ s.meta.ckpt = target.ckpt
  <2>1. CASE target.action = "QUARANTINE"
    <3>1. mem.meta.action # "QUARANTINE" /\ BaseMeta.action # "QUARANTINE"
      BY BootFields DEF IInv, ProcessOK, Sound, Decided
    <3> QED
      BY <1>2, <2>1, <3>1 DEF Aim
  <2>2. CASE target.action # "QUARANTINE"
    <3>1. target = mem.meta /\ mem \in Committed
      BY <1>2, <1>3, <2>2, BootFields DEF Aim, Tip
    <3> QED
      BY <1>3, <2>2, <3>1
  <2> QED
    BY <2>1, <2>2
<1>7. FilesAgree'
  <2>1. MarkerOf(target).ckpt = target.ckpt
    BY DEF MarkerOf
  <2> QED
    BY <1>1, <1>5, <1>6, <2>1 DEF CInv, FilesAgree
<1>8. pc' = "loop" => Fits(mem)' /\ Done(mem.meta)' /\ mem.meta.action # "PROMOTE"
  <2> SUFFICES ASSUME pc' = "loop"
               PROVE  Fits(mem)' /\ Done(mem.meta)' /\ mem.meta.action # "PROMOTE"
    OBVIOUS
  <2>1. target = mem.meta
    BY <1>1, <1>2 DEF Aim
  <2>2. mem.meta.action # "QUARANTINE"
    BY DEF IInv, ProcessOK, Sound, Decided
  <2>3. BundleOf(mem.meta) \in bundles /\ mem.meta.action \in {"REJECT", "ROLLBACK"}
    BY <1>3, <2>1, <2>2
  <2>4. Fits(mem)'
    BY <1>2, <1>4, <2>3 DEF Tip
  <2>5. Done(mem.meta)'
    BY <1>1, <2>1, <2>3 DEF Done, BundleOf, MarkerOf
  <2> QED
    BY <2>3, <2>4, <2>5
<1>9. Progress'
  BY <1>1, <1>5, <1>8 DEF Progress, Materializing
<1>10. Reported'
  BY <1>1, <1>5 DEF CInv, Reported, PointerOf
<1> QED
  BY <1>5, <1>7, <1>9, <1>10 DEF CInv

-----------------------------------------------------------------------------
(* Committing.                                                             *)

\* A committed transaction is not committed again: its snapshot would have to
\* be later than itself.
LEMMA ComingIsNew ==
  ASSUME IInv, CInv, pc \in {"commit", "marker"}
  PROVE  job \notin txs /\ report.state \notin TerminalStates
<1>1. Coming
  BY DEF CInv, Progress
<1>2. mem.at \in Nat
  BY HeldTypes
<1>3. job \notin txs
  BY <1>1, <1>2 DEF Coming, Joins, Committed
<1> QED
  BY <1>3 DEF CInv, Reported

LEMMA WriteRecordsChain ==
  ASSUME IInv, CInv, WriteRecords
  PROVE  CInv'
<1>1. /\ pc = "commit" /\ report' = report /\ txs' = txs /\ bundles' = bundles
      /\ pointer' = pointer /\ history' = history /\ markers' = markers
  BY DEF WriteRecords
<1>2. job \notin txs /\ report.state \notin TerminalStates
  BY <1>1, ComingIsNew
<1>3. CASE Conflicts(job)
  <2>1. pc' = "failed"
    BY <1>2, <1>3 DEF WriteRecords, Ends
  <2> QED
    BY <1>1, <1>2, <2>1, IdleStep
<1>4. CASE ~Conflicts(job)
  <2>1. pc' = "marker" /\ mem' = mem /\ job' = job /\ target' = target /\ back' = back
    BY <1>2, <1>4 DEF WriteRecords, Goto
  <2>2. Coming
    BY <1>1 DEF CInv, Progress
  <2>3. /\ FilesAgree' /\ Chain' /\ (AllDone => AllDone')
        /\ (\A t, s : Joins(t, s) => Joins(t, s)')
    BY <1>1, DiskFrame DEF CInv
  <2>4. Joins(job, mem)'
    BY <2>1, <2>2, <2>3 DEF Coming
  <2>5. Coming'
    BY <2>1, <2>2, <2>3, <2>4 DEF Coming, Follows, Asks
  <2>6. Progress'
    BY <2>1, <2>5 DEF Progress, Materializing
  <2>7. Reported'
    BY <1>1, <1>2 DEF Reported
  <2> QED
    BY <2>3, <2>6, <2>7 DEF CInv
<1> QED
  BY <1>3, <1>4

\* Where a commit goes on, by what follows the transaction.
LEMMA AfterFollows ==
  ASSUME Follows(job, mem, target), mem.state # "TRAIN" \/ mem.meta.action = "NONE"
  PROVE  \/ /\ AfterCommit = "bundle"
            /\ \/ target = mem.meta /\ Asks(mem)
               \/ target = BaseMeta /\ mem = BootDiagnose /\ BootPromoted \in job.snaps
         \/ AfterCommit = "train" /\ mem.state = "TRAIN" /\ mem.meta.action = "NONE"
         \/ AfterCommit = "mark" /\ target.action = "QUARANTINE" /\ target.ckpt = None
         \/ AfterCommit = "reconcile"
BY DEF Follows, AfterCommit

\* The marker makes the snapshot of the transaction the last of the chain.
LEMMA WriteMarkerChain ==
  ASSUME IInv, CInv, WriteMarker
  PROVE  CInv'
<1>1. /\ pc = "marker" /\ report' = report /\ txs' = txs \cup {job} /\ bundles' = bundles
      /\ pointer' = pointer /\ history' = history /\ markers' = markers
      /\ mem' = mem /\ target' = target /\ back' = back /\ pc' = AfterCommit
  BY DEF WriteMarker, Goto
<1>2. Committed' = Committed \cup job.snaps
  BY <1>1 DEF Committed
<1>3. AllDone /\ back = "reconcile" /\ Joins(job, mem) /\ Follows(job, mem, target)
  BY <1>1 DEF CInv, Progress, Coming
<1>4. \A m : Done(m)' <=> Done(m)
  BY <1>1 DEF Done
<1>5. Fits(mem)' <=> Fits(mem)
  BY <1>1 DEF Fits
<1>6. \A r \in Committed' : r = mem \/ (r.at < mem.at /\ Done(r.meta))
  BY <1>2, <1>3 DEF Joins, AllDone, Done
<1>7. Tip(mem)'
  <2>1. mem \in Committed' /\ Standing(mem)
    BY <1>2, <1>3 DEF Joins
  <2>2. Last(mem)'
    BY <1>1, <1>6 DEF Last
  <2>3. mem.meta.action # "PROMOTE" => Fits(mem)'
    BY <1>3, <1>5 DEF Joins
  <2>4. Fresh(Committed', mem)
    BY <1>2, <1>3 DEF Joins
  <2> QED
    BY <1>1, <1>4, <1>6, <2>1, <2>2, <2>3, <2>4 DEF Tip
<1>8. Chain'
  <2>1. ASSUME NEW s \in Committed' PROVE Decides(Committed', s.meta)
    <3>1. CASE s = mem
      BY <1>2, <1>3, <3>1 DEF Joins
    <3>2. CASE s \in Committed
      <4>1. Decides(Committed, s.meta)
        BY <3>2 DEF CInv, Chain
      <4>2. \A r \in Committed' : r \in Committed \/ r = mem \/ ~Asks(r)
        BY <1>2, <1>3 DEF Joins, Asks
      <4>3. Asks(s) /\ Asks(mem) /\ mem.meta.ckpt = s.meta.ckpt => mem.meta.action = s.meta.action
        BY <1>2, <1>3, <3>2 DEF Joins, Decides, Asks
      <4> QED
        BY <1>2, <4>1, <4>2, <4>3 DEF Decides, PromotedIn, Asks
    <3>3. CASE s \in job.snaps /\ s # mem
      BY <1>3, <3>3 DEF Joins, Decides
    <3> QED
      BY <1>2, <3>1, <3>2, <3>3
  <2>2. mem \in Committed'
    BY <1>2, <1>3 DEF Joins
  <2> QED
    BY <1>1, <1>7, <2>1, <2>2 DEF Chain
<1>9. FilesAgree'
  <2>1. \A c, x : PromotedIn(Committed, c, x) => PromotedIn(Committed', c, x)
    BY <1>2 DEF PromotedIn
  <2>2. /\ \A b, k \in bundles' : b.ckpt = k.ckpt => b = k
        /\ pointer' # NoPointer => pointer' \in history'
    BY <1>1 DEF CInv, FilesAgree
  <2>3. \A h \in history' :
          /\ PromotedIn(Committed', h.ckpt, h.score)
          /\ \/ h.ckpt = Base
             \/ \E s \in Committed' : s.meta.action = "PROMOTE" /\ s.meta.ckpt = h.ckpt
    BY ONLY <1>1, <1>2, <2>1, CInv DEF CInv, FilesAgree
  <2>4. \A q \in markers' :
          \/ q.ckpt = None
          \/ \E s \in Committed' : /\ s.meta.action \in {"REJECT", "ROLLBACK"}
                                   /\ s.meta.ckpt = q.ckpt
    BY ONLY <1>1, <1>2, CInv DEF CInv, FilesAgree
  <2> QED
    BY ONLY <2>2, <2>3, <2>4 DEF FilesAgree, PromotedIn
<1>10. mem.state = "TRAIN" => mem.meta.action = "NONE"
  BY <1>3 DEF Joins, Standing
<1>11. Progress'
  <2>1. CASE AfterCommit = "bundle"
    <3>1. Aim'
      BY <1>1, <1>2, <1>3, <1>10, <2>1, AfterFollows DEF Aim, Asks
    <3> QED
      BY <1>1, <1>7, <2>1, <3>1 DEF Progress, Materializing
  <2>2. CASE AfterCommit = "train"
    <3>1. mem.meta.action = "NONE"
      BY <1>3, <1>10, <2>2, AfterFollows
    <3>2. Fits(mem)' /\ Done(mem.meta)
      BY <1>3, <1>5, <3>1 DEF Joins, Done
    <3>3. Done(mem.meta)'
      BY <1>1, <1>4, <3>2
    <3> QED
      BY <1>1, <1>7, <2>2, <3>2, <3>3 DEF Progress, Materializing
  <2>3. CASE AfterCommit = "mark"
    <3>1. target.action = "QUARANTINE" /\ target.ckpt = None
      BY <1>3, <1>10, <2>3, AfterFollows
    <3>2. Aim'
      BY <1>1, <1>3, <2>3, <3>1 DEF Aim
    <3> QED
      BY <1>1, <1>7, <2>3, <3>1, <3>2 DEF Progress, Materializing
  <2>4. CASE AfterCommit = "reconcile"
    BY <1>1, <1>7, <2>4 DEF Progress, Materializing
  <2> QED
    BY <1>3, <1>10, <2>1, <2>2, <2>3, <2>4, AfterFollows
<1>12. Reported'
  BY <1>1, ComingIsNew DEF Reported
<1> QED
  BY <1>8, <1>9, <1>11, <1>12 DEF CInv

-----------------------------------------------------------------------------
(* Handing over a transaction.                                             *)

\* What a handler has to show of the transaction it hands over.
LEMMA HandOver ==
  ASSUME IInv, CInv, pc \in {"loop", "train"}, mem.state \in {"DIAGNOSE", "TRAIN"},
         NEW tx, NEW s, NEW what, Submit("commit", tx, s, what),
         report' = report, txs' = txs, bundles' = bundles, pointer' = pointer,
         history' = history, markers' = markers,
         s \in tx.snaps, Standing(s), Follows(tx, s, what), s.at \in Nat, mem.at < s.at,
         \A r \in tx.snaps : r = s \/ (r.at < s.at /\ r.meta.action = "NONE"),
         s.meta.action # "PROMOTE" => s.peak = mem.peak /\ s.score = mem.score,
         Decides(Committed \cup tx.snaps, s.meta), Fresh(Committed \cup tx.snaps, s)
  PROVE  CInv'
<1>1. /\ pc' = "commit" /\ job' = tx /\ mem' = s /\ target' = what /\ back' = "reconcile"
  BY DEF Submit
<1>2. Tip(mem) /\ Fits(mem) /\ AllDone
  BY LoopDone
<1>3. /\ FilesAgree' /\ Chain' /\ AllDone' /\ (Joins(tx, s) => Joins(tx, s)')
  BY <1>2, DiskFrame DEF CInv
<1>4. \A r \in Committed : r.at < s.at
  <2>1. mem.at \in Nat /\ \A r \in Committed : r.at \in Nat
    BY HeldTypes
  <2> QED
    BY <1>2, <2>1 DEF Tip, Last
<1>5. s.meta.action # "PROMOTE" => Fits(s)
  BY <1>2 DEF Fits
<1>6. Joins(tx, s)
  BY <1>4, <1>5 DEF Joins
<1>7. Joins(job, mem)'
  BY <1>1, <1>3, <1>6
<1>8. Coming'
  BY <1>1, <1>3, <1>7 DEF Coming, Follows, Asks
<1>9. Progress'
  BY <1>1, <1>8 DEF Progress, Materializing
<1>10. report.state \notin TerminalStates
  <2>1. mem.state \notin TerminalStates
    BY DEF TerminalStates
  <2> QED
    BY <1>2, <2>1, ReportIsMem DEF CInv
<1>11. Reported'
  BY <1>10 DEF Reported
<1> QED
  BY <1>3, <1>9, <1>11 DEF CInv

\* The decision a snapshot carries is the one of the snapshot before it.
LEMMA Inherits ==
  ASSUME CInv, NEW s, NEW snaps, mem \in Committed, s.meta = mem.meta,
         \A r \in snaps : r = s \/ r.meta.action = "NONE"
  PROVE  Decides(Committed \cup snaps, s.meta)
<1>1. Decides(Committed, mem.meta)
  BY DEF CInv, Chain
<1> QED
  BY <1>1 DEF Decides, PromotedIn, Asks

LEMMA TerminalKeeps ==
  ASSUME NEW s \in SnapshotType, NEW state, NEW at, NEW cost, NEW stop, NEW e,
         e = Terminal(s, state, at, cost, stop)
  PROVE  /\ e.state = state /\ e.at = at /\ e.active = s.active /\ e.peak = s.peak
         /\ e.score = s.score /\ e.meta = s.meta
BY DEF Terminal, SnapshotType

LEMMA SnapshotKeeps ==
  ASSUME NEW s \in SnapshotType, NEW state, NEW at, NEW cand, NEW score, NEW m, NEW e,
         e = Snapshot(s, state, at, cand, score, m)
  PROVE  /\ e.state = state /\ e.at = at /\ e.active = s.active /\ e.peak = s.peak
         /\ e.score = s.score /\ e.meta = m /\ e.iteration = s.iteration
         /\ e.plateau = s.plateau
BY DEF Snapshot, SnapshotType

\* _abort_before_candidate and _abort_after_data: what the decision before it
\* asked for is on disk already, and the abort asks for no more.
LEMMA AbortChain ==
  ASSUME IInv, CInv, pc \in {"loop", "train"}, mem.state \in {"DIAGNOSE", "TRAIN"},
         NEW tag \in {"pre-candidate-abort", "candidate-execution-abort"},
         NEW k \in Nat, NEW stop, mem.at < At(mem.iteration, k),
         NEW base \in {mem, [mem EXCEPT !.meta = NoMeta]},
         LET s == Terminal(base, "ABORTED", At(mem.iteration, k), mem.cost, stop)
         IN  Submit("commit", Tx(tag, mem.iteration, "controller", {s}), s, NoMeta),
         report' = report, txs' = txs, bundles' = bundles, pointer' = pointer,
         history' = history, markers' = markers
  PROVE  CInv'
<1> DEFINE s  == Terminal(base, "ABORTED", At(mem.iteration, k), mem.cost, stop)
           tx == Tx(tag, mem.iteration, "controller", {s})
<1>1. Submit("commit", tx, s, NoMeta)
  OBVIOUS
<1>2. mem \in SnapshotType /\ At(mem.iteration, k) \in Nat
  BY HeldTypes, AtIsNat
<1>3. /\ s.state = "ABORTED" /\ s.at = At(mem.iteration, k) /\ s.active = mem.active
      /\ s.peak = mem.peak /\ s.score = mem.score /\ s.meta \in {mem.meta, NoMeta}
  <2>1. /\ base \in SnapshotType /\ base.active = mem.active /\ base.peak = mem.peak
        /\ base.score = mem.score /\ base.meta \in {mem.meta, NoMeta}
    BY <1>2, NoMetaType DEF SnapshotType
  <2> QED
    BY <1>2, <2>1, TerminalKeeps
<1> HIDE DEF s
<1>4. tx.tag = tag /\ tx.snaps = {s}
  BY DEF Tx
<1> HIDE DEF tx
<1>5. Tip(mem)
  BY LoopDone
<1>6. Standing(s)
  BY <1>3, <1>5, NoMetaType DEF Tip, Standing, TerminalStates
<1>7. Decides(Committed \cup tx.snaps, s.meta)
  <2>1. CASE s.meta = mem.meta
    BY <1>4, <1>5, <2>1, Inherits DEF Tip
  <2>2. CASE s.meta = NoMeta
    BY <2>2, NoMetaType DEF Decides
  <2> QED
    BY <1>3, <2>1, <2>2
<1>8. Fresh(Committed \cup tx.snaps, s) /\ Follows(tx, s, NoMeta)
  BY <1>3, <1>4 DEF Fresh, Follows
<1> QED
  BY <1>1, <1>2, <1>3, <1>4, <1>6, <1>7, <1>8, HandOver

\* The stages of an iteration come after whatever the iteration was begun with.
LEMMA DiagnosingAt ==
  ASSUME IInv, CInv, Diagnosing
  PROVE  /\ mem \in SnapshotType /\ mem.iteration \in Nat /\ Tip(mem)
         /\ \A k \in Nat : mem.at < At(mem.iteration, k)
<1>1. mem \in SnapshotType /\ mem.iteration \in Nat /\ mem.at \in Nat
  BY HeldTypes
<1>2. Tip(mem)
  BY LoopDone DEF Diagnosing
<1>3. mem.at <= At(mem.iteration - 1, 110)
  BY <1>2 DEF Tip, Standing, Diagnosing
<1> QED
  BY <1>1, <1>2, <1>3 DEF At

LEMMA TrainingAt ==
  ASSUME IInv, CInv, Training
  PROVE  /\ mem \in SnapshotType /\ mem.iteration \in Nat /\ Tip(mem)
         /\ mem.state = "TRAIN" /\ mem.at = At(mem.iteration, 50)
         /\ mem.meta.action = "NONE" /\ pc \in {"loop", "train"}
<1>1. mem \in SnapshotType /\ mem.iteration \in Nat
  BY HeldTypes
<1>2. mem.state = "TRAIN" /\ pc \in {"loop", "train"}
  BY DEF Training, IInv, ProcessOK
<1>3. Tip(mem)
  BY <1>2, LoopDone
<1> QED
  BY <1>1, <1>2, <1>3 DEF Tip, Standing

LEMMA TeacherFailsChain ==
  ASSUME IInv, CInv, TeacherFails
  PROVE  CInv'
<1>1. /\ pc = "loop" /\ mem.state = "DIAGNOSE" /\ mem.at < At(mem.iteration, 35)
      /\ AbortBefore("INTERNAL_ERROR")
  BY DiagnosingAt DEF TeacherFails, Diagnosing
<1> QED
  BY <1>1, AbortChain DEF AbortBefore, TeacherFails, disk

LEMMA TrainFailsChain ==
  ASSUME IInv, CInv, TrainFails
  PROVE  CInv'
<1>1. /\ pc \in {"loop", "train"} /\ mem.state = "TRAIN"
      /\ mem.at < At(mem.iteration, 75)
  BY TrainingAt DEF TrainFails, At
<1> QED
  BY <1>1, AbortChain DEF TrainFails, disk

\* The stage snapshots of a dataset precede its verdict and ask for nothing.
LEMMA DataStagesEarly ==
  ASSUME IInv, NEW m, m.action = "NONE", NEW r \in DataStages(mem, m)
  PROVE  /\ r.at < At(mem.iteration, 50) /\ r.at < At(mem.iteration, 51)
         /\ r.meta.action = "NONE"
<1>1. mem \in SnapshotType /\ mem.iteration \in Nat
  BY HeldTypes
<1>2. \E k \in {10, 20, 40} : r.at = At(mem.iteration, k) /\ r.meta = m
  BY <1>1, SnapshotKeeps DEF DataStages
<1> QED
  BY <1>1, <1>2 DEF At

LEMMA DataMetaKeeps ==
  ASSUME NEW b
  PROVE  DataMeta(b).action = "NONE"
BY DEF DataMeta, NoMeta

LEMMA RejectDatasetChain ==
  ASSUME IInv, CInv, Diagnosing, NEW b, NEW quality, RejectDataset(b, quality),
         report' = report, txs' = txs, bundles' = bundles, pointer' = pointer,
         history' = history, markers' = markers
  PROVE  CInv'
<1> DEFINE i    == mem.iteration
           m    == DataMeta(b)
           stop == IF quality = "none" THEN "NO_ACCEPTED_DATA" ELSE "LOW_ACCEPTANCE"
           base == [mem EXCEPT !.meta = m]
           q    == Snapshot(mem, "QUARANTINED", At(i, 50), None, 0, m)
           s    == Terminal(base, "STOPPED", At(i, 51), mem.cost + b.cost, stop)
           tx   == Tx("data", i, "adapter", DataStages(mem, m) \cup {q, s})
           what == [NoMeta EXCEPT !.source = i, !.tag = "data", !.action = "QUARANTINE"]
<1>1. Submit("commit", tx, s, what)
  BY DEF RejectDataset
<1>2. /\ mem \in SnapshotType /\ i \in Nat /\ Tip(mem) /\ At(i, 51) \in Nat
      /\ mem.at < At(i, 51) /\ At(i, 50) < At(i, 51)
  BY DiagnosingAt, AtIsNat DEF At
<1>3. m.action = "NONE"
  BY DataMetaKeeps
<1>4. what.action = "QUARANTINE" /\ what.ckpt = None
  BY DEF NoMeta
<1>5. q.at = At(i, 50) /\ q.meta = m
  BY <1>2, SnapshotKeeps
<1>6. /\ s.state = "STOPPED" /\ s.at = At(i, 51) /\ s.active = mem.active
      /\ s.peak = mem.peak /\ s.score = mem.score /\ s.meta = m
  <2> HIDE DEF m
  <2> QED
    BY <1>2 DEF Terminal, SnapshotType
<1>7. \A r \in DataStages(mem, m) : r.at < At(i, 51) /\ r.meta.action = "NONE"
  BY <1>3, DataStagesEarly
<1> HIDE DEF m, q, s, what
<1>8. tx.tag = "data" /\ tx.snaps = DataStages(mem, m) \cup {q, s}
  BY DEF Tx
<1> HIDE DEF tx, i
<1>9. Standing(s)
  BY <1>2, <1>3, <1>6 DEF Tip, Standing, TerminalStates
<1>10. \A r \in tx.snaps : r = s \/ (r.at < s.at /\ r.meta.action = "NONE")
  BY <1>2, <1>3, <1>5, <1>6, <1>7, <1>8
<1>11. Decides(Committed \cup tx.snaps, s.meta) /\ Fresh(Committed \cup tx.snaps, s)
  BY <1>3, <1>6 DEF Decides, Fresh
<1>12. Follows(tx, s, what)
  BY <1>4, <1>6, <1>8 DEF Follows
<1> QED
  BY <1>1, <1>2, <1>6, <1>8, <1>9, <1>10, <1>11, <1>12, HandOver DEF Diagnosing

LEMMA AdmitDatasetChain ==
  ASSUME IInv, CInv, Unreviewed, Diagnosing, NEW b, AdmitDataset(b),
         report' = report, txs' = txs, bundles' = bundles, pointer' = pointer,
         history' = history, markers' = markers
  PROVE  CInv'
<1> DEFINE i  == mem.iteration
           m  == DataMeta(b)
           s  == TrainSnapshot(mem, At(i, 50), m)
           tx == Tx("data", i, "adapter", DataStages(mem, m) \cup {s})
<1>1. Submit("commit", tx, s, NoMeta)
  BY DEF AdmitDataset, Unreviewed
<1>2. /\ mem \in SnapshotType /\ i \in Nat /\ Tip(mem) /\ At(i, 50) \in Nat
      /\ mem.at < At(i, 50)
  BY DiagnosingAt, AtIsNat
<1>3. m.action = "NONE"
  BY DataMetaKeeps
<1>4. /\ s.state = "TRAIN" /\ s.at = At(i, 50) /\ s.active = mem.active
      /\ s.peak = mem.peak /\ s.score = mem.score /\ s.meta = m /\ s.iteration = i
  <2> HIDE DEF m
  <2> QED
    BY <1>2, SnapshotKeeps DEF TrainSnapshot
<1>5. \A r \in DataStages(mem, m) : r.at < At(i, 50) /\ r.meta.action = "NONE"
  BY <1>3, DataStagesEarly
<1> HIDE DEF m, s
<1>6. tx.tag = "data" /\ tx.snaps = DataStages(mem, m) \cup {s}
  BY DEF Tx
<1> HIDE DEF tx
<1>7. Standing(s)
  BY <1>2, <1>3, <1>4 DEF Tip, Standing
<1>8. \A r \in tx.snaps : r = s \/ (r.at < s.at /\ r.meta.action = "NONE")
  BY <1>4, <1>5, <1>6
<1>9. Decides(Committed \cup tx.snaps, s.meta)
  BY <1>3, <1>4 DEF Decides
<1>10. Fresh(Committed \cup tx.snaps, s)
  <2>1. \A r \in Committed : Asks(r) => r.meta.ckpt < i
    BY <1>2 DEF Tip, Fresh, Diagnosing
  <2> QED
    BY <1>3, <1>4, <1>6, <1>8, <2>1 DEF Fresh, Asks
<1>11. Follows(tx, s, NoMeta)
  BY <1>4, <1>6 DEF Follows
<1> QED
  BY <1>1, <1>2, <1>4, <1>6, <1>7, <1>8, <1>9, <1>10, <1>11, HandOver DEF Diagnosing

LEMMA SynthesizeChain ==
  ASSUME IInv, CInv, Unreviewed, Synthesize
  PROVE  CInv'
<1>1. /\ Diagnosing /\ report' = report /\ txs' = txs /\ bundles' = bundles
      /\ pointer' = pointer /\ history' = history /\ markers' = markers
  BY DEF Synthesize
<1>2. PICK b \in Batches(mem.iteration) :
        IF Charge(b.cost) # "NONE"
        THEN AbortBefore(Charge(b.cost))
        ELSE \E quality : AdmitDataset(b) \/ RejectDataset(b, quality)
  BY DEF Synthesize
<1>3. CASE Charge(b.cost) # "NONE"
  <2>1. pc = "loop" /\ mem.state = "DIAGNOSE" /\ mem.at < At(mem.iteration, 35)
    BY <1>1, DiagnosingAt DEF Diagnosing
  <2> QED
    BY <1>1, <1>2, <1>3, <2>1, AbortChain DEF AbortBefore
<1>4. CASE Charge(b.cost) = "NONE"
  BY <1>1, <1>2, <1>4, AdmitDatasetChain, RejectDatasetChain
<1> QED
  BY <1>3, <1>4

-----------------------------------------------------------------------------
(* Deciding about a candidate.                                             *)

LEMMA CandidateKeeps ==
  ASSUME NEW s \in SnapshotType, NEW c, NEW action, NEW e, e = CandidateStep(s, c, action)
  PROVE  /\ e.state = TargetState[action] /\ e.at = c.at /\ e.iteration = s.iteration
         /\ e.meta = NoMeta
         /\ action = "PROMOTE" => e.active = c.ckpt /\ e.peak = c.ckpt /\ e.score = c.score
         /\ action # "PROMOTE" =>
              e.active = s.active /\ e.peak = s.peak /\ e.score = s.score
BY DEF CandidateStep, SnapshotType

LEMMA AdvanceKeeps ==
  ASSUME NEW s \in SnapshotType, NEW e, e = Advance(s)
  PROVE  /\ e.at = s.at /\ e.active = s.active /\ e.peak = s.peak /\ e.score = s.score
         /\ e.meta = s.meta /\ e.state \in {"STOPPED", "DIAGNOSE"}
         /\ e.state = "DIAGNOSE" => /\ e.plateau < PlateauPatience
                                    /\ e.iteration = s.iteration + 1
<1>1. s.plateau \in Nat /\ PlateauPatience \in Nat
  BY SnapshotFields, LimitsAssumption
<1> QED
  BY <1>1 DEF Advance, SnapshotType

LEMMA MaterializedKeeps ==
  ASSUME NEW s \in SnapshotType, NEW e \in SnapshotType, NEW tag, NEW action, NEW m,
         m = Materialized(s, e, tag, action)
  PROVE  /\ m.state = s.state /\ m.at = At(e.iteration, 110) /\ m.iteration = s.iteration
         /\ m.active = s.active /\ m.peak = s.peak /\ m.score = s.score
         /\ m.plateau = s.plateau
         /\ m.meta.action = action /\ m.meta.ckpt = e.meta.ckpt
         /\ m.meta.score = e.meta.score
<1>1. e.meta \in MetaType
  BY SnapshotFields
<1> QED
  BY <1>1 DEF Materialized, SnapshotType, MetaType

LEMMA EvaluateKeeps ==
  ASSUME NEW s \in SnapshotType, NEW ckpt, NEW score, NEW spent, NEW at, NEW e,
         e = EvaluateSnapshot(s, ckpt, score, spent, at)
  PROVE  /\ e.state = "EVALUATE" /\ e.at = at /\ e.active = s.active /\ e.peak = s.peak
         /\ e.score = s.score /\ e.iteration = s.iteration
         /\ e.meta.action = "NONE" /\ e.meta.ckpt = ckpt /\ e.meta.score = score
BY DEF EvaluateSnapshot, Snapshot, SnapshotType, NoMeta

\* The materialized snapshot of a decision: what it decides, from what.
Concludes(m, e, c, action) ==
  /\ m.at = At(e.iteration, 110)
  /\ m.state \in TerminalStates \cup {"DIAGNOSE"}
  /\ m.state = "DIAGNOSE" => /\ m.plateau < PlateauPatience
                             /\ m.iteration = e.iteration + 1
  /\ action = "PROMOTE" => m.active = c.ckpt /\ m.peak = c.ckpt /\ m.score = c.score
  /\ action # "PROMOTE" => m.active = e.active /\ m.peak = e.peak /\ m.score = e.score
  /\ m.meta.action = action /\ m.meta.ckpt = e.meta.ckpt /\ m.meta.score = e.meta.score

\* The other snapshots of a decision are of the time of the evaluation.
LEMMA DecisionConcludes ==
  ASSUME NEW e \in SnapshotType, NEW c, NEW action, NEW tag \in Tags,
         e.iteration \in Iterations,
         c.ckpt \in Nat, c.score \in Nat, c.cost \in Nat, c.at \in Nat,
         action = PrimaryAction(e, c), NEW m,
         m = Materialized(FinalSnapshot(Evaluate(e, c)), e, tag, action)
  PROVE  /\ action \in Decided /\ Concludes(m, e, c, action)
         /\ \A r \in PolicySnapshots(Evaluate(e, c), m) :
              r = m \/ (r.at = c.at /\ r.meta = NoMeta)
         /\ m \in PolicySnapshots(Evaluate(e, c), m)
         /\ action = "PROMOTE" =>
              PromotedIn(PolicySnapshots(Evaluate(e, c), m), c.ckpt, c.score)
<1> DEFINE p == CandidateStep(e, c, action)
           a == Advance(p)
<1>1. action \in {"PROMOTE", "REJECT", "ROLLBACK", "ABORT"}
  BY DEF PrimaryAction
<1>2. /\ p \in SnapshotType
      /\ p.state = TargetState[action] /\ p.iteration = e.iteration
      /\ p.cost = e.cost + c.cost /\ p.meta = NoMeta
  BY ONLY <1>1, CandidateOf, e \in SnapshotType, c.ckpt \in Nat, c.score \in Nat,
          c.cost \in Nat, c.at \in Nat, Zenon
<1>3. /\ p.state = TargetState[action] /\ p.at = c.at /\ p.meta = NoMeta
      /\ action = "PROMOTE" => p.active = c.ckpt /\ p.peak = c.ckpt /\ p.score = c.score
      /\ action # "PROMOTE" => p.active = e.active /\ p.peak = e.peak /\ p.score = e.score
  BY CandidateKeeps
<1> HIDE DEF p
<1>4. a \in SnapshotType
  BY <1>2, AdvanceOf
<1>5. /\ a.at = p.at /\ a.active = p.active /\ a.peak = p.peak /\ a.score = p.score
      /\ a.meta = p.meta /\ a.state \in {"STOPPED", "DIAGNOSE"}
      /\ a.state = "DIAGNOSE" => a.plateau < PlateauPatience /\ a.iteration = p.iteration + 1
  BY <1>2, AdvanceKeeps
<1> HIDE DEF a
<1>6. m \in PolicySnapshots(Evaluate(e, c), m)
  BY DEF PolicySnapshots
<1>7. CASE action \in {"PROMOTE", "REJECT"}
  <2>1. Evaluate(e, c) = <<p, a>> /\ FinalSnapshot(<<p, a>>) = a
    BY <1>7 DEF Evaluate, FinalSnapshot, p, a
  <2>2. PolicySnapshots(<<p, a>>, m) = {p, a, m}
    BY DEF PolicySnapshots
  <2>3. Concludes(m, e, c, action)
    <3>1. m = Materialized(a, e, tag, action)
      BY <2>1
    <3>2. /\ m.state = a.state /\ m.at = At(e.iteration, 110) /\ m.iteration = a.iteration
          /\ m.active = a.active /\ m.peak = a.peak /\ m.score = a.score
          /\ m.plateau = a.plateau
          /\ m.meta.action = action /\ m.meta.ckpt = e.meta.ckpt
          /\ m.meta.score = e.meta.score
      BY <1>4, <3>1, MaterializedKeeps
    <3> QED
      BY <1>2, <1>3, <1>5, <3>2 DEF Concludes, TerminalStates
  <2>4. action = "PROMOTE" => p.state = "PROMOTED"
    BY <1>3 DEF TargetState
  <2> QED
    BY <1>1, <1>3, <1>5, <1>6, <2>1, <2>2, <2>3, <2>4 DEF PromotedIn, Decided
<1>8. CASE action \notin {"PROMOTE", "REJECT"}
  <2>1. Evaluate(e, c) = <<p>> /\ FinalSnapshot(<<p>>) = p
    BY <1>8 DEF Evaluate, FinalSnapshot, p
  <2>2. PolicySnapshots(<<p>>, m) = {p, m}
    BY DEF PolicySnapshots
  <2>3. Concludes(m, e, c, action)
    <3>1. m = Materialized(p, e, tag, action)
      BY <2>1
    <3>2. /\ m.state = p.state /\ m.at = At(e.iteration, 110) /\ m.iteration = p.iteration
          /\ m.active = p.active /\ m.peak = p.peak /\ m.score = p.score
          /\ m.plateau = p.plateau
          /\ m.meta.action = action /\ m.meta.ckpt = e.meta.ckpt
          /\ m.meta.score = e.meta.score
      BY <1>2, <3>1, MaterializedKeeps
    <3>3. p.state \in {"ROLLED_BACK", "ABORTED"}
      BY <1>1, <1>3, <1>8 DEF TargetState
    <3> QED
      BY <1>3, <3>2, <3>3 DEF Concludes, TerminalStates
  <2> QED
    BY <1>1, <1>3, <1>6, <1>8, <2>1, <2>2, <2>3 DEF Decided
<1> QED
  BY <1>7, <1>8

LEMMA TrainAndEvaluateChain ==
  ASSUME IInv, CInv, Unreviewed, TrainAndEvaluate
  PROVE  CInv'
<1> DEFINE i == mem.iteration
<1>1. /\ Training /\ report' = report /\ txs' = txs /\ bundles' = bundles
      /\ pointer' = pointer /\ history' = history /\ markers' = markers
  BY DEF TrainAndEvaluate, disk
<1>2. /\ mem \in SnapshotType /\ i \in Nat /\ Tip(mem) /\ mem.state = "TRAIN"
      /\ mem.at = At(i, 50) /\ mem.meta.action = "NONE" /\ pc \in {"loop", "train"}
      /\ mem.meta.spent \in Nat
  BY <1>1, TrainingAt, HeldOK
<1>3. i \in Iterations
  BY <1>2 DEF IInv, ProcessOK, Sound
<1>4. PICK t \in Trials(i) :
        LET e      == EvaluateSnapshot(mem, i, t.score, mem.meta.spent + t.cost, At(i, 80))
            c      == Observation(mem, e)
            action == PrimaryAction(e, c)
        IN  SubmitDecision("candidate", e, Evaluate(e, c), action, "adapter",
                           {ServeSnapshot(mem), e})
  BY DEF TrainAndEvaluate, Unreviewed
<1>5. t.score \in Nat /\ t.cost \in Nat
  BY <1>3, <1>4, ControllerAssumption DEF Trials, IInv, WorldOK
<1> DEFINE spent  == mem.meta.spent + t.cost
           e      == EvaluateSnapshot(mem, i, t.score, spent, At(i, 80))
           c      == Observation(mem, e)
           action == PrimaryAction(e, c)
           serve  == ServeSnapshot(mem)
           m      == Materialized(FinalSnapshot(Evaluate(e, c)), e, "candidate", action)
           more   == PolicySnapshots(Evaluate(e, c), m)
           tx     == Tx("candidate", e.iteration, "adapter", {serve, e} \cup more)
<1>6. Submit("commit", tx, m, m.meta)
  BY <1>4 DEF SubmitDecision
<1>7. spent \in Nat /\ At(i, 80) \in Nat
  <2>1. spent \in Nat
    BY <1>2, <1>5
  <2>2. At(i, 80) \in Nat
    BY <1>2, AtIsNat
  <2> QED
    BY <2>1, <2>2
<1> HIDE DEF spent
<1>8. e \in SnapshotType /\ e.cand = i /\ e.candScore = t.score /\ e.meta.spent = spent
  <2>1. e = EvaluateSnapshot(mem, i, t.score, spent, At(i, 80))
    OBVIOUS
  <2> HIDE DEF e
  <2>2. Evaluates(e, mem, i, t.score, spent, At(i, 80))
    BY ONLY <1>2, <1>3, <1>5, <1>7, <2>1, EvaluateOf
  <2> QED
    BY ONLY <2>2 DEF Evaluates
<1>9. /\ e.at = At(i, 80) /\ e.active = mem.active /\ e.peak = mem.peak
      /\ e.score = mem.score /\ e.iteration = i
      /\ e.meta.action = "NONE" /\ e.meta.ckpt = i /\ e.meta.score = t.score
  BY <1>2, EvaluateKeeps
<1> HIDE DEF e
<1>10. /\ c.ckpt = i /\ c.score = t.score /\ c.at = At(i, 80) /\ c.cost \in Nat
       /\ c.ckpt \in Nat /\ c.score \in Nat /\ c.at \in Nat
  BY <1>2, <1>5, <1>7, <1>8, <1>9 DEF Observation
<1>11. serve.at = At(i, 70) /\ serve.meta.action = "NONE"
  BY <1>2, SnapshotKeeps DEF ServeSnapshot
<1> HIDE DEF c, serve
<1>12. /\ action \in Decided /\ Concludes(m, e, c, action) /\ m \in more
       /\ \A r \in more : r = m \/ (r.at = c.at /\ r.meta = NoMeta)
       /\ action = "PROMOTE" => PromotedIn(more, c.ckpt, c.score)
  <2>1. "candidate" \in Tags /\ e.iteration \in Iterations
    BY <1>3, <1>9 DEF Tags
  <2> HIDE DEF i
  <2> QED
    BY <1>8, <1>10, <2>1, DecisionConcludes
<1>13. /\ m.at = At(i, 110) /\ m.at \in Nat /\ mem.at < m.at
       /\ At(i, 70) < m.at /\ At(i, 80) < m.at
  BY <1>2, <1>9, <1>12, AtIsNat DEF Concludes, At
<1> HIDE DEF m, more, action
<1>14. tx.tag = "candidate" /\ tx.snaps = {serve, e} \cup more
  BY DEF Tx
<1> HIDE DEF tx
<1>15. \A r \in tx.snaps : r = m \/ (r.at < m.at /\ r.meta.action = "NONE")
  <2>1. NoMeta.action = "NONE"
    BY NoMetaType
  <2> QED
    BY <1>9, <1>10, <1>11, <1>12, <1>13, <1>14, <2>1
<1>16. mem.active = mem.peak
  BY <1>2 DEF Tip, Standing
<1>17. Standing(m)
  <2>1. m.state = "DIAGNOSE" => m.at <= At(m.iteration - 1, 110)
    BY <1>2, <1>9, <1>12, <1>13 DEF Concludes, At
  <2>2. m.state # "TRAIN" /\ m.state \in TerminalStates \cup {"DIAGNOSE"}
    BY <1>12 DEF Concludes, TerminalStates
  <2> QED
    BY <1>9, <1>10, <1>12, <1>16, <2>1, <2>2 DEF Concludes, Standing
<1>18. m.meta.action # "PROMOTE" => m.peak = mem.peak /\ m.score = mem.score
  BY <1>9, <1>12 DEF Concludes
<1>19. Asks(m) /\ m.meta.ckpt = i
  BY <1>9, <1>12 DEF Concludes, Asks, Decided
<1>20. \A r \in Committed : Asks(r) => r.meta.ckpt < i
  BY <1>2 DEF Tip, Fresh
<1>21. Decides(Committed \cup tx.snaps, m.meta)
  <2>1. m.meta.action = "PROMOTE" => PromotedIn(tx.snaps, m.meta.ckpt, m.meta.score)
    BY <1>9, <1>10, <1>12, <1>14 DEF Concludes, PromotedIn
  <2>2. \A r \in Committed \cup tx.snaps :
          Asks(r) /\ r.meta.ckpt = m.meta.ckpt => r.meta.action = m.meta.action
    BY <1>2, <1>15, <1>19, <1>20 DEF Asks
  <2> QED
    BY <1>3, <1>19, <2>1, <2>2 DEF Decides, PromotedIn
<1>22. Fresh(Committed \cup tx.snaps, m)
  <2>1. m.state \in {"DIAGNOSE", "TRAIN"} => m.iteration = i + 1
    BY <1>9, <1>12 DEF Concludes, TerminalStates
  <2>2. \A r \in Committed \cup tx.snaps : Asks(r) => r = m \/ r \in Committed
    BY <1>15 DEF Asks
  <2>3. \A r \in Committed : Asks(r) => r.meta.ckpt \in Iterations
    BY DEF CInv, Chain, Decides, Asks
  <2>4. \A k \in Iterations : k < i => k < i + 1
    BY <1>2, LimitsAssumption DEF Iterations
  <2> QED
    BY <1>2, <1>19, <1>20, <2>1, <2>2, <2>3, <2>4 DEF Fresh
<1>23. m \in tx.snaps /\ Follows(tx, m, m.meta)
  BY <1>12, <1>14, <1>19 DEF Follows
<1> HIDE DEF i
<1> QED
  BY <1>1, <1>2, <1>6, <1>13, <1>15, <1>17, <1>18, <1>21, <1>22, <1>23, HandOver

-----------------------------------------------------------------------------
(* The theorems.                                                           *)

\* Nothing waits for a reviewer.
LEMMA NobodyWaits ==
  ASSUME IInv, CInv, pc \in {"request", "loop"}
  PROVE  pc = "loop" /\ mem.state \notin Pending
<1>1. pc = "loop"
  BY DEF CInv, Progress
<1>2. Standing(mem)
  BY <1>1, LoopDone DEF Tip
<1> QED
  BY <1>1, <1>2 DEF Standing, TerminalStates, Pending

LEMMA NextCInv == Unreviewed /\ IInv /\ CInv /\ [Next]_vars => CInv'
<1> SUFFICES ASSUME Unreviewed, IInv, CInv, [Next]_vars PROVE CInv'
  OBVIOUS
<1>1. CASE Start
  BY <1>1, StartFreshChain, StartResumeChain DEF Start
<1>2. CASE Reconcile \/ Finish \/ WriteRecords \/ WriteMarker
  BY <1>2, ReconcileChain, FinishChain, WriteRecordsChain, WriteMarkerChain
<1>3. CASE CommitBundle \/ CasHistory \/ CasSwap \/ WriteQuarantine
  BY <1>3, CommitBundleChain, CasHistoryChain, CasSwapChain, WriteQuarantineChain
<1>4. CASE TeacherFails \/ Synthesize \/ TrainFails \/ TrainAndEvaluate
  BY <1>4, TeacherFailsChain, SynthesizeChain, TrainFailsChain, TrainAndEvaluateChain
<1>5. ~(CreateRequest \/ DataApproved \/ ModelApproved \/ Denied \/ Expired)
  BY NobodyWaits DEF CreateRequest, DataApproved, ModelApproved, Denied, Expired,
     ApprovalRefused, Reviewing, Pending
<1>6. CASE Human \/ Tick \/ UNCHANGED vars
  BY <1>6, OtherStep DEF Human, Review, Tick, vars, disk
<1>7. CASE Crash
  BY <1>7, CrashChain
<1> QED
  BY <1>1, <1>2, <1>3, <1>4, <1>5, <1>6, <1>7 DEF Next, Step

\* Without reviewers the committed snapshots stay a chain, whatever is cut off
\* and started again.
THEOREM ChainInvariance ==
  ASSUME Unreviewed
  PROVE  Spec => []CInv
<1>1. Init => CInv
  BY InitCInv
<1>2. IInv /\ CInv /\ [Next]_vars => CInv'
  BY NextCInv
<1> QED
  BY <1>1, <1>2, Invariance, PTL DEF Spec

\* Whatever commit, bundle, swap or marker a crash cut off is completed before
\* the run takes its next step, and nothing a decision asked for is missing
\* when the run reports (_reconcile_snapshot, _materialize_checkpoint).
THEOREM MaterializedBeforeGoingOn ==
  ASSUME Unreviewed
  PROVE  Spec => []RunIsMaterialized
<1>1. CInv => RunMatchesPointer
  BY DEF CInv, Progress, RunMatchesPointer, Tip, Standing, Fits
<1>2. CInv => DecisionsMaterialized
  <2> SUFFICES ASSUME CInv, pc = "done", NEW s \in Committed, s.meta.action # "NONE"
               PROVE  /\ \E b \in bundles : /\ b.ckpt = s.meta.ckpt
                                            /\ b.status = BundleStatus[s.meta.action]
                      /\ s.meta.action = "PROMOTE" => \E h \in history : h.ckpt = s.meta.ckpt
                      /\ s.meta.action \in {"REJECT", "ROLLBACK"} =>
                           \E q \in markers : q.ckpt = s.meta.ckpt
    BY DEF DecisionsMaterialized
  <2>1. Done(s.meta)
    BY DEF CInv, Progress, AllDone
  <2> QED
    BY <2>1 DEF Done, BundleOf, PointerOf, MarkerOf
<1>3. CInv => RunIsMaterialized
  BY <1>1, <1>2 DEF RunIsMaterialized
<1> QED
  BY <1>3, ChainInvariance, PTL

\* No checkpoint enters the Peak history before its promotion was committed,
\* and none that was rejected or rolled back ever does.
THEOREM JustifiedHistory ==
  ASSUME Unreviewed
  PROVE  Spec => []HistoryIsJustified
<1>1. IInv /\ CInv => HistoryIsJustified
  <2> SUFFICES ASSUME IInv, CInv, NEW h \in history
               PROVE  /\ PromotedIn(Committed, h.ckpt, h.score)
                      /\ \A q \in markers : q.ckpt # h.ckpt
    BY DEF HistoryIsJustified, PromotedIn
  <2>1. PromotedIn(Committed, h.ckpt, h.score)
    BY DEF CInv, FilesAgree
  <2>2. \A s \in Committed : Asks(s) => s.meta.ckpt \in 1..MaxIterations
    BY DEF CInv, Chain, Decides, Asks, Iterations
  <2>3. h.ckpt = Base \/ \E s \in Committed : s.meta.action = "PROMOTE" /\ s.meta.ckpt = h.ckpt
    BY DEF CInv, FilesAgree
  <2>4. ASSUME NEW q \in markers PROVE q.ckpt # h.ckpt
    <3>1. CASE q.ckpt = None
      BY <2>2, <2>3, <3>1, LimitsAssumption DEF Asks, None, Base
    <3>2. CASE q.ckpt # None
      <4>1. PICK s \in Committed : /\ s.meta.action \in {"REJECT", "ROLLBACK"}
                                   /\ s.meta.ckpt = q.ckpt
        BY <3>2 DEF CInv, FilesAgree
      <4>2. Asks(s) /\ Decides(Committed, s.meta)
        BY <4>1 DEF CInv, Chain, Asks
      <4> QED
        BY <2>2, <2>3, <4>1, <4>2, LimitsAssumption DEF Decides, Asks, Base
    <3> QED
      BY <3>1, <3>2
  <2> QED
    BY <2>1, <2>4
<1> QED
  BY <1>1, ChainInvariance, Invariance, PTL

\* latest_snapshot never picks a stage, a policy's intermediate or a quarantine
\* snapshot, nor an iteration there is none of, after any sequence of crashes.
THEOREM AlwaysResumable ==
  ASSUME Unreviewed
  PROVE  Spec => []Resumable
<1>1. IInv /\ CInv => Resumable
  BY LoopDone DEF Resumable, Tip, Standing, IInv, ProcessOK, Sound
<1> QED
  BY <1>1, ChainInvariance, Invariance, PTL

\* A run that reported its end commits nothing when it is started again, does
\* not fail, and reports the same verdict.
THEOREM VerdictSticks ==
  ASSUME Unreviewed
  PROVE  Spec => TerminalSticks
<1> DEFINE Sticks == report.state \in TerminalStates =>
                       /\ txs' = txs /\ pc' # "failed"
                       /\ Outcome(report') = Outcome(report)
<1>1. IInv /\ CInv /\ CInv' /\ [Next]_vars => [Sticks]_vars
  <2> SUFFICES ASSUME IInv, CInv, CInv', [Next]_vars, report.state \in TerminalStates
               PROVE  txs' = txs /\ pc' # "failed" /\ report' = report
    BY DEF Outcome
  <2>1. report' = report
    <3>1. CASE Finish
      <4>1. report' = mem /\ pc = "loop"
        BY <3>1 DEF Finish
      <4> QED
        BY <4>1, LoopDone, ReportIsMem DEF CInv
    <3>2. CASE ~Finish
      BY <3>2 DEF Next, Start, StartFresh, StartResume, Step, Reconcile, WriteRecords,
         WriteMarker, CommitBundle, CasHistory, CasSwap, WriteQuarantine, TeacherFails,
         Synthesize, CreateRequest, TrainFails, TrainAndEvaluate, DataApproved,
         ModelApproved, Denied, Expired, ApprovalRefused, Human, Review, Tick, Crash, vars
    <3> QED
      BY <3>1, <3>2
  <2>2. pc' # "failed"
    BY <2>1 DEF CInv, Reported
  <2>3. txs' = txs
    <3>1. ~WriteMarker
      BY DEF WriteMarker, CInv, Reported
    <3> QED
      BY <3>1 DEF Next, Start, StartFresh, StartResume, Step, Reconcile, Finish, WriteRecords,
         CommitBundle, CasHistory, CasSwap, WriteQuarantine, TeacherFails,
         Synthesize, CreateRequest, TrainFails, TrainAndEvaluate, DataApproved,
         ModelApproved, Denied, Expired, ApprovalRefused, Human, Review, Tick, Crash,
         vars, disk
  <2> QED
    BY <2>1, <2>2, <2>3
<1> QED
  BY <1>1, ChainInvariance, Invariance, PTL DEF Spec, TerminalSticks

=============================================================================
