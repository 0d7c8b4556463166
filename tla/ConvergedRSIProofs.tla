------------------------- MODULE ConvergedRSIProofs -------------------------
(***************************************************************************)
(* ConvergedRSI for every choice of the limits, the scores, the costs, the *)
(* deadline, the clock and the number of crashes: the recorded cost stays  *)
(* within the budget, the Peak pointer implements PeakRegister, and with   *)
(* review switched on nothing is trained or promoted without approval, and *)
(* each review is answered once, as decided or by giving it up.            *)
(*                                                                         *)
(* What a crash leaves behind is the content of the snapshots on disk, so  *)
(* the invariant is about snapshots, wherever one is held: every one is    *)
(* Sound and Authorized, and what is materialized comes from one.          *)
(***************************************************************************)
EXTENDS ConvergedRSIProperties, TLAPS

\* The decisions that _materialize_checkpoint gives a checkpoint bundle.
Decided == {"PROMOTE", "REJECT", "ROLLBACK", "ABORT"}

\* When the run asks for a review: the time of the pending snapshot.
AskedAt(kind, i) == At(i, IF kind = "DATASET" THEN 50 ELSE 90)

\* What may be held as a snapshot: within the budget, also with the cost a
\* pending review carries in its metadata, and of a real iteration where the
\* run goes on from it.
Sound(s) ==
  /\ s \in SnapshotType
  /\ s.state # "ABORTED" => s.cost <= TotalBudget
  /\ s.state \in Pending => s.cost + s.meta.spent <= TotalBudget
  /\ s.state \in Pending \cup {"DIAGNOSE", "TRAIN"} => s.iteration \in Iterations
  /\ s.state = "MODEL_REVIEW_PENDING" => s.meta.ckpt \in Iterations
  /\ s.state \in Pending => /\ s.at = AskedAt(KindOf(s), s.iteration)
                            /\ s.cand = None <=> KindOf(s) = "DATASET"
  /\ s.meta.action \in Decided \cup {"NONE"}
  /\ s.meta.action = "PROMOTE" => s.meta.ckpt \in 0..MaxIterations

\* A promotion to be materialized has the reviewer's approval.
AuthorizedMeta(m) ==
  CheckpointReview /\ m.action = "PROMOTE" /\ m.ckpt # Base
    => ApprovedRequest("CHECKPOINT", m.source)

\* So has a dataset admitted to training.
Authorized(s) ==
  /\ DatasetReview /\ s.state = "TRAIN" => ApprovedRequest("DATASET", s.iteration)
  /\ AuthorizedMeta(s.meta)

Keeps(t) == \A s \in t.snaps : Sound(s) /\ Authorized(s)

DecisionType == [kind : {"DATASET", "CHECKPOINT"}, iter : Nat, approved : BOOLEAN, at : Nat]

RecordsOK ==
  /\ txs \subseteq TxType /\ orphans \subseteq TxType
  /\ txs \cap orphans = {}
  /\ \A t, u \in txs \cup orphans : SameId(t, u) => t = u
  /\ \A t \in txs \cup orphans : Keeps(t)

PeakOK ==
  /\ pointer \in PointerType
  /\ pointer # NoPointer => pointer.ckpt \in 0..MaxIterations
  /\ history \subseteq PointerType

ReviewsOK == requests \subseteq RequestType /\ decisions \subseteq DecisionType

WorldOK ==
  /\ wall \in Nat
  /\ DOMAIN batch = Iterations /\ DOMAIN trial = Iterations
  /\ \A i \in Iterations : batch[i] # NoBatch => batch[i].cost \in Nat
  /\ \A i \in Iterations :
       trial[i] # NoTrial => trial[i].score \in Nat /\ trial[i].cost \in Nat
  /\ accepted \subseteq Iterations
  /\ crashes \in 0..MaxCrashes
  /\ report \in SnapshotType

Labels == Idle \cup {"commit", "marker", "bundle", "cas", "swap", "mark",
                     "reconcile", "loop", "request", "train"}

\* A transaction that is followed by a checkpoint bundle knows its decision.
AsksForDecision(tx, result, what) ==
  \/ tx.tag \in {"bootstrap", "candidate", "model-review-approved"}
  \/ tx.tag \in {"approval-denied-stop", "approval-expired-stop"} /\ result.cand # None
  => what.action \in Decided

\* What the process holds: a snapshot and a transaction like those on disk, a
\* target it may materialize, and at its pc what it is about to do.
ProcessOK ==
  /\ pc \in Labels /\ back \in {"loop", "reconcile"} /\ warm \subseteq Iterations
  /\ Sound(mem) /\ Authorized(mem)
  /\ job \in TxType /\ Keeps(job)
  /\ target \in MetaType /\ AuthorizedMeta(target)
  /\ target.action = "PROMOTE" => target.ckpt \in 0..MaxIterations
  /\ pc = "marker" => job \in orphans
  /\ pc = "train" => mem.state = "TRAIN"
  /\ pc = "request" => mem.state \in Pending
  /\ pc \in {"request", "commit", "marker"} => AsksForDecision(job, mem, target)
  /\ pc = "bundle" => target.action \in Decided
  /\ pc \in {"cas", "swap"} => target.action = "PROMOTE"
  /\ pc = "swap" => CasAllowed(TargetPointer)

\* The inductive invariant.
IInv == RecordsOK /\ PeakOK /\ ReviewsOK /\ WorldOK /\ ProcessOK /\ HumanAuthority

-----------------------------------------------------------------------------
(* The operators snapshots are made with, field by field.                  *)

LEMMA SnapshotFields ==
  ASSUME NEW s \in SnapshotType
  PROVE  /\ s.iteration \in Nat /\ s.state \in States /\ s.rank \in 0..6 /\ s.at \in Nat
         /\ s.active \in CheckpointIds /\ s.peak \in CheckpointIds /\ s.score \in Nat
         /\ s.cand \in CheckpointIds /\ s.candScore \in Nat /\ s.plateau \in Nat
         /\ s.cost \in Nat /\ s.stop \in Stops /\ s.meta \in MetaType
  BY DEF SnapshotType

LEMMA MetaFields ==
  ASSUME NEW m \in MetaType
  PROVE  /\ m.ckpt \in CheckpointIds /\ m.parent \in CheckpointIds /\ m.score \in Nat
         /\ m.spent \in Nat /\ m.source \in Nat /\ m.tag \in Tags /\ m.action \in Actions
  BY DEF MetaType

LEMMA NoMetaType ==
  /\ NoMeta \in MetaType
  /\ NoMeta.action = "NONE" /\ NoMeta.spent = 0 /\ NoMeta.ckpt = None
  BY DEF NoMeta, MetaType, CheckpointIds, None, Actions, Tags

LEMMA SnapshotOf ==
  ASSUME NEW s \in SnapshotType, NEW state \in States, NEW at \in Nat,
         NEW cand \in CheckpointIds, NEW score \in Nat, NEW m \in MetaType
  PROVE  LET e == Snapshot(s, state, at, cand, score, m)
         IN  /\ e \in SnapshotType
             /\ e.state = state /\ e.iteration = s.iteration /\ e.cost = s.cost
             /\ e.meta = m /\ e.cand = cand /\ e.candScore = score /\ e.at = at
             /\ e.active = s.active /\ e.peak = s.peak
<1> DEFINE e == [s EXCEPT !.state = state, !.rank = 0, !.at = at, !.cand = cand,
                          !.candScore = score, !.stop = "NONE", !.meta = m]
<1>1. 0 \in 0..6 /\ "NONE" \in Stops
  BY DEF Stops
<1>2. e \in SnapshotType
  BY <1>1 DEF SnapshotType
<1>3. /\ e.state = state /\ e.iteration = s.iteration /\ e.cost = s.cost
      /\ e.meta = m /\ e.cand = cand /\ e.candScore = score /\ e.at = at
      /\ e.active = s.active /\ e.peak = s.peak
  BY DEF SnapshotType
<1> QED
  BY <1>2, <1>3 DEF Snapshot

LEMMA TerminalOf ==
  ASSUME NEW s \in SnapshotType, NEW state \in States, NEW at \in Nat,
         NEW cost \in Nat, NEW stop \in Stops
  PROVE  LET e == Terminal(s, state, at, cost, stop)
         IN  /\ e \in SnapshotType
             /\ e.state = state /\ e.iteration = s.iteration /\ e.cost = cost
             /\ e.meta = s.meta /\ e.cand = s.cand
<1> DEFINE e == [s EXCEPT !.state = state, !.rank = 0, !.at = at, !.cost = cost,
                          !.stop = stop]
<1>1. e \in SnapshotType
  <2>1. 0 \in 0..6
    OBVIOUS
  <2> QED
    BY <2>1 DEF SnapshotType
<1>2. /\ e.state = state /\ e.iteration = s.iteration /\ e.cost = cost
      /\ e.meta = s.meta /\ e.cand = s.cand
  BY DEF SnapshotType
<1> QED
  BY <1>1, <1>2 DEF Terminal

LEMMA TxOf ==
  ASSUME NEW tag \in Tags, NEW i \in Nat, NEW origin \in Origins,
         NEW snaps \in SUBSET SnapshotType
  PROVE  /\ Tx(tag, i, origin, snaps) \in TxType
         /\ Tx(tag, i, origin, snaps).snaps = snaps /\ Tx(tag, i, origin, snaps).tag = tag
  BY DEF Tx, TxType

LEMMA AtIsNat ==
  ASSUME NEW i \in Nat, NEW k \in Nat
  PROVE  At(i, k) \in Nat
  BY DEF At

\* The time and the type of the empty values.
LEMMA EmptyValues ==
  /\ NoSnapshot \in SnapshotType /\ NoSnapshot.state = "NONE" /\ NoSnapshot.meta = NoMeta
  /\ NoTx \in TxType /\ NoTx.snaps = {}
  /\ NoPointer \in PointerType /\ NoPointer.ckpt = None
  BY NoMetaType DEF NoSnapshot, SnapshotType, NoTx, TxType, Origins, NoPointer, PointerType,
     CheckpointIds, None, States, Stops, Tags

\* _candidate_step.
LEMMA CandidateOf ==
  ASSUME NEW s \in SnapshotType, NEW action \in {"PROMOTE", "REJECT", "ROLLBACK", "ABORT"},
         NEW c, c.ckpt \in Nat, c.score \in Nat, c.cost \in Nat, c.at \in Nat
  PROVE  LET e == CandidateStep(s, c, action)
         IN  /\ e \in SnapshotType
             /\ e.state = TargetState[action] /\ e.iteration = s.iteration
             /\ e.cost = s.cost + c.cost /\ e.meta = NoMeta
<1> DEFINE st == TargetState[action]
           r  == PhaseRank[st]
           a  == IF action = "PROMOTE" THEN c.ckpt ELSE s.active
           p  == IF action = "PROMOTE" THEN c.ckpt ELSE s.peak
           sc == IF action = "PROMOTE" THEN c.score ELSE s.score
           pl == IF action = "PROMOTE" THEN 0
                 ELSE IF action = "ABORT" THEN s.plateau ELSE s.plateau + 1
           co == s.cost + c.cost
           sp == PrimaryStop(c, action)
           at == c.at
           ck == c.ckpt
           cs == c.score
<1>1. /\ s.active \in CheckpointIds /\ s.peak \in CheckpointIds /\ s.score \in Nat
      /\ s.plateau \in Nat /\ s.cost \in Nat
  BY SnapshotFields
<1>2. st \in {"PROMOTED", "REJECTED", "ROLLED_BACK", "ABORTED"}
  BY DEF TargetState
<1>3. st \in States /\ r \in 0..6
  BY <1>2 DEF PhaseRank, States, TerminalStates
<1>4. a \in CheckpointIds /\ p \in CheckpointIds /\ sc \in Nat /\ pl \in Nat /\ co \in Nat
  BY <1>1 DEF CheckpointIds
<1>5. sp \in Stops
  BY DEF PrimaryStop, Stops
<1>6. ck \in CheckpointIds /\ at \in Nat /\ cs \in Nat
  BY DEF CheckpointIds
<1>7. CandidateStep(s, c, action) =
        [s EXCEPT !.state = st, !.rank = r, !.at = at, !.active = a, !.peak = p,
                  !.score = sc, !.cand = ck, !.candScore = cs, !.plateau = pl,
                  !.cost = co, !.stop = sp, !.meta = NoMeta]
  BY DEF CandidateStep
<1> HIDE DEF st, r, a, p, sc, pl, co, sp, at, ck, cs
<1> DEFINE e == [s EXCEPT !.state = st, !.rank = r, !.at = at, !.active = a, !.peak = p,
                          !.score = sc, !.cand = ck, !.candScore = cs, !.plateau = pl,
                          !.cost = co, !.stop = sp, !.meta = NoMeta]
<1>8. e \in SnapshotType
  BY <1>3, <1>4, <1>5, <1>6, NoMetaType DEF SnapshotType
<1>9. e.state = st /\ e.iteration = s.iteration /\ e.cost = co /\ e.meta = NoMeta
  BY DEF SnapshotType
<1> QED
  BY <1>7, <1>8, <1>9 DEF st, co

\* _advance.
LEMMA AdvanceOf ==
  ASSUME NEW s \in SnapshotType, s.iteration \in Iterations
  PROVE  LET e == Advance(s)
         IN  /\ e \in SnapshotType
             /\ e.state \in {"STOPPED", "DIAGNOSE"}
             /\ e.iteration \in Iterations
             /\ e.cost = s.cost /\ e.meta = s.meta
<1> DEFINE halts == s.plateau >= PlateauPatience \/ s.iteration >= MaxIterations
           st == IF halts THEN "STOPPED" ELSE "DIAGNOSE"
           r  == PhaseRank[st]
           i  == IF halts THEN s.iteration ELSE s.iteration + 1
           cd == IF halts THEN s.cand ELSE None
           cs == IF halts THEN s.candScore ELSE 0
           sp == IF s.plateau >= PlateauPatience THEN "PLATEAU"
                 ELSE IF halts THEN "MAX_ITERATIONS" ELSE "NONE"
<1>1. s.cand \in CheckpointIds /\ s.candScore \in Nat
  BY SnapshotFields
<1>2. i \in Iterations
  BY LimitsAssumption DEF Iterations
<1> HIDE DEF halts
<1>3. i \in Nat /\ cs \in Nat /\ sp \in Stops /\ st \in States
  BY <1>1, <1>2, LimitsAssumption DEF Iterations, Stops, States, TerminalStates
<1>4. r \in 0..6
  BY DEF PhaseRank
<1>5. cd \in CheckpointIds
  BY <1>1 DEF CheckpointIds
<1>6. Advance(s) = [s EXCEPT !.state = st, !.rank = r, !.iteration = i, !.cand = cd,
                             !.candScore = cs, !.stop = sp]
  BY DEF Advance, halts
<1> HIDE DEF st, r, i, cd, cs, sp
<1> DEFINE e == [s EXCEPT !.state = st, !.rank = r, !.iteration = i, !.cand = cd,
                          !.candScore = cs, !.stop = sp]
<1>7. e \in SnapshotType
  BY <1>3, <1>4, <1>5 DEF SnapshotType
<1>8. e.state = st /\ e.iteration = i /\ e.cost = s.cost /\ e.meta = s.meta
  BY DEF SnapshotType
<1> QED
  BY <1>2, <1>3, <1>6, <1>7, <1>8 DEF st

\* EvaluateSnapshot: the snapshot of an evaluated candidate.
Evaluates(e, s, ckpt, score, spent, at) ==
  /\ e \in SnapshotType
  /\ e.state = "EVALUATE" /\ e.iteration = s.iteration /\ e.cost = s.cost
  /\ e.cand = ckpt /\ e.candScore = score /\ e.at = at
  /\ e.meta.action = "NONE" /\ e.meta.ckpt = ckpt /\ e.meta.spent = spent
  /\ e.meta.source = s.iteration

LEMMA EvaluateOf ==
  ASSUME NEW s \in SnapshotType, NEW ckpt \in Iterations, NEW score \in Nat,
         NEW spent \in Nat, NEW at \in Nat, NEW e,
         e = EvaluateSnapshot(s, ckpt, score, spent, at)
  PROVE  Evaluates(e, s, ckpt, score, spent, at)
<1> DEFINE w == [NoMeta EXCEPT !.ckpt = ckpt, !.parent = s.active, !.score = score,
                               !.spent = spent, !.source = s.iteration]
<1>1. ckpt \in CheckpointIds /\ s.active \in CheckpointIds /\ s.iteration \in Nat
  BY SnapshotFields, LimitsAssumption DEF Iterations, CheckpointIds
<1>2. w \in MetaType
  BY <1>1, NoMetaType DEF MetaType
<1>3. /\ w.action = "NONE" /\ w.ckpt = ckpt /\ w.spent = spent /\ w.source = s.iteration
  BY NoMetaType DEF MetaType
<1>4. "EVALUATE" \in States
  BY DEF States
<1> HIDE DEF w
<1>5. EvaluateSnapshot(s, ckpt, score, spent, at) = Snapshot(s, "EVALUATE", at, ckpt, score, w)
  BY DEF EvaluateSnapshot, w
<1> DEFINE x == Snapshot(s, "EVALUATE", at, ckpt, score, w)
<1>6. /\ x \in SnapshotType
      /\ x.state = "EVALUATE" /\ x.iteration = s.iteration /\ x.cost = s.cost
      /\ x.meta = w /\ x.cand = ckpt /\ x.candScore = score /\ x.at = at
  <2>1. ckpt \in CheckpointIds
    BY <1>1
  <2> HIDE DEF x
  <2> QED
    BY <1>2, <1>4, <2>1, SnapshotOf DEF x
<1> HIDE DEF x
<1> QED
  BY <1>3, <1>5, <1>6 DEF x, Evaluates

\* A snapshot the run does not go on from by itself.
LEMMA RestingOK ==
  ASSUME NEW s \in SnapshotType, s.state \notin Pending \cup {"DIAGNOSE", "TRAIN"},
         s.state # "ABORTED" => s.cost <= TotalBudget,
         s.meta.action \in Decided \cup {"NONE"}, AuthorizedMeta(s.meta),
         s.meta.action = "PROMOTE" => s.meta.ckpt \in 0..MaxIterations
  PROVE  Sound(s) /\ Authorized(s)
  BY DEF Sound, Authorized, Pending

\* What Materialized changes, field by field.
LEMMA MaterializedOf ==
  ASSUME NEW s \in SnapshotType, NEW e \in SnapshotType, NEW tag \in Tags,
         NEW action \in Decided
  PROVE  LET m == Materialized(s, e, tag, action)
         IN  /\ m \in SnapshotType
             /\ m.state = s.state /\ m.iteration = s.iteration /\ m.cost = s.cost
             /\ m.meta.action = action /\ m.meta.ckpt = e.meta.ckpt
             /\ m.meta.source = e.meta.source
<1> DEFINE w  == [e.meta EXCEPT !.tag = tag, !.action = action]
           at == At(e.iteration, 110)
           m  == [s EXCEPT !.rank = 0, !.at = at, !.meta = w]
<1>1. e.meta \in MetaType /\ at \in Nat /\ action \in Actions
  BY SnapshotFields, AtIsNat DEF Decided, Actions
<1>2. w \in MetaType
  BY <1>1 DEF MetaType
<1>3. w.action = action /\ w.ckpt = e.meta.ckpt /\ w.source = e.meta.source
  BY <1>1 DEF MetaType
<1>4. Materialized(s, e, tag, action) = m
  BY DEF Materialized
<1> HIDE DEF w, at
<1>5. m \in SnapshotType
  <2>1. 0 \in 0..6
    OBVIOUS
  <2> QED
    BY <1>1, <1>2, <2>1 DEF SnapshotType
<1>6. m.state = s.state /\ m.iteration = s.iteration /\ m.cost = s.cost /\ m.meta = w
  BY DEF SnapshotType
<1> QED
  BY <1>3, <1>4, <1>5, <1>6

\* _commit_policy_step: what a decision about an evaluated candidate commits.
\* The policy's own check of the total budget keeps every snapshot but an
\* ABORTED one within it.
LEMMA DecisionOK ==
  ASSUME NEW e \in SnapshotType, NEW c, NEW action, NEW tag \in Tags,
         e.iteration \in Iterations, e.cost <= TotalBudget,
         e.meta.ckpt \in Iterations,
         c.ckpt \in Nat, c.score \in Nat, c.cost \in Nat, c.at \in Nat,
         action = PrimaryAction(e, c),
         CheckpointReview /\ action = "PROMOTE" => ApprovedRequest("CHECKPOINT", e.meta.source)
  PROVE  LET step == Evaluate(e, c)
             m    == Materialized(FinalSnapshot(step), e, tag, action)
         IN  /\ action \in Decided
             /\ \A s \in PolicySnapshots(step, m) :
                  Sound(s) /\ Authorized(s) /\ s.state \notin Pending
             /\ Sound(m) /\ Authorized(m) /\ m.state \notin Pending
             /\ m.meta.action = action
<1> DEFINE p == CandidateStep(e, c, action)
           a == Advance(p)
           f == IF action \in {"PROMOTE", "REJECT"} THEN a ELSE p
           m == Materialized(f, e, tag, action)
<1>1. action \in {"PROMOTE", "REJECT", "ROLLBACK", "ABORT"}
  BY DEF PrimaryAction
<1>2. /\ p \in SnapshotType
      /\ p.state = TargetState[action] /\ p.iteration = e.iteration
      /\ p.cost = e.cost + c.cost /\ p.meta = NoMeta
  BY ONLY <1>1, CandidateOf, e \in SnapshotType, c.ckpt \in Nat, c.score \in Nat,
          c.cost \in Nat, c.at \in Nat, Zenon
<1>3. /\ a \in SnapshotType /\ a.state \in {"STOPPED", "DIAGNOSE"}
      /\ a.iteration \in Iterations /\ a.cost = p.cost /\ a.meta = NoMeta
  BY <1>2, AdvanceOf
<1>4. e.cost \in Nat /\ e.meta \in MetaType
  BY SnapshotFields
<1>5. action # "ABORT" => e.cost + c.cost <= TotalBudget
  BY DEF PrimaryAction, WithinTotal
<1>6. /\ p.state \in {"PROMOTED", "REJECTED", "ROLLED_BACK", "ABORTED"}
      /\ p.state = "ABORTED" <=> action = "ABORT"
  BY <1>1, <1>2 DEF TargetState
<1>7. action \in Decided
  BY <1>1 DEF Decided
<1> HIDE DEF p, a
<1>8. Sound(p) /\ Authorized(p)
  BY <1>2, <1>5, <1>6, NoMetaType, RestingOK DEF AuthorizedMeta, Pending
<1>9. action # "ABORT" => Sound(a) /\ Authorized(a)
  BY <1>2, <1>3, <1>5, NoMetaType DEF Sound, Authorized, AuthorizedMeta, Pending
<1>10. f \in SnapshotType
  BY <1>2, <1>3
<1>11. /\ m \in SnapshotType
       /\ m.state = f.state /\ m.iteration = f.iteration /\ m.cost = f.cost
       /\ m.meta.action = action /\ m.meta.ckpt = e.meta.ckpt /\ m.meta.source = e.meta.source
  BY <1>7, <1>10, MaterializedOf
<1>12. /\ f.state \notin Pending \cup {"TRAIN"}
       /\ f.state = "DIAGNOSE" => f.iteration \in Iterations
       /\ f.state # "ABORTED" => f.cost <= TotalBudget
  BY <1>2, <1>3, <1>5, <1>6 DEF Pending
<1> HIDE DEF f, m
<1>13. m.meta.ckpt \in 0..MaxIterations
  BY <1>11, LimitsAssumption DEF Iterations
<1>14. AuthorizedMeta(m.meta)
  BY <1>11 DEF AuthorizedMeta
<1>15. Sound(m) /\ Authorized(m)
  BY <1>7, <1>11, <1>12, <1>13, <1>14 DEF Sound, Authorized, Pending
<1>16. CASE action \in {"PROMOTE", "REJECT"}
  <2>1. Evaluate(e, c) = <<p, a>>
    BY <1>16 DEF Evaluate, p, a
  <2>2. Materialized(FinalSnapshot(<<p, a>>), e, tag, action) = m
    BY <1>16 DEF FinalSnapshot, m, f
  <2>3. \A s \in PolicySnapshots(<<p, a>>, m) : s \in {p, a, m}
    BY DEF PolicySnapshots
  <2> QED
    BY <1>3, <1>6, <1>7, <1>8, <1>9, <1>11, <1>12, <1>15, <1>16, <2>1, <2>2, <2>3 DEF Pending
<1>17. CASE action \notin {"PROMOTE", "REJECT"}
  <2>1. Evaluate(e, c) = <<p>>
    BY <1>17 DEF Evaluate, p
  <2>2. Materialized(FinalSnapshot(<<p>>), e, tag, action) = m
    BY <1>17 DEF FinalSnapshot, m, f
  <2>3. \A s \in PolicySnapshots(<<p>>, m) : s \in {p, m}
    BY DEF PolicySnapshots
  <2> QED
    BY <1>6, <1>7, <1>8, <1>11, <1>12, <1>15, <2>1, <2>2, <2>3 DEF Pending
<1> QED
  BY <1>16, <1>17

-----------------------------------------------------------------------------
(* What a step leaves alone, and the three ways the process moves.         *)

\* Approvals are never taken back, so what is authorized stays so.
LEMMA AuthorityGrows ==
  ASSUME decisions \subseteq decisions'
  PROVE  /\ \A m : AuthorizedMeta(m) => (\A k : k = m => AuthorizedMeta(k)')
         /\ \A s : Authorized(s) => (\A k : k = s => Authorized(k)')
         /\ \A t : Keeps(t) => (\A k : k = t => Keeps(k)')
  BY DEF AuthorizedMeta, Authorized, Keeps, ApprovedRequest

\* A step that writes no transaction and gains decisions at most.
LEMMA RecordsFrame ==
  ASSUME RecordsOK, decisions \subseteq decisions', txs' = txs, orphans' = orphans
  PROVE  RecordsOK'
  BY AuthorityGrows DEF RecordsOK

LEMMA HumanFrame ==
  ASSUME HumanAuthority, decisions \subseteq decisions', trial' = trial, history' = history
  PROVE  HumanAuthority'
  BY DEF HumanAuthority, ApprovedRequest

LEMMA PeakFrame ==
  ASSUME PeakOK, pointer' = pointer, history' = history
  PROVE  PeakOK'
  BY DEF PeakOK

LEMMA ReviewsFrame ==
  ASSUME ReviewsOK, requests' = requests, decisions' = decisions
  PROVE  ReviewsOK'
  BY DEF ReviewsOK

LEMMA WorldFrame ==
  ASSUME WorldOK, UNCHANGED <<wall, batch, trial, accepted, crashes, report>>
  PROVE  WorldOK'
  BY DEF WorldOK

\* The empty values are well formed and authorized.
LEMMA EmptyOK ==
  /\ Sound(NoSnapshot) /\ Authorized(NoSnapshot) /\ Keeps(NoTx) /\ AuthorizedMeta(NoMeta)
  /\ (Authorized(NoSnapshot) /\ Keeps(NoTx) /\ AuthorizedMeta(NoMeta))'
<1>1. NoSnapshot.cost = 0 /\ NoSnapshot.state = "NONE" /\ NoSnapshot.meta = NoMeta
  BY DEF NoSnapshot
<1>2. NoSnapshot \in SnapshotType /\ NoTx.snaps = {} /\ NoMeta.action = "NONE"
  BY EmptyValues, NoMetaType
<1> QED
  BY <1>1, <1>2, LimitsAssumption DEF Sound, Authorized, AuthorizedMeta, Keeps, Pending

\* The process ends and forgets what it held.
LEMMA EndsProcess ==
  ASSUME ProcessOK, NEW how \in Idle, NEW why, Ends(how, why)
  PROVE  ProcessOK'
<1>1. /\ how \in Labels
      /\ how \notin {"marker", "train", "request", "commit", "bundle", "cas", "swap"}
  BY DEF Labels, Idle
<1>2. /\ NoTx \in TxType /\ NoMeta \in MetaType /\ NoMeta.action = "NONE"
  BY EmptyValues, NoMetaType
<1> QED
  BY <1>1, <1>2, EmptyOK DEF Ends, ProcessOK

\* The process goes on with what it holds.
LEMMA GotoProcess ==
  ASSUME ProcessOK, NEW label \in Labels, Goto(label), decisions \subseteq decisions',
         label = "marker" => job \in orphans',
         label = "train" => mem.state = "TRAIN",
         label = "request" => mem.state \in Pending,
         label \in {"request", "commit", "marker"} => AsksForDecision(job, mem, target),
         label = "bundle" => target.action \in Decided,
         label \in {"cas", "swap"} => target.action = "PROMOTE",
         label = "swap" => pointer' = pointer /\ CasAllowed(TargetPointer)
  PROVE  ProcessOK'
<1>1. /\ pc' = label /\ mem' = mem /\ job' = job /\ target' = target
      /\ back' = back /\ warm' = warm
  BY DEF Goto
<1>2. Authorized(mem)' /\ Keeps(job)' /\ AuthorizedMeta(target)'
  BY <1>1, AuthorityGrows DEF ProcessOK
<1>3. Sound(mem)'
  BY <1>1 DEF ProcessOK
<1>4. AsksForDecision(job, mem, target)' <=> AsksForDecision(job, mem, target)
  BY <1>1 DEF AsksForDecision
<1>5. label = "swap" => CasAllowed(TargetPointer)'
  BY <1>1 DEF CasAllowed, TargetPointer
<1> QED
  BY <1>1, <1>2, <1>3, <1>4, <1>5 DEF ProcessOK

\* The process hands over a transaction.
LEMMA SubmitProcess ==
  ASSUME ProcessOK, NEW label \in {"request", "commit"}, NEW tx \in TxType, NEW result,
         NEW what \in MetaType, Submit(label, tx, result, what), decisions' = decisions,
         Keeps(tx), Sound(result), Authorized(result), AuthorizedMeta(what),
         label = "request" => result.state \in Pending,
         what.action = "PROMOTE" => what.ckpt \in 0..MaxIterations,
         AsksForDecision(tx, result, what)
  PROVE  ProcessOK'
<1>1. /\ pc' = label /\ mem' = result /\ job' = tx /\ target' = what
      /\ back' = "reconcile" /\ warm' = warm
  BY DEF Submit
<1>2. Authorized(mem)' /\ Keeps(job)' /\ AuthorizedMeta(target)'
  BY <1>1, AuthorityGrows
<1>3. label \in Labels
  BY DEF Labels
<1> QED
  BY <1>1, <1>2, <1>3 DEF ProcessOK

-----------------------------------------------------------------------------
(* The invariant is inductive: one lemma per action.                       *)

\* _bootstrap commits the configured base model, at no cost.
LEMMA BootOK ==
  /\ Tx("bootstrap", 0, "controller", {BootPromoted, BootDiagnose}) \in TxType
  /\ Keeps(Tx("bootstrap", 0, "controller", {BootPromoted, BootDiagnose}))
  /\ Sound(BootDiagnose) /\ Authorized(BootDiagnose)
  /\ BaseMeta \in MetaType /\ AuthorizedMeta(BaseMeta)
  /\ BaseMeta.action = "PROMOTE" /\ BaseMeta.ckpt \in 0..MaxIterations
<1>1. /\ At(0, 1) \in Nat /\ At(0, 2) \in Nat /\ Base \in CheckpointIds /\ InitialScore \in Nat
      /\ "PROMOTED" \in States /\ "DIAGNOSE" \in States
  BY AtIsNat, ControllerAssumption DEF Base, CheckpointIds, States
<1>2. /\ BootPromoted \in SnapshotType /\ BootPromoted.state = "PROMOTED"
      /\ BootPromoted.cost = 0 /\ BootPromoted.meta = NoMeta
  BY ONLY <1>1, EmptyValues, ZenonT(30) DEF BootPromoted, NoSnapshot, SnapshotType
<1>3. /\ BootDiagnose \in SnapshotType /\ BootDiagnose.state = "DIAGNOSE"
      /\ BootDiagnose.cost = 0 /\ BootDiagnose.meta = NoMeta /\ BootDiagnose.iteration = 1
  BY <1>1, <1>2 DEF BootDiagnose, SnapshotType
<1>4. 1 \in Iterations /\ 0 <= TotalBudget /\ NoMeta.action = "NONE"
  BY LimitsAssumption, NoMetaType DEF Iterations
<1>5. /\ Sound(BootPromoted) /\ Authorized(BootPromoted)
      /\ Sound(BootDiagnose) /\ Authorized(BootDiagnose)
  BY <1>2, <1>3, <1>4 DEF Sound, Authorized, AuthorizedMeta, Pending
<1>6. /\ Tx("bootstrap", 0, "controller", {BootPromoted, BootDiagnose}) \in TxType
      /\ Tx("bootstrap", 0, "controller", {BootPromoted, BootDiagnose}).snaps = {BootPromoted, BootDiagnose}
  BY <1>2, <1>3, TxOf DEF Tags, Origins
<1>7. "PROMOTE" \in Actions /\ "bootstrap" \in Tags
  BY DEF Actions, Tags
<1>8. BaseMeta \in MetaType /\ BaseMeta.action = "PROMOTE" /\ BaseMeta.ckpt = Base
  BY <1>1, <1>7, NoMetaType DEF BaseMeta, MetaType
<1> QED
  BY <1>5, <1>6, <1>8, LimitsAssumption DEF Keeps, AuthorizedMeta, Base

LEMMA InitIInv == Init => IInv
<1> SUFFICES ASSUME Init PROVE IInv
  OBVIOUS
<1>1. RecordsOK
  BY DEF Init, RecordsOK
<1>2. PeakOK /\ ReviewsOK
  BY EmptyValues DEF Init, PeakOK, ReviewsOK
<1>3. WorldOK
  BY EmptyValues, ControllerAssumption DEF Init, WorldOK
<1>4. ProcessOK
  BY EmptyValues, EmptyOK, NoMetaType DEF Init, ProcessOK, Labels, Idle
<1>5. HumanAuthority
  BY DEF Init, HumanAuthority
<1> QED
  BY <1>1, <1>2, <1>3, <1>4, <1>5 DEF IInv

LEMMA StartFreshKeeps == ASSUME IInv, StartFresh PROVE IInv'
<1>2. RecordsOK' /\ PeakOK' /\ ReviewsOK' /\ HumanAuthority'
  BY RecordsFrame, PeakFrame, ReviewsFrame, HumanFrame DEF IInv, StartFresh, disk, world
<1>3. WorldOK'
  BY DEF IInv, WorldOK, StartFresh, disk, world
<1>4. /\ pc' = "commit" /\ job' = Tx("bootstrap", 0, "controller", {BootPromoted, BootDiagnose})
      /\ mem' = BootDiagnose /\ target' = BaseMeta /\ back' = "reconcile" /\ warm' = accepted
      /\ decisions' = decisions
  BY DEF StartFresh, disk
<1>5. Authorized(mem)' /\ Keeps(job)' /\ AuthorizedMeta(target)'
  BY <1>4, BootOK, AuthorityGrows
<1>6. AsksForDecision(job, mem, target)'
  BY <1>4, BootOK DEF AsksForDecision, Decided
<1>7. warm' \subseteq Iterations
  BY <1>4 DEF IInv, WorldOK
<1>8. ProcessOK'
  BY <1>4, <1>5, <1>6, <1>7, BootOK DEF ProcessOK, Labels
<1> QED
  BY <1>2, <1>3, <1>8 DEF IInv

LEMMA StartResumeKeeps == ASSUME IInv, StartResume PROVE IInv'
<1>2. RecordsOK' /\ PeakOK' /\ ReviewsOK' /\ HumanAuthority'
  BY RecordsFrame, PeakFrame, ReviewsFrame, HumanFrame DEF IInv, StartResume, disk, world
<1>3. WorldOK'
  BY DEF IInv, WorldOK, StartResume, disk, world
<1>4. /\ pc' = "reconcile" /\ job' = job /\ target' = target /\ back' = back
      /\ warm' = accepted /\ decisions' = decisions
  BY DEF StartResume, disk
<1>5. PICK s \in LatestSnapshots : mem' = s
  BY DEF StartResume
<1>6. Sound(s) /\ Authorized(s)
  BY <1>5 DEF LatestSnapshots, Committed, IInv, RecordsOK, Keeps
<1>7. Authorized(mem)' /\ Keeps(job)' /\ AuthorizedMeta(target)'
  BY <1>4, <1>5, <1>6, AuthorityGrows DEF IInv, ProcessOK
<1>8. warm' \subseteq Iterations
  BY <1>4 DEF IInv, WorldOK
<1>9. ProcessOK'
  BY <1>4, <1>5, <1>6, <1>7, <1>8 DEF IInv, ProcessOK, Labels
<1> QED
  BY <1>2, <1>3, <1>9 DEF IInv

LEMMA ReconcileKeeps == ASSUME IInv, Reconcile PROVE IInv'
<1>1. RecordsOK' /\ PeakOK' /\ ReviewsOK' /\ WorldOK' /\ HumanAuthority'
  BY RecordsFrame, PeakFrame, ReviewsFrame, WorldFrame, HumanFrame DEF IInv, Reconcile, disk, world
<1>2. CASE mem.meta.action = "NONE"
  <2>1. Goto("loop") /\ decisions' = decisions
    BY <1>2 DEF Reconcile, disk
  <2>2. ProcessOK'
    BY <2>1, GotoProcess DEF IInv, Labels
  <2> QED
    BY <1>1, <2>2 DEF IInv
<1>3. CASE mem.meta.action # "NONE"
  <2>1. /\ pc' = "bundle" /\ target' = mem.meta /\ back' = "loop" /\ mem' = mem
        /\ job' = job /\ warm' = warm /\ decisions' = decisions
    BY <1>3 DEF Reconcile, disk
  <2>2. /\ mem.meta \in MetaType /\ AuthorizedMeta(mem.meta) /\ mem.meta.action \in Decided
        /\ mem.meta.action = "PROMOTE" => mem.meta.ckpt \in 0..MaxIterations
    BY <1>3, SnapshotFields DEF IInv, ProcessOK, Sound, Authorized
  <2>3. Authorized(mem)' /\ Keeps(job)' /\ AuthorizedMeta(target)'
    BY <2>1, <2>2, AuthorityGrows DEF IInv, ProcessOK
  <2>4. ProcessOK'
    BY <2>1, <2>2, <2>3 DEF IInv, ProcessOK, Labels
  <2> QED
    BY <1>1, <2>4 DEF IInv
<1> QED
  BY <1>2, <1>3

LEMMA FinishKeeps == ASSUME IInv, Finish PROVE IInv'
<1>1. RecordsOK' /\ PeakOK' /\ ReviewsOK' /\ HumanAuthority'
  BY RecordsFrame, PeakFrame, ReviewsFrame, HumanFrame DEF IInv, Finish, disk, world
<1>2. WorldOK'
  BY DEF IInv, WorldOK, Finish, disk, world, ProcessOK, Sound
<1>3. ProcessOK'
  BY EndsProcess DEF IInv, Finish, Idle
<1> QED
  BY <1>1, <1>2, <1>3 DEF IInv

\* Where a commit goes on: to a bundle only with a decision, to training only
\* with a dataset admitted to it.
LEMMA AfterCommitOK ==
  ASSUME ProcessOK, pc \in {"commit", "marker"}
  PROVE  /\ AfterCommit \in {"bundle", "train", "mark", "reconcile"}
         /\ AfterCommit = "train" => mem.state = "TRAIN"
         /\ AfterCommit = "bundle" => target.action \in Decided
  BY DEF AfterCommit, ProcessOK, AsksForDecision

LEMMA WriteRecordsKeeps == ASSUME IInv, WriteRecords PROVE IInv'
<1>1. PeakOK' /\ ReviewsOK' /\ WorldOK' /\ HumanAuthority'
  BY PeakFrame, ReviewsFrame, WorldFrame, HumanFrame DEF IInv, WriteRecords, world
<1>2. decisions' = decisions /\ txs' = txs /\ pointer' = pointer /\ pc = "commit"
  BY DEF WriteRecords
<1>3. CASE job \in txs /\ ~Conflicts(job)
  <2>1. Goto(AfterCommit) /\ orphans' = orphans
    BY <1>3 DEF WriteRecords
  <2>2. ProcessOK'
    BY <1>2, <2>1, AfterCommitOK, GotoProcess DEF IInv, Labels
  <2> QED
    BY <1>1, <1>2, <2>1, <2>2, RecordsFrame DEF IInv
<1>4. CASE Conflicts(job)
  <2>1. Ends("failed", "record-conflict") /\ orphans' = orphans
    BY <1>4 DEF WriteRecords
  <2>2. ProcessOK'
    BY <2>1, EndsProcess DEF IInv, Idle
  <2> QED
    BY <1>1, <1>2, <2>1, <2>2, RecordsFrame DEF IInv
<1>5. CASE job \notin txs /\ ~Conflicts(job)
  <2>1. Goto("marker") /\ orphans' = orphans \cup {job}
    BY <1>5 DEF WriteRecords
  <2>2. ProcessOK'
    BY <1>2, <2>1, GotoProcess DEF IInv, Labels, ProcessOK
  <2>3. \A t, u \in txs \cup orphans' : SameId(t, u) => t = u
    BY <1>5, <2>1 DEF IInv, RecordsOK, Conflicts, SameId
  <2>4. \A t \in txs' \cup orphans' : Keeps(t)'
    BY <1>2, <2>1, AuthorityGrows DEF IInv, RecordsOK, ProcessOK
  <2>5. RecordsOK'
    BY <1>2, <1>5, <2>1, <2>3, <2>4 DEF IInv, RecordsOK, ProcessOK
  <2> QED
    BY <1>1, <2>2, <2>5 DEF IInv
<1> QED
  BY <1>3, <1>4, <1>5

LEMMA WriteMarkerKeeps == ASSUME IInv, WriteMarker PROVE IInv'
<1>1. PeakOK' /\ ReviewsOK' /\ WorldOK' /\ HumanAuthority'
  BY PeakFrame, ReviewsFrame, WorldFrame, HumanFrame DEF IInv, WriteMarker, world
<1>2. /\ decisions' = decisions /\ txs' = txs \cup {job} /\ orphans' = orphans \ {job}
      /\ pc = "marker" /\ Goto(AfterCommit)
  BY DEF WriteMarker
<1>3. txs' \cup orphans' = txs \cup orphans
  BY <1>2 DEF IInv, ProcessOK
<1>4. \A t \in txs' \cup orphans' : Keeps(t)'
  BY <1>2, <1>3, AuthorityGrows DEF IInv, RecordsOK
<1>5. RecordsOK'
  BY <1>2, <1>3, <1>4 DEF IInv, RecordsOK, ProcessOK
<1>6. ProcessOK'
  BY <1>2, AfterCommitOK, GotoProcess DEF IInv, Labels
<1> QED
  BY <1>1, <1>5, <1>6 DEF IInv

LEMMA CommitBundleKeeps == ASSUME IInv, CommitBundle PROVE IInv'
<1>1. RecordsOK' /\ PeakOK' /\ ReviewsOK' /\ WorldOK' /\ HumanAuthority'
  BY RecordsFrame, PeakFrame, ReviewsFrame, WorldFrame, HumanFrame DEF IInv, CommitBundle, world
<1>2. decisions' = decisions /\ target.action \in Decided /\ back \in {"loop", "reconcile"}
  BY DEF CommitBundle, IInv, ProcessOK
<1>3. CASE \E b \in bundles : b.ckpt = target.ckpt /\ b # TargetBundle
  <2>1. Ends("failed", "bundle-conflict")
    BY <1>3 DEF CommitBundle
  <2> QED
    BY <1>1, <2>1, EndsProcess DEF IInv, Idle
<1>4. CASE ~(\E b \in bundles : b.ckpt = target.ckpt /\ b # TargetBundle)
  <2>1. \/ Goto("cas") /\ target.action = "PROMOTE"
        \/ Goto("mark")
        \/ Goto(back)
    BY <1>2, <1>4 DEF CommitBundle, Decided
  <2>2. ProcessOK'
    BY <1>2, <2>1, GotoProcess DEF IInv, Labels
  <2> QED
    BY <1>1, <2>2 DEF IInv
<1> QED
  BY <1>3, <1>4

LEMMA TargetPointerType == ASSUME ProcessOK PROVE TargetPointer \in PointerType
  BY MetaFields DEF ProcessOK, TargetPointer, PointerType

LEMMA CasHistoryKeeps == ASSUME IInv, CasHistory PROVE IInv'
<1>1. RecordsOK' /\ ReviewsOK' /\ WorldOK'
  BY RecordsFrame, ReviewsFrame, WorldFrame DEF IInv, CasHistory, world
<1>2. /\ decisions' = decisions /\ pointer' = pointer /\ trial' = trial
      /\ target.action = "PROMOTE" /\ back \in {"loop", "reconcile"}
  BY DEF CasHistory, IInv, ProcessOK, world
<1>3. CASE pointer = TargetPointer
  <2>1. Goto(back) /\ history' = history
    BY <1>3 DEF CasHistory
  <2> QED
    BY <1>1, <1>2, <2>1, GotoProcess, PeakFrame, HumanFrame DEF IInv, Labels
<1>4. CASE pointer # TargetPointer /\ CasAllowed(TargetPointer)
  <2>1. Goto("swap") /\ history' = history \cup {TargetPointer}
    BY <1>4 DEF CasHistory
  <2>2. ProcessOK'
    BY <1>2, <1>4, <2>1, GotoProcess DEF IInv, Labels
  <2>3. PeakOK'
    BY <1>2, <2>1, TargetPointerType DEF IInv, PeakOK
  <2>4. CheckpointReview /\ TargetPointer.ckpt # Base
          => ApprovedRequest("CHECKPOINT", TargetPointer.iter)
    BY <1>2 DEF TargetPointer, IInv, ProcessOK, AuthorizedMeta
  <2>5. HumanAuthority'
    BY <1>2, <2>1, <2>4 DEF IInv, HumanAuthority, ApprovedRequest
  <2> QED
    BY <1>1, <2>2, <2>3, <2>5 DEF IInv
<1>5. CASE pointer # TargetPointer /\ ~CasAllowed(TargetPointer)
  <2>1. Ends("failed", "peak-cas") /\ history' = history
    BY <1>5 DEF CasHistory
  <2> QED
    BY <1>1, <1>2, <2>1, EndsProcess, PeakFrame, HumanFrame DEF IInv, Idle
<1> QED
  BY <1>3, <1>4, <1>5

LEMMA CasSwapKeeps == ASSUME IInv, CasSwap PROVE IInv'
<1>1. RecordsOK' /\ ReviewsOK' /\ WorldOK' /\ HumanAuthority'
  BY RecordsFrame, ReviewsFrame, WorldFrame, HumanFrame DEF IInv, CasSwap, world
<1>2. /\ decisions' = decisions /\ pointer' = TargetPointer /\ history' = history
      /\ Goto(back) /\ back \in {"loop", "reconcile"}
      /\ target.ckpt \in 0..MaxIterations
  BY DEF CasSwap, IInv, ProcessOK
<1>3. PeakOK'
  BY <1>2, TargetPointerType DEF IInv, PeakOK, TargetPointer
<1>4. ProcessOK'
  BY <1>2, GotoProcess DEF IInv, Labels
<1> QED
  BY <1>1, <1>3, <1>4 DEF IInv

LEMMA WriteQuarantineKeeps == ASSUME IInv, WriteQuarantine PROVE IInv'
<1>1. RecordsOK' /\ PeakOK' /\ ReviewsOK' /\ WorldOK' /\ HumanAuthority'
  BY RecordsFrame, PeakFrame, ReviewsFrame, WorldFrame, HumanFrame
  DEF IInv, WriteQuarantine, world
<1>2. Goto(back) /\ back \in {"loop", "reconcile"} /\ decisions' = decisions
  BY DEF WriteQuarantine, IInv, ProcessOK
<1> QED
  BY <1>1, <1>2, GotoProcess DEF IInv, Labels

LEMMA CreateRequestKeeps == ASSUME IInv, CreateRequest PROVE IInv'
<1>1. RecordsOK' /\ PeakOK' /\ WorldOK' /\ HumanAuthority'
  BY RecordsFrame, PeakFrame, WorldFrame, HumanFrame DEF IInv, CreateRequest, world
<1>2. /\ Goto("commit") /\ decisions' = decisions
      /\ requests' = requests \cup {RequestOf(mem)} /\ pc = "request"
  BY DEF CreateRequest
<1>3. RequestOf(mem) \in RequestType
  BY ControllerAssumption, SnapshotFields
  DEF IInv, ProcessOK, Sound, RequestOf, Request, KindOf, RequestType
<1>4. ReviewsOK'
  BY <1>2, <1>3 DEF IInv, ReviewsOK
<1>5. ProcessOK'
  BY <1>2, GotoProcess DEF IInv, Labels, ProcessOK
<1> QED
  BY <1>1, <1>4, <1>5 DEF IInv

\* A reviewer's decision: it adds authority and takes none away.
LEMMA ReviewKeeps ==
  ASSUME IInv, NEW r \in requests, NEW approved \in BOOLEAN, Review(r, approved)
  PROVE  IInv'
<1> DEFINE Decision(at) == [kind |-> r.kind, iter |-> r.iter, approved |-> approved, at |-> at]
<1>1. PICK at \in DecisionTimes(r) : decisions' = decisions \cup {Decision(at)}
  BY DEF Review
<1> DEFINE d == Decision(at)
<1>2. UNCHANGED <<txs, orphans, pointer, history, requests, accepted, world, process,
                  crashes, report>>
  BY DEF Review
<1>3. d \in DecisionType
  <2>1. at \in Nat
    BY <1>1, ControllerAssumption
    DEF DecisionTimes, IInv, ReviewsOK, RequestType, Later
  <2> QED
    BY <2>1 DEF IInv, ReviewsOK, RequestType, DecisionType
<1> HIDE DEF d
<1>4. decisions' = decisions \cup {d}
  BY <1>1 DEF d
<1>5. RecordsOK' /\ PeakOK' /\ WorldOK' /\ HumanAuthority'
  BY <1>2, <1>4, RecordsFrame, PeakFrame, WorldFrame, HumanFrame DEF IInv, world
<1>6. ReviewsOK'
  BY <1>2, <1>3, <1>4 DEF IInv, ReviewsOK
<1>7. Goto(pc)
  BY <1>2 DEF process, Goto
<1>8. ProcessOK'
  BY <1>2, <1>4, <1>7, GotoProcess DEF IInv, ProcessOK
<1> QED
  BY <1>5, <1>6, <1>8 DEF IInv

LEMMA TickKeeps == ASSUME IInv, Tick PROVE IInv'
<1>1. RecordsOK' /\ PeakOK' /\ ReviewsOK' /\ HumanAuthority'
  BY RecordsFrame, PeakFrame, ReviewsFrame, HumanFrame DEF IInv, Tick, disk
<1>2. WorldOK'
  BY ControllerAssumption DEF IInv, WorldOK, Tick, disk
<1>3. Goto(pc) /\ decisions' = decisions /\ pointer' = pointer /\ orphans' = orphans
  BY DEF Tick, Goto, process, disk
<1>4. ProcessOK'
  BY <1>3, GotoProcess DEF IInv, ProcessOK
<1> QED
  BY <1>1, <1>2, <1>4 DEF IInv

LEMMA CrashKeeps == ASSUME IInv, Crash PROVE IInv'
<1>1. RecordsOK' /\ PeakOK' /\ ReviewsOK' /\ HumanAuthority'
  BY RecordsFrame, PeakFrame, ReviewsFrame, HumanFrame DEF IInv, Crash, disk, world
<1>2. WorldOK'
  BY ControllerAssumption DEF IInv, WorldOK, Crash, disk, world
<1>3. ProcessOK'
  BY EndsProcess DEF IInv, Crash, Idle
<1> QED
  BY <1>1, <1>2, <1>3 DEF IInv

LEMMA StutterKeeps == ASSUME IInv, UNCHANGED vars PROVE IInv'
<1>1. RecordsOK' /\ PeakOK' /\ ReviewsOK' /\ WorldOK' /\ HumanAuthority'
  BY RecordsFrame, PeakFrame, ReviewsFrame, WorldFrame, HumanFrame DEF IInv, vars, disk, world
<1>2. Goto(pc) /\ decisions' = decisions /\ pointer' = pointer /\ orphans' = orphans
  BY DEF vars, disk, process, Goto
<1>3. ProcessOK'
  BY <1>2, GotoProcess DEF IInv, ProcessOK
<1> QED
  BY <1>1, <1>3 DEF IInv

-----------------------------------------------------------------------------
(* The handlers of the run, each with the transaction it hands over.       *)

\* What every handler may rely on about the snapshot it starts from.
LEMMA HeldOK ==
  ASSUME IInv
  PROVE  /\ mem \in SnapshotType /\ mem.iteration \in Nat /\ mem.cost \in Nat
         /\ mem.meta \in MetaType /\ mem.meta.spent \in Nat /\ mem.cand \in CheckpointIds
         /\ mem.meta.action \in Decided \cup {"NONE"} /\ AuthorizedMeta(mem.meta)
         /\ mem.meta.action = "PROMOTE" => mem.meta.ckpt \in 0..MaxIterations
<1>1. mem \in SnapshotType
  BY ControllerAssumption DEF IInv, ProcessOK, Sound, WorldOK
<1>2. mem.meta \in MetaType /\ mem.iteration \in Nat /\ mem.cost \in Nat /\ mem.cand \in CheckpointIds
  BY <1>1, SnapshotFields
<1>3. mem.meta.spent \in Nat
  BY <1>2, MetaFields
<1> QED
  BY <1>1, <1>2, <1>3 DEF IInv, ProcessOK, Sound, Authorized

\* A transaction of sound and authorized snapshots.
LEMMA TxKeeps ==
  ASSUME NEW tag \in Tags, NEW i \in Nat, NEW origin \in Origins, NEW snaps,
         \A s \in snaps : Sound(s) /\ Authorized(s)
  PROVE  /\ Tx(tag, i, origin, snaps) \in TxType /\ Keeps(Tx(tag, i, origin, snaps))
         /\ Tx(tag, i, origin, snaps).tag = tag
<1>1. snaps \in SUBSET SnapshotType
  BY DEF Sound
<1> QED
  BY <1>1, TxOf DEF Keeps

\* The controller's own terminal decisions.
LEMMA TerminalOK ==
  ASSUME NEW s \in SnapshotType, NEW state \in {"ABORTED", "STOPPED"}, NEW at \in Nat,
         NEW cost \in Nat, NEW stop \in Stops,
         state = "STOPPED" => cost <= TotalBudget,
         s.meta.action \in Decided \cup {"NONE"}, AuthorizedMeta(s.meta),
         s.meta.action = "PROMOTE" => s.meta.ckpt \in 0..MaxIterations
  PROVE  /\ Sound(Terminal(s, state, at, cost, stop))
         /\ Authorized(Terminal(s, state, at, cost, stop))
         /\ Terminal(s, state, at, cost, stop).cand = s.cand
<1>1. state \in States
  BY DEF States, TerminalStates
<1> DEFINE e == Terminal(s, state, at, cost, stop)
<1>2. /\ e \in SnapshotType
      /\ e.state = state /\ e.cost = cost /\ e.meta = s.meta /\ e.cand = s.cand
  BY <1>1, TerminalOf
<1> HIDE DEF e
<1>3. Sound(e) /\ Authorized(e)
  BY <1>2, RestingOK DEF Pending
<1> QED
  BY <1>2, <1>3 DEF e

\* A snapshot of a stage the run does not resume from.
LEMMA StageOK ==
  ASSUME NEW s \in SnapshotType, s.cost <= TotalBudget,
         NEW state \in {"HYPOTHESIS", "SYNTHESIZE", "VERIFY", "SERVE", "QUARANTINED"},
         NEW at \in Nat, NEW cand \in CheckpointIds, NEW m \in MetaType,
         m.action \in Decided \cup {"NONE"}, AuthorizedMeta(m),
         m.action = "PROMOTE" => m.ckpt \in 0..MaxIterations
  PROVE  Sound(Snapshot(s, state, at, cand, 0, m)) /\ Authorized(Snapshot(s, state, at, cand, 0, m))
<1> DEFINE e == Snapshot(s, state, at, cand, 0, m)
<1>1. state \in States /\ state \notin Pending \cup {"DIAGNOSE", "TRAIN"}
  BY DEF States, Pending
<1>2. e \in SnapshotType /\ e.state = state /\ e.cost = s.cost /\ e.meta = m
  BY <1>1, SnapshotOf
<1> HIDE DEF e
<1>3. Sound(e) /\ Authorized(e)
  BY <1>1, <1>2, RestingOK
<1> QED
  BY <1>3 DEF e

\* _abort_before_candidate and _abort_after_data.
LEMMA AbortProcess ==
  ASSUME IInv, NEW tag \in {"pre-candidate-abort", "candidate-execution-abort"},
         NEW k \in Nat, NEW stop \in Stops, decisions' = decisions,
         NEW base \in {mem, [mem EXCEPT !.meta = NoMeta]},
         LET s == Terminal(base, "ABORTED", At(mem.iteration, k), mem.cost, stop)
         IN  Submit("commit", Tx(tag, mem.iteration, "controller", {s}), s, NoMeta)
  PROVE  ProcessOK'
<1> DEFINE s  == Terminal(base, "ABORTED", At(mem.iteration, k), mem.cost, stop)
           tx == Tx(tag, mem.iteration, "controller", {s})
<1>1. At(mem.iteration, k) \in Nat
  BY HeldOK, AtIsNat
<1>2. Sound(s) /\ Authorized(s)
  <2>1. /\ base \in SnapshotType /\ mem.cost \in Nat
        /\ base.meta.action \in Decided \cup {"NONE"} /\ AuthorizedMeta(base.meta)
        /\ base.meta.action = "PROMOTE" => base.meta.ckpt \in 0..MaxIterations
    <3>1. CASE base = mem
      BY <3>1, HeldOK
    <3>2. CASE base = [mem EXCEPT !.meta = NoMeta]
      <4>1. base \in SnapshotType /\ base.meta = NoMeta
        BY <3>2, HeldOK, NoMetaType DEF SnapshotType
      <4> QED
        BY <4>1, HeldOK, NoMetaType, EmptyOK
    <3> QED
      BY <3>1, <3>2
  <2> QED
    BY <1>1, <2>1, TerminalOK
<1>3. Submit("commit", tx, s, NoMeta)
  OBVIOUS
<1> HIDE DEF s
<1>4. tag \in Tags
  BY DEF Tags
<1>5. tx \in TxType /\ Keeps(tx) /\ tx.tag = tag
  BY <1>2, <1>4, HeldOK, TxKeeps DEF Origins
<1> HIDE DEF tx
<1>6. AsksForDecision(tx, s, NoMeta)
  BY <1>5 DEF AsksForDecision
<1>7. NoMeta \in MetaType /\ NoMeta.action = "NONE" /\ AuthorizedMeta(NoMeta)
  BY NoMetaType, EmptyOK
<1> QED
  BY <1>2, <1>3, <1>5, <1>6, <1>7, SubmitProcess DEF IInv

LEMMA TeacherFailsKeeps == ASSUME IInv, TeacherFails PROVE IInv'
<1>1. RecordsOK' /\ PeakOK' /\ ReviewsOK' /\ WorldOK' /\ HumanAuthority'
  BY RecordsFrame, PeakFrame, ReviewsFrame, WorldFrame, HumanFrame
  DEF IInv, TeacherFails, disk, world
<1>2. AbortBefore("INTERNAL_ERROR") /\ decisions' = decisions /\ "INTERNAL_ERROR" \in Stops
  BY DEF TeacherFails, disk, Stops
<1>3. ProcessOK'
  BY <1>2, AbortProcess DEF AbortBefore
<1> QED
  BY <1>1, <1>3 DEF IInv

LEMMA TrainFailsKeeps == ASSUME IInv, TrainFails PROVE IInv'
<1>1. RecordsOK' /\ PeakOK' /\ ReviewsOK' /\ WorldOK' /\ HumanAuthority'
  BY RecordsFrame, PeakFrame, ReviewsFrame, WorldFrame, HumanFrame
  DEF IInv, TrainFails, disk, world
<1>2. decisions' = decisions /\ "INTERNAL_ERROR" \in Stops
  BY DEF TrainFails, disk, Stops
<1>3. ProcessOK'
  BY <1>2, AbortProcess DEF TrainFails
<1> QED
  BY <1>1, <1>3 DEF IInv

\* The metadata of a dataset carries its cost and asks for nothing.
LEMMA DataMetaOK ==
  ASSUME IInv, NEW b, b.cost \in Nat
  PROVE  /\ DataMeta(b) \in MetaType /\ DataMeta(b).spent = b.cost
         /\ DataMeta(b).action = "NONE" /\ AuthorizedMeta(DataMeta(b))
<1>1. DataMeta(b) \in MetaType /\ DataMeta(b).spent = b.cost /\ DataMeta(b).action = "NONE"
  <2>1. mem.iteration \in Nat
    BY HeldOK
  <2> QED
    BY <2>1, NoMetaType DEF DataMeta, MetaType
<1> QED
  BY <1>1 DEF AuthorizedMeta

LEMMA DataStagesOK ==
  ASSUME IInv, mem.cost <= TotalBudget, NEW m \in MetaType, m.action = "NONE"
  PROVE  \A s \in DataStages(mem, m) : Sound(s) /\ Authorized(s)
<1>1. /\ At(mem.iteration, 10) \in Nat /\ At(mem.iteration, 20) \in Nat
      /\ At(mem.iteration, 40) \in Nat /\ None \in CheckpointIds /\ AuthorizedMeta(m)
  BY HeldOK, AtIsNat DEF CheckpointIds, AuthorizedMeta
<1>2. ASSUME NEW state \in {"HYPOTHESIS", "SYNTHESIZE", "VERIFY"}, NEW at \in Nat
      PROVE  /\ Sound(Snapshot(mem, state, at, None, 0, m))
             /\ Authorized(Snapshot(mem, state, at, None, 0, m))
  BY <1>1, HeldOK, StageOK
<1> QED
  BY <1>1, <1>2 DEF DataStages

\* A dataset admitted to training, with its approval if one is required.
LEMMA TrainOK ==
  ASSUME NEW s \in SnapshotType, s.cost <= TotalBudget, s.iteration \in Iterations,
         NEW at \in Nat, NEW m \in MetaType,
         m.action \in Decided \cup {"NONE"}, AuthorizedMeta(m),
         m.action = "PROMOTE" => m.ckpt \in 0..MaxIterations,
         DatasetReview => ApprovedRequest("DATASET", s.iteration)
  PROVE  /\ Sound(TrainSnapshot(s, at, m)) /\ Authorized(TrainSnapshot(s, at, m))
         /\ TrainSnapshot(s, at, m).state = "TRAIN"
<1> DEFINE e == TrainSnapshot(s, at, m)
<1>1. "TRAIN" \in States /\ None \in CheckpointIds
  BY DEF States, CheckpointIds
<1>2. /\ e \in SnapshotType
      /\ e.state = "TRAIN" /\ e.iteration = s.iteration /\ e.cost = s.cost /\ e.meta = m
  BY <1>1, SnapshotOf DEF TrainSnapshot
<1> HIDE DEF e
<1>3. Sound(e) /\ Authorized(e)
  BY <1>2 DEF Sound, Authorized, Pending
<1> QED
  BY <1>2, <1>3 DEF e

\* A dataset that waits for a reviewer: its cost still fits the budget.
LEMMA DataPendingOK ==
  ASSUME NEW s \in SnapshotType, s.iteration \in Iterations, NEW at \in Nat,
         at = At(s.iteration, 50),
         NEW m \in MetaType, m.action = "NONE", s.cost + m.spent <= TotalBudget
  PROVE  /\ Sound(Snapshot(s, "DATA_REVIEW_PENDING", at, None, 0, m))
         /\ Authorized(Snapshot(s, "DATA_REVIEW_PENDING", at, None, 0, m))
         /\ Snapshot(s, "DATA_REVIEW_PENDING", at, None, 0, m).state \in Pending
<1> DEFINE e == Snapshot(s, "DATA_REVIEW_PENDING", at, None, 0, m)
<1>1. "DATA_REVIEW_PENDING" \in States /\ None \in CheckpointIds
  BY DEF States, CheckpointIds, Pending
<1>2. /\ e \in SnapshotType
      /\ e.state = "DATA_REVIEW_PENDING" /\ e.iteration = s.iteration /\ e.cost = s.cost
      /\ e.meta = m /\ e.at = at /\ e.cand = None
  BY <1>1, SnapshotOf
<1>3. s.cost \in Nat /\ m.spent \in Nat
  BY SnapshotFields, MetaFields
<1> HIDE DEF e
<1>4. e.cost <= TotalBudget
  BY <1>2, <1>3, LimitsAssumption
<1>5. Sound(e) /\ Authorized(e)
  BY <1>2, <1>4 DEF Sound, Authorized, AuthorizedMeta, Pending, KindOf, AskedAt
<1>6. e.state \in Pending
  BY <1>2 DEF Pending
<1> QED
  BY <1>5, <1>6 DEF e

LEMMA RejectDatasetProcess ==
  ASSUME IInv, mem.state = "DIAGNOSE", NEW b, b.cost \in Nat, mem.cost + b.cost <= TotalBudget,
         NEW quality, RejectDataset(b, quality), decisions' = decisions
  PROVE  ProcessOK'
<1> DEFINE i    == mem.iteration
           stop == IF quality = "none" THEN "NO_ACCEPTED_DATA" ELSE "LOW_ACCEPTANCE"
           q    == Snapshot(mem, "QUARANTINED", At(i, 50), None, 0, DataMeta(b))
           base == [mem EXCEPT !.meta = DataMeta(b)]
           cost == mem.cost + b.cost
           s    == Terminal(base, "STOPPED", At(i, 51), cost, stop)
           tx   == Tx("data", i, "adapter", DataStages(mem, DataMeta(b)) \cup {q, s})
           what == [NoMeta EXCEPT !.source = i, !.tag = "data", !.action = "QUARANTINE"]
<1>1. Submit("commit", tx, s, what)
  BY DEF RejectDataset
<1>2. /\ i \in Nat /\ At(i, 50) \in Nat /\ At(i, 51) \in Nat /\ cost \in Nat
      /\ mem.cost \in Nat /\ stop \in Stops /\ None \in CheckpointIds
      /\ mem \in SnapshotType /\ mem.cost <= TotalBudget /\ cost <= TotalBudget
      /\ "data" \in Tags
  <2>1. i \in Nat /\ mem.cost \in Nat /\ mem \in SnapshotType
    BY HeldOK
  <2>2. mem.cost <= TotalBudget
    BY <2>1, LimitsAssumption
  <2>3. stop \in Stops /\ "data" \in Tags /\ None \in CheckpointIds
    BY DEF Stops, Tags, CheckpointIds
  <2>4. At(i, 50) \in Nat /\ At(i, 51) \in Nat
    BY <2>1, AtIsNat
  <2>5. cost \in Nat /\ cost <= TotalBudget
    BY <2>1
  <2> QED
    BY <2>1, <2>2, <2>3, <2>4, <2>5
<1>3. /\ DataMeta(b) \in MetaType /\ DataMeta(b).action = "NONE" /\ AuthorizedMeta(DataMeta(b))
  BY DataMetaOK
<1>4. base \in SnapshotType /\ base.meta = DataMeta(b)
  BY <1>2, <1>3 DEF SnapshotType
<1>5. what \in MetaType /\ what.action = "QUARANTINE"
  BY <1>2, NoMetaType DEF MetaType, Actions
<1> HIDE DEF i, stop, cost, base, what
<1>6. Sound(q) /\ Authorized(q)
  BY <1>2, <1>3, StageOK
<1>7. Sound(s) /\ Authorized(s)
  BY <1>2, <1>3, <1>4, TerminalOK
<1>8. \A x \in DataStages(mem, DataMeta(b)) : Sound(x) /\ Authorized(x)
  BY <1>2, <1>3, DataStagesOK
<1> HIDE DEF q, s
<1>9. tx \in TxType /\ Keeps(tx) /\ tx.tag = "data"
  BY <1>2, <1>6, <1>7, <1>8, TxKeeps DEF Origins
<1> HIDE DEF tx
<1>10. AsksForDecision(tx, s, what) /\ AuthorizedMeta(what)
  BY <1>5, <1>9 DEF AsksForDecision, AuthorizedMeta
<1> QED
  BY <1>1, <1>5, <1>7, <1>9, <1>10, SubmitProcess DEF IInv

LEMMA AdmitDatasetProcess ==
  ASSUME IInv, mem.state = "DIAGNOSE", NEW b, b.cost \in Nat, mem.cost + b.cost <= TotalBudget,
         AdmitDataset(b), decisions' = decisions
  PROVE  ProcessOK'
<1> DEFINE i     == mem.iteration
           m     == DataMeta(b)
           label == IF DatasetReview THEN "request" ELSE "commit"
           s     == IF DatasetReview
                    THEN Snapshot(mem, "DATA_REVIEW_PENDING", At(i, 50), None, 0, m)
                    ELSE TrainSnapshot(mem, At(i, 50), m)
           tx    == Tx("data", i, "adapter", DataStages(mem, m) \cup {s})
<1>1. Submit(label, tx, s, NoMeta)
  BY DEF AdmitDataset
<1>2. /\ i \in Nat /\ i \in Iterations /\ At(i, 50) \in Nat /\ mem.cost \in Nat
      /\ mem \in SnapshotType /\ mem.cost <= TotalBudget
      /\ "data" \in Tags
  <2>1. i \in Nat /\ mem.cost \in Nat /\ mem \in SnapshotType
    BY HeldOK
  <2>2. mem.cost <= TotalBudget
    BY <2>1, LimitsAssumption
  <2>3. i \in Iterations
    BY DEF IInv, ProcessOK, Sound
  <2> QED
    BY <2>1, <2>2, <2>3, AtIsNat DEF Tags
<1>3. m \in MetaType /\ m.action = "NONE" /\ AuthorizedMeta(m) /\ m.spent = b.cost
  BY DataMetaOK
<1>4. \A x \in DataStages(mem, m) : Sound(x) /\ Authorized(x)
  BY <1>2, <1>3, DataStagesOK
<1> HIDE DEF m, i
<1>5. Sound(s) /\ Authorized(s) /\ (DatasetReview => s.state \in Pending)
  <2>1. CASE DatasetReview
    BY <1>2, <1>3, <2>1, DataPendingOK DEF i
  <2>2. CASE ~DatasetReview
    BY <1>2, <1>3, <2>2, TrainOK DEF i
  <2> QED
    BY <2>1, <2>2
<1> HIDE DEF s
<1>6. tx \in TxType /\ Keeps(tx) /\ tx.tag = "data"
  BY <1>2, <1>4, <1>5, TxKeeps DEF Origins
<1> HIDE DEF tx
<1>7. /\ AsksForDecision(tx, s, NoMeta) /\ label \in {"request", "commit"}
      /\ label = "request" => s.state \in Pending
  BY <1>5, <1>6 DEF AsksForDecision
<1>8. NoMeta \in MetaType /\ NoMeta.action = "NONE" /\ AuthorizedMeta(NoMeta)
  BY NoMetaType, EmptyOK
<1> HIDE DEF label
<1> QED
  BY <1>1, <1>5, <1>6, <1>7, <1>8, SubmitProcess DEF IInv

LEMMA SynthesizeKeeps == ASSUME IInv, Synthesize PROVE IInv'
<1> DEFINE i == mem.iteration
<1>1. RecordsOK' /\ PeakOK' /\ ReviewsOK' /\ HumanAuthority'
  BY RecordsFrame, PeakFrame, ReviewsFrame, HumanFrame DEF IInv, Synthesize
<1>2. mem.state = "DIAGNOSE" /\ decisions' = decisions /\ i \in Iterations /\ mem.cost \in Nat
  BY HeldOK DEF Synthesize, Diagnosing, IInv, ProcessOK, Sound
<1>3. PICK b \in Batches(i) :
        /\ batch' = [batch EXCEPT ![i] = b]
        /\ IF Charge(b.cost) # "NONE"
           THEN AbortBefore(Charge(b.cost)) /\ UNCHANGED accepted
           ELSE LET quality == Verdict(b, i)
                IN  /\ accepted' = IF quality = "none" THEN accepted \ {i}
                                   ELSE accepted \cup {i}
                    /\ IF quality = "ok" THEN AdmitDataset(b)
                       ELSE RejectDataset(b, quality)
  BY DEF Synthesize
<1>4. b.cost \in Nat
  BY <1>2, <1>3, ControllerAssumption DEF Batches, IInv, WorldOK
<1>5. accepted' \subseteq Iterations
  BY <1>2, <1>3 DEF IInv, WorldOK
<1>6. WorldOK'
  BY <1>2, <1>3, <1>4, <1>5 DEF IInv, WorldOK, Synthesize
<1>7. ProcessOK'
  <2>1. CASE Charge(b.cost) # "NONE"
    <3>1. Charge(b.cost) \in Stops
      BY DEF Charge, Stops
    <3> QED
      BY <1>2, <1>3, <2>1, <3>1, AbortProcess DEF AbortBefore
  <2>2. CASE Charge(b.cost) = "NONE"
    <3>1. mem.cost + b.cost <= TotalBudget
      BY <1>2, <1>4, <2>2, LimitsAssumption DEF Charge
    <3>2. AdmitDataset(b) \/ \E quality : RejectDataset(b, quality)
      BY <1>3, <2>2
    <3> QED
      BY <1>2, <1>4, <3>1, <3>2, AdmitDatasetProcess, RejectDatasetProcess
  <2> QED
    BY <2>1, <2>2
<1> QED
  BY <1>1, <1>6, <1>7 DEF IInv

\* What an observed candidate is, of an EVALUATE snapshot of the run.
LEMMA ObservationOf ==
  ASSUME NEW s, NEW e, e.cand \in Nat, e.candScore \in Nat, e.meta.spent \in Nat, e.at \in Nat
  PROVE  /\ Observation(s, e).ckpt = e.cand /\ Observation(s, e).ckpt \in Nat
         /\ Observation(s, e).score \in Nat
         /\ Observation(s, e).cost = e.meta.spent /\ Observation(s, e).cost \in Nat
         /\ Observation(s, e).at \in Nat
  BY DEF Observation

\* A promotion that waits for its reviewer: the policy found the cost of the
\* candidate within the budget.
LEMMA ReviewPendingOK ==
  ASSUME NEW e \in SnapshotType, e.iteration \in Iterations, NEW at \in Nat,
         at = At(e.iteration, 90), e.cand # None,
         e.cost + e.meta.spent <= TotalBudget, e.meta.action = "NONE",
         e.meta.ckpt \in Iterations
  PROVE  /\ Sound(Snapshot(e, "MODEL_REVIEW_PENDING", at, e.cand, e.candScore, e.meta))
         /\ Authorized(Snapshot(e, "MODEL_REVIEW_PENDING", at, e.cand, e.candScore, e.meta))
         /\ Snapshot(e, "MODEL_REVIEW_PENDING", at, e.cand, e.candScore, e.meta).state \in Pending
<1> DEFINE s == Snapshot(e, "MODEL_REVIEW_PENDING", at, e.cand, e.candScore, e.meta)
<1>1. /\ "MODEL_REVIEW_PENDING" \in States /\ e.cand \in CheckpointIds /\ e.candScore \in Nat
      /\ e.meta \in MetaType /\ e.cost \in Nat
  BY SnapshotFields DEF States, Pending
<1>2. /\ s \in SnapshotType
      /\ s.state = "MODEL_REVIEW_PENDING" /\ s.iteration = e.iteration /\ s.cost = e.cost
      /\ s.meta = e.meta /\ s.at = at /\ s.cand = e.cand
  BY <1>1, SnapshotOf
<1>3. e.meta.spent \in Nat
  BY <1>1, MetaFields
<1> HIDE DEF s
<1>4. s.cost <= TotalBudget
  BY <1>1, <1>2, <1>3, LimitsAssumption
<1>5. Sound(s) /\ Authorized(s)
  BY <1>2, <1>4 DEF Sound, Authorized, AuthorizedMeta, Pending, KindOf, AskedAt
<1>6. s.state \in Pending
  BY <1>2 DEF Pending
<1> QED
  BY <1>5, <1>6 DEF s

\* A decision about an evaluated candidate, with the stage snapshots that
\* are committed with it.
LEMMA DecisionProcess ==
  ASSUME IInv, NEW e \in SnapshotType, NEW c, NEW action, NEW origin \in Origins, NEW stages,
         NEW tag \in {"candidate", "model-review-approved"},
         SubmitDecision(tag, e, Evaluate(e, c), action, origin, stages),
         \A s \in stages : Sound(s) /\ Authorized(s),
         e.iteration \in Iterations, e.cost <= TotalBudget, e.meta.ckpt \in Iterations,
         c.ckpt \in Nat, c.score \in Nat, c.cost \in Nat, c.at \in Nat,
         action = PrimaryAction(e, c),
         CheckpointReview /\ action = "PROMOTE" => ApprovedRequest("CHECKPOINT", e.meta.source),
         decisions' = decisions
  PROVE  ProcessOK'
<1> DEFINE step == Evaluate(e, c)
           m    == Materialized(FinalSnapshot(step), e, tag, action)
           more == PolicySnapshots(step, m)
           tx   == Tx(tag, e.iteration, origin, stages \cup more)
<1>1. tag \in Tags /\ e.iteration \in Nat
  BY LimitsAssumption DEF Tags, Iterations
<1>2. Submit("commit", tx, m, m.meta)
  BY DEF SubmitDecision
<1>3. /\ action \in Decided
      /\ \A s \in more : Sound(s) /\ Authorized(s)
      /\ Sound(m) /\ Authorized(m)
      /\ m.meta.action = action
  BY <1>1, DecisionOK
<1> HIDE DEF m, more
<1>4. tx \in TxType /\ Keeps(tx) /\ tx.tag = tag
  BY <1>1, <1>3, TxKeeps
<1>5. /\ m.meta \in MetaType /\ AuthorizedMeta(m.meta)
      /\ m.meta.action = "PROMOTE" => m.meta.ckpt \in 0..MaxIterations
  BY <1>3, SnapshotFields DEF Sound, Authorized
<1> HIDE DEF tx
<1>6. AsksForDecision(tx, m, m.meta)
  BY <1>3 DEF AsksForDecision
<1> QED
  BY <1>2, <1>3, <1>4, <1>5, <1>6, SubmitProcess DEF IInv

LEMMA TrainAndEvaluateKeeps == ASSUME IInv, TrainAndEvaluate PROVE IInv'
<1> DEFINE i == mem.iteration
<1>1. RecordsOK' /\ PeakOK' /\ ReviewsOK'
  BY RecordsFrame, PeakFrame, ReviewsFrame DEF IInv, TrainAndEvaluate, disk
<1>2. /\ mem.state = "TRAIN" /\ decisions' = decisions /\ history' = history
      /\ i \in Iterations /\ mem.cost <= TotalBudget
      /\ DatasetReview => ApprovedRequest("DATASET", i)
  BY DEF TrainAndEvaluate, Training, disk, IInv, ProcessOK, Sound, Authorized
<1>3. /\ mem \in SnapshotType /\ i \in Nat /\ mem.cost \in Nat /\ mem.meta \in MetaType
      /\ mem.meta.spent \in Nat /\ At(i, 70) \in Nat /\ At(i, 80) \in Nat
  BY HeldOK, AtIsNat
<1>4. PICK t \in Trials(i) :
        LET e      == EvaluateSnapshot(mem, i, t.score, mem.meta.spent + t.cost, At(i, 80))
            c      == Observation(mem, e)
            action == PrimaryAction(e, c)
            stages == {ServeSnapshot(mem), e}
        IN  /\ trial' = [trial EXCEPT ![i] = t]
            /\ IF action = "PROMOTE" /\ CheckpointReview
               THEN SubmitForReview(e, stages)
               ELSE SubmitDecision("candidate", e, Evaluate(e, c), action, "adapter", stages)
  BY DEF TrainAndEvaluate
<1>5. t.score \in Nat /\ t.cost \in Nat
  BY <1>2, <1>4, ControllerAssumption DEF Trials, IInv, WorldOK
<1>6. trial' = [trial EXCEPT ![i] = t]
  BY <1>4
<1>7. WorldOK'
  BY <1>5, <1>6 DEF IInv, WorldOK, TrainAndEvaluate, disk
<1>8. HumanAuthority'
  BY <1>2, <1>6 DEF IInv, HumanAuthority, ApprovedRequest, WorldOK
<1> DEFINE spent == mem.meta.spent + t.cost
           e      == EvaluateSnapshot(mem, i, t.score, spent, At(i, 80))
           c      == Observation(mem, e)
           action == PrimaryAction(e, c)
           serve  == ServeSnapshot(mem)
           stages == {serve, e}
<1>9. IF action = "PROMOTE" /\ CheckpointReview
      THEN SubmitForReview(e, stages)
      ELSE SubmitDecision("candidate", e, Evaluate(e, c), action, "adapter", stages)
  BY <1>4
<1>10. spent \in Nat
  BY <1>3, <1>5
<1> HIDE DEF spent
<1>11. /\ e \in SnapshotType
       /\ e.state = "EVALUATE" /\ e.iteration = i /\ e.cost = mem.cost
       /\ e.cand = i /\ e.candScore = t.score /\ e.at = At(i, 80)
       /\ e.meta.action = "NONE" /\ e.meta.ckpt = i /\ e.meta.spent = spent
       /\ e.meta.source = i
  <2>1. e = EvaluateSnapshot(mem, i, t.score, spent, At(i, 80))
    OBVIOUS
  <2> HIDE DEF e
  <2>2. mem \in SnapshotType /\ spent \in Nat
    BY <1>3, <1>10
  <2>3. i = mem.iteration /\ i \in Iterations /\ t.score \in Nat /\ At(i, 80) \in Nat
    BY <1>2, <1>3, <1>5
  <2> HIDE DEF i
  <2>4. Evaluates(e, mem, i, t.score, spent, At(i, 80))
    BY ONLY <2>1, <2>2, <2>3, EvaluateOf
  <2> QED
    BY ONLY <2>3, <2>4 DEF Evaluates
<1> HIDE DEF e
<1>12. /\ c.ckpt \in Nat /\ c.score \in Nat /\ c.cost = spent /\ c.cost \in Nat /\ c.at \in Nat
  BY <1>3, <1>5, <1>10, <1>11, ObservationOf
<1> HIDE DEF c
<1>13. Sound(e) /\ Authorized(e)
  BY <1>2, <1>11, RestingOK DEF AuthorizedMeta, Pending
<1>14. Sound(serve) /\ Authorized(serve)
  BY <1>2, <1>3, HeldOK, StageOK DEF ServeSnapshot, CheckpointIds
<1> HIDE DEF serve
<1>15. CASE action = "PROMOTE" /\ CheckpointReview
  <2> DEFINE s  == Snapshot(e, "MODEL_REVIEW_PENDING", At(e.iteration, 90), e.cand,
                            e.candScore, e.meta)
             tx == Tx("candidate-pending-review", e.iteration, "adapter", stages \cup {s})
  <2>1. Submit("request", tx, s, NoMeta)
    BY <1>9, <1>15 DEF SubmitForReview
  <2>2. e.cost + e.meta.spent <= TotalBudget
    BY <1>11, <1>12, <1>15 DEF PrimaryAction, WithinTotal
  <2>3. At(e.iteration, 90) \in Nat
    BY <1>3, <1>11, AtIsNat
  <2>4. Sound(s) /\ Authorized(s) /\ s.state \in Pending
    <3>1. e.cand # None
      BY <1>2, <1>11, LimitsAssumption DEF Iterations, None
    <3> QED
      BY <1>2, <1>11, <2>2, <2>3, <3>1, ReviewPendingOK
  <2> HIDE DEF s
  <2>5. tx \in TxType /\ Keeps(tx) /\ tx.tag = "candidate-pending-review"
    BY <1>3, <1>11, <1>13, <1>14, <2>4, TxKeeps DEF Tags, Origins
  <2> HIDE DEF tx
  <2>6. AsksForDecision(tx, s, NoMeta)
    BY <2>5 DEF AsksForDecision
  <2>7. NoMeta \in MetaType /\ NoMeta.action = "NONE" /\ AuthorizedMeta(NoMeta)
    BY NoMetaType, EmptyOK
  <2>8. ProcessOK'
    BY <1>2, <2>1, <2>4, <2>5, <2>6, <2>7, SubmitProcess DEF IInv
  <2> QED
    BY <1>1, <1>7, <1>8, <2>8 DEF IInv
<1>16. CASE ~(action = "PROMOTE" /\ CheckpointReview)
  <2>1. SubmitDecision("candidate", e, Evaluate(e, c), action, "adapter", stages)
    BY <1>9, <1>16
  <2>2. \A s \in stages : Sound(s) /\ Authorized(s)
    BY <1>13, <1>14
  <2> HIDE DEF stages
  <2>3. ProcessOK'
    BY <1>2, <1>3, <1>11, <1>12, <1>16, <2>1, <2>2, DecisionProcess DEF Origins
  <2> QED
    BY <1>1, <1>7, <1>8, <2>3 DEF IInv
<1> QED
  BY <1>15, <1>16

\* What an answer of the approval service rests on: a decision with a time,
\* and an approving one if the answer is APPROVED (ApprovalService.status).
LEMMA AnswerOK ==
  ASSUME IInv, StatusOf(mem) \in {"APPROVED", "DENIED"}
  PROVE  /\ DecidedAt(mem) \in Nat
         /\ StatusOf(mem) = "APPROVED" => ApprovedRequest(KindOf(mem), mem.iteration)
<1> DEFINE r == RequestOf(mem)
           D == DecisionsOn(r)
<1>1. \E d \in D : TRUE
  BY DEF StatusOf, Status
<1>2. StatusOf(mem) = "APPROVED" => \E d \in D : d.approved
  BY DEF StatusOf, Status
<1>3. r.kind = KindOf(mem) /\ r.iter = mem.iteration
  BY DEF RequestOf, Request
<1>4. \A d \in D : d \in decisions /\ d.kind = r.kind /\ d.iter = r.iter
  BY DEF DecisionsOn
<1>5. \A d \in D : d.at \in Nat
  BY <1>4 DEF IInv, ReviewsOK, DecisionType
<1> HIDE DEF r
<1>6. (CHOOSE d \in D : TRUE) \in D
  <2> HIDE DEF D
  <2> QED
    BY <1>1
<1>7. DecidedAt(mem) \in Nat
  BY <1>5, <1>6 DEF DecidedAt, r
<1> HIDE DEF D
<1>8. StatusOf(mem) = "APPROVED" => ApprovedRequest(KindOf(mem), mem.iteration)
  BY <1>2, <1>3, <1>4 DEF ApprovedRequest
<1> QED
  BY <1>7, <1>8

LEMMA DataApprovedKeeps == ASSUME IInv, DataApproved PROVE IInv'
<1> DEFINE at == DecidedAt(mem)
           s  == TrainSnapshot(mem, at, mem.meta)
           tx == Tx("data-review-approved", mem.iteration, "controller", {s})
<1>1. RecordsOK' /\ PeakOK' /\ ReviewsOK' /\ WorldOK' /\ HumanAuthority'
  BY RecordsFrame, PeakFrame, ReviewsFrame, WorldFrame, HumanFrame
  DEF IInv, DataApproved, disk, world
<1>2. /\ mem.state = "DATA_REVIEW_PENDING" /\ StatusOf(mem) = "APPROVED"
      /\ Submit("commit", tx, s, NoMeta) /\ decisions' = decisions
  BY DEF DataApproved, Reviewing, disk
<1>3. at \in Nat /\ ApprovedRequest("DATASET", mem.iteration)
  BY <1>2, AnswerOK DEF KindOf
<1>4. mem.cost <= TotalBudget /\ mem.iteration \in Iterations
  BY <1>2 DEF IInv, ProcessOK, Sound, Pending
<1> HIDE DEF at
<1>5. Sound(s) /\ Authorized(s)
  BY <1>3, <1>4, HeldOK, TrainOK
<1> HIDE DEF s
<1>6. tx \in TxType /\ Keeps(tx) /\ tx.tag = "data-review-approved"
  BY <1>5, HeldOK, TxKeeps DEF Tags, Origins
<1> HIDE DEF tx
<1>7. AsksForDecision(tx, s, NoMeta)
  BY <1>6 DEF AsksForDecision
<1>8. NoMeta \in MetaType /\ NoMeta.action = "NONE" /\ AuthorizedMeta(NoMeta)
  BY NoMetaType, EmptyOK
<1>9. ProcessOK'
  BY <1>2, <1>5, <1>6, <1>7, <1>8, SubmitProcess DEF IInv
<1> QED
  BY <1>1, <1>9 DEF IInv

LEMMA ModelApprovedKeeps == ASSUME IInv, ModelApproved PROVE IInv'
<1> DEFINE ckpt  == mem.meta.ckpt
           score == mem.meta.score
           spent == mem.meta.spent
           at    == DecidedAt(mem)
           e     == EvaluateSnapshot(mem, ckpt, score, spent, at)
           c     == Observation(mem, e)
<1>1. RecordsOK' /\ PeakOK' /\ ReviewsOK' /\ WorldOK' /\ HumanAuthority'
  BY RecordsFrame, PeakFrame, ReviewsFrame, WorldFrame, HumanFrame
  DEF IInv, ModelApproved, disk, world
<1>2. /\ mem.state = "MODEL_REVIEW_PENDING" /\ StatusOf(mem) = "APPROVED"
      /\ decisions' = decisions
  BY DEF ModelApproved, Reviewing, disk
<1>3. /\ PrimaryAction(e, c) = "PROMOTE"
      /\ SubmitDecision("model-review-approved", e, Evaluate(e, c), "PROMOTE", "controller", {e})
  BY DEF ModelApproved
<1>4. at \in Nat /\ ApprovedRequest("CHECKPOINT", mem.iteration)
  BY <1>2, AnswerOK DEF KindOf
<1>5. /\ mem.cost <= TotalBudget /\ mem.iteration \in Iterations /\ ckpt \in Iterations
      /\ mem \in SnapshotType /\ score \in Nat /\ spent \in Nat
  BY <1>2, HeldOK, MetaFields DEF IInv, ProcessOK, Sound, Pending
<1>6. e = EvaluateSnapshot(mem, ckpt, score, spent, at)
  OBVIOUS
<1> HIDE DEF e, ckpt, score, spent, at
<1>7. /\ e \in SnapshotType
      /\ e.state = "EVALUATE" /\ e.iteration = mem.iteration /\ e.cost = mem.cost
      /\ e.cand = ckpt /\ e.candScore = score /\ e.at = at
      /\ e.meta.action = "NONE" /\ e.meta.ckpt = ckpt /\ e.meta.spent = spent
      /\ e.meta.source = mem.iteration
  <2>1. /\ mem \in SnapshotType /\ ckpt \in Iterations /\ score \in Nat /\ spent \in Nat
        /\ at \in Nat
    BY <1>4, <1>5
  <2>2. Evaluates(e, mem, ckpt, score, spent, at)
    BY ONLY <1>6, <2>1, EvaluateOf
  <2> QED
    BY ONLY <2>2 DEF Evaluates
<1>8. ckpt \in Nat
  BY <1>5, LimitsAssumption DEF Iterations
<1>9. /\ c.ckpt \in Nat /\ c.score \in Nat /\ c.cost \in Nat /\ c.at \in Nat
  BY <1>4, <1>5, <1>7, <1>8, ObservationOf
<1> HIDE DEF c
<1>10. Sound(e) /\ Authorized(e)
  BY <1>5, <1>7, RestingOK DEF AuthorizedMeta, Pending
<1>11. ProcessOK'
  BY <1>2, <1>3, <1>4, <1>5, <1>7, <1>9, <1>10, DecisionProcess DEF Origins
<1> QED
  BY <1>1, <1>11 DEF IInv

\* _stop_for_approval_failure: what the refused work cost was within the
\* budget when the review began.
LEMMA RefusedKeeps ==
  ASSUME IInv, NEW status, NEW tag \in {"approval-denied-stop", "approval-expired-stop"},
         NEW at \in Nat, ApprovalRefused(status, tag, at)
  PROVE  IInv'
<1> DEFINE cost == mem.cost + mem.meta.spent
           s    == Terminal(mem, "STOPPED", at, cost, "APPROVAL_NOT_GRANTED")
           tx   == Tx(tag, mem.iteration, "controller", {s})
           act  == IF mem.cand = None THEN "QUARANTINE" ELSE "REJECT"
           what == [mem.meta EXCEPT !.tag = tag, !.action = act]
<1>1. RecordsOK' /\ PeakOK' /\ ReviewsOK' /\ WorldOK' /\ HumanAuthority'
  BY RecordsFrame, PeakFrame, ReviewsFrame, WorldFrame, HumanFrame
  DEF IInv, ApprovalRefused, disk, world
<1>2. /\ mem.state \in Pending /\ decisions' = decisions
      /\ Submit("commit", tx, s, what)
  BY DEF ApprovalRefused, disk
<1>3. cost \in Nat /\ cost <= TotalBudget
  BY <1>2, HeldOK DEF IInv, ProcessOK, Sound
<1> HIDE DEF cost
<1>4. Sound(s) /\ Authorized(s) /\ s.cand = mem.cand
  BY <1>3, HeldOK, TerminalOK DEF Stops
<1> HIDE DEF s
<1>5. tag \in Tags
  BY DEF Tags
<1>6. tx \in TxType /\ Keeps(tx) /\ tx.tag = tag
  BY <1>4, <1>5, HeldOK, TxKeeps DEF Origins
<1>7. act \in Actions /\ act # "PROMOTE" /\ (mem.cand # None => act \in Decided)
  BY DEF Actions, Decided
<1> HIDE DEF tx, act
<1>8. what \in MetaType /\ what.action = act
  BY <1>5, <1>7, HeldOK DEF MetaType
<1> HIDE DEF what
<1>9. AsksForDecision(tx, s, what) /\ AuthorizedMeta(what)
  BY <1>4, <1>6, <1>7, <1>8 DEF AsksForDecision, AuthorizedMeta
<1>10. ProcessOK'
  BY <1>2, <1>4, <1>6, <1>7, <1>8, <1>9, SubmitProcess DEF IInv
<1> QED
  BY <1>1, <1>10 DEF IInv

LEMMA DeniedKeeps == ASSUME IInv, Denied PROVE IInv'
<1>1. StatusOf(mem) = "DENIED"
  BY DEF Denied, ApprovalRefused, Reviewing
<1> QED
  BY <1>1, AnswerOK, RefusedKeeps DEF Denied

LEMMA ExpiredKeeps == ASSUME IInv, Expired PROVE IInv'
<1>1. At(mem.iteration, 120) \in Nat
  BY HeldOK, AtIsNat
<1> QED
  BY <1>1, RefusedKeeps DEF Expired

-----------------------------------------------------------------------------
(* One answer per request: a second invariant, over the first.  A decision *)
(* may be linked at any time and may carry any time before the deadline,   *)
(* so the clocks of the run and the reviewer prove nothing.  What does: an *)
(* answer is given to a review the latest snapshot is waiting for, whoever *)
(* gave it up as expired has committed a later snapshot, and what a run    *)
(* acted on was linked before, is the only decision, and stays in sight.   *)

Kinds == {"DATASET", "CHECKPOINT"}

DecidedOn(kind, i) == {d \in decisions : d.kind = kind /\ d.iter = i}

OneDecision == \A d, e \in decisions : d.kind = e.kind /\ d.iter = e.iter => d = e

\* The transaction that begins a review is an adapter's and carries the
\* pending snapshot.
OpenerTag(kind) == IF kind = "DATASET" THEN "data" ELSE "candidate-pending-review"

Opens(t, s) == t.tag = OpenerTag(KindOf(s)) /\ t.iter = s.iteration /\ t.origin = "adapter"

Opened(kind, i) == \E t \in txs : t.tag = OpenerTag(kind) /\ t.iter = i

\* Only such a transaction holds a pending snapshot.
Shown(t) == \A s \in t.snaps : s.state \in Pending => Opens(t, s)

\* What an answer rests on: a snapshot later than the pending one, or a
\* decision that every later look at the request sees.
Settled(t) ==
  \A kind \in Kinds, i \in Iterations : Answers(t, kind, i) =>
    IF t.tag = "approval-expired-stop"
    THEN \E s \in t.snaps : s.iteration = i /\ s.at = At(i, 120)
    ELSE /\ DecidedOn(kind, i) # {}
         /\ \A d \in DecidedOn(kind, i) : /\ d.approved = (t.tag # "approval-denied-stop")
                                          /\ d.at <= Later(wall, AskedAt(kind, i))

Agree(t, u) ==
  t = u \/ (t.tag # "approval-expired-stop" /\ u.tag # "approval-expired-stop")

Consistent(t) ==
  \A kind \in Kinds, i \in Iterations : Answers(t, kind, i) =>
    Opened(kind, i) /\ \A u \in txs : Answers(u, kind, i) => Agree(t, u)

RecordsSettled ==
  /\ OneDecision
  /\ \A t \in txs \cup orphans : Shown(t) /\ Settled(t)
  /\ \A t \in txs : Consistent(t)

Committing == {"request", "commit", "marker"}

HeldSettled ==
  /\ Shown(job) /\ Settled(job)
  /\ pc \in {"commit", "marker"} => Consistent(job)
  /\ pc \in Committing /\ mem.state \in Pending => Opens(job, mem)
  /\ pc \notin Idle \cup Committing /\ mem.state \in Pending =>
       /\ Opened(KindOf(mem), mem.iteration)
       /\ \A t \in txs : Answers(t, KindOf(mem), mem.iteration) =>
                           t.tag # "approval-expired-stop"

VInv == RecordsSettled /\ HeldSettled

LEMMA AskedAtIsNat == ASSUME NEW kind, NEW i \in Nat PROVE AskedAt(kind, i) \in Nat
  BY AtIsNat DEF AskedAt

LEMMA IterationsAreNat == Iterations \subseteq Nat
  BY LimitsAssumption DEF Iterations

\* A transaction with none of the answering tags answers nothing.
LEMMA NoAnswer ==
  ASSUME NEW t, t.tag \notin {"data-review-approved", "model-review-approved",
                              "approval-denied-stop", "approval-expired-stop"}
  PROVE  Settled(t) /\ Consistent(t) /\ \A kind, i : ~Answers(t, kind, i)
  BY DEF Settled, Consistent, Answers

\* Only a reviewer and the clock touch what a verdict depends on.
LEMMA ReviewFrame ==
  ASSUME [Next]_vars
  PROVE  \/ Human \/ Tick
         \/ decisions' = decisions /\ wall' = wall
  BY DEF Next, Start, StartFresh, StartResume, Step, Reconcile, Finish, WriteRecords,
     WriteMarker, CommitBundle, CasHistory, CasSwap, WriteQuarantine, TeacherFails,
     Synthesize, CreateRequest, TrainFails, TrainAndEvaluate, DataApproved, ModelApproved,
     Denied, Expired, ApprovalRefused, Crash, vars, disk, world

\* The first decision of a request is its last, and nothing else is decided
\* by it.
LEMMA FirstDecision ==
  ASSUME Human
  PROVE  \E d : /\ decisions' = decisions \cup {d} /\ wall' = wall
                /\ DecidedOn(d.kind, d.iter) = {}
<1>1. PICK r \in requests : \E approved \in BOOLEAN : Review(r, approved)
  BY DEF Human
<1>2. PICK approved \in BOOLEAN : Review(r, approved)
  BY <1>1
<1> DEFINE D(at) == [kind |-> r.kind, iter |-> r.iter, approved |-> approved, at |-> at]
<1>3. PICK at : decisions' = decisions \cup {D(at)}
  BY <1>2 DEF Review
<1>4. wall' = wall /\ DecidedOn(r.kind, r.iter) = {}
  BY <1>2 DEF Review, world, DecidedOn, DecisionsOn
<1>5. D(at).kind = r.kind /\ D(at).iter = r.iter
  OBVIOUS
<1> HIDE DEF D
<1> QED
  BY <1>3, <1>4, <1>5

LEMMA OneDecisionStays ==
  ASSUME OneDecision, [Next]_vars
  PROVE  OneDecision'
<1>1. CASE Human
  <2>1. PICK d : /\ decisions' = decisions \cup {d}
                 /\ DecidedOn(d.kind, d.iter) = {}
    BY <1>1, FirstDecision
  <2> QED
    BY <2>1 DEF OneDecision, DecidedOn
<1>2. CASE ~Human
  <2>1. decisions' = decisions
    BY <1>2, ReviewFrame DEF Tick, disk
  <2> QED
    BY <2>1 DEF OneDecision
<1> QED
  BY <1>1, <1>2

\* What is settled stays so.
LEMMA SettledStays ==
  ASSUME IInv, [Next]_vars, NEW t, Settled(t)
  PROVE  Settled(t)'
<1>1. CASE decisions' = decisions /\ wall' = wall
  BY <1>1 DEF Settled, DecidedOn
<1>2. CASE Tick
  <2>1. wall \in Nat /\ wall' \in Nat /\ wall' > wall /\ decisions' = decisions
    BY <1>2, ControllerAssumption DEF Tick, disk, IInv, WorldOK
  <2>2. \A kind, i : DecidedOn(kind, i)' = DecidedOn(kind, i)
    BY <2>1 DEF DecidedOn
  <2>3. \A d \in decisions, kind \in Kinds, i \in Iterations :
          d.at <= Later(wall, AskedAt(kind, i)) => d.at <= Later(wall', AskedAt(kind, i))
    <3>1. ASSUME NEW d \in decisions, NEW kind \in Kinds, NEW i \in Iterations
          PROVE  d.at \in Nat /\ AskedAt(kind, i) \in Nat
      BY AskedAtIsNat, IterationsAreNat DEF IInv, ReviewsOK, DecisionType
    <3> QED
      BY <2>1, <3>1 DEF Later
  <2>4. \A kind, i : DecidedOn(kind, i) \subseteq decisions
    BY DEF DecidedOn
  <2> QED
    BY <2>2, <2>3, <2>4 DEF Settled
<1>3. CASE Human
  <2>1. PICK d : /\ decisions' = decisions \cup {d} /\ wall' = wall
                 /\ DecidedOn(d.kind, d.iter) = {}
    BY <1>3, FirstDecision
  <2>2. \A kind, i : DecidedOn(kind, i) # {} => DecidedOn(kind, i)' = DecidedOn(kind, i)
    BY <2>1 DEF DecidedOn
  <2> QED
    BY <2>1, <2>2 DEF Settled
<1> QED
  BY <1>1, <1>2, <1>3, ReviewFrame

\* Transactions reach the disk by way of the process.
LEMMA TxsComeFromJobs ==
  ASSUME [Next]_vars
  PROVE  /\ txs' \cup orphans' \subseteq txs \cup orphans \cup {job}
         /\ WriteMarker \/ txs' = txs
<1>1. CASE WriteRecords \/ WriteMarker
  BY <1>1 DEF WriteRecords, WriteMarker
<1>2. CASE ~(WriteRecords \/ WriteMarker)
  BY <1>2 DEF Next, Start, StartFresh, StartResume, Step, Reconcile, Finish,
     CommitBundle, CasHistory, CasSwap, WriteQuarantine, TeacherFails, Synthesize,
     CreateRequest, TrainFails, TrainAndEvaluate, DataApproved, ModelApproved,
     Denied, Expired, ApprovalRefused, Human, Review, Tick, Crash, vars, disk
<1> QED
  BY <1>1, <1>2

LEMMA RecordsSettledStays ==
  ASSUME IInv, VInv, [Next]_vars
  PROVE  RecordsSettled'
<1>1. OneDecision'
  BY OneDecisionStays DEF VInv, RecordsSettled
<1>2. ASSUME NEW t \in txs \cup orphans \cup {job}
      PROVE  Settled(t)' /\ Shown(t)
  BY SettledStays DEF VInv, RecordsSettled, HeldSettled
<1>3. ASSUME NEW t \in txs' \cup orphans'
      PROVE  Shown(t)' /\ Settled(t)'
  BY <1>2, TxsComeFromJobs DEF Shown, Opens
<1>4. CASE WriteMarker
  <2>1. txs' = txs \cup {job} /\ Consistent(job)
    BY <1>4 DEF WriteMarker, VInv, HeldSettled
  <2>2. \A kind, i : Opened(kind, i) => Opened(kind, i)'
    BY <2>1 DEF Opened
  <2>3. ASSUME NEW t \in txs', NEW u \in txs', NEW kind \in Kinds, NEW i \in Iterations,
               Answers(t, kind, i)
        PROVE  Opened(kind, i)' /\ (Answers(u, kind, i) => Agree(t, u))
    <3>1. t \in txs \/ t = job
      BY <2>1
    <3>2. u \in txs \/ u = job
      BY <2>1
    <3>3. Consistent(t) /\ Consistent(u)
      BY <2>1, <3>1, <3>2 DEF VInv, RecordsSettled
    <3> QED
      BY <2>2, <2>3, <3>1, <3>2, <3>3 DEF Consistent, Agree
  <2>4. \A t \in txs' : Consistent(t)'
    BY <2>3 DEF Consistent, Agree, Answers
  <2> QED
    BY <1>1, <1>3, <2>4 DEF RecordsSettled
<1>5. CASE txs' = txs
  <2>1. \A t \in txs' : Consistent(t)'
    BY <1>5 DEF VInv, RecordsSettled, Consistent, Opened
  <2> QED
    BY <1>1, <1>3, <2>1 DEF RecordsSettled
<1> QED
  BY <1>4, <1>5, TxsComeFromJobs

-----------------------------------------------------------------------------
(* The three ways the process moves, for the second invariant.             *)

LEMMA EndsSettled ==
  ASSUME NEW how \in Idle, NEW why, Ends(how, why)
  PROVE  HeldSettled'
<1>1. job' = NoTx /\ mem' = NoSnapshot /\ pc' \in Idle
  BY DEF Ends
<1>2. NoTx.tag = "none" /\ NoTx.snaps = {} /\ NoSnapshot.state \notin Pending
  BY DEF NoTx, NoSnapshot, Pending
<1>3. Idle \cap {"commit", "marker"} = {}
  BY DEF Idle
<1>4. \A kind, i : ~Answers(job', kind, i)
  BY <1>1, <1>2, NoAnswer
<1> QED
  BY <1>1, <1>2, <1>3, <1>4 DEF HeldSettled, Shown, Settled

LEMMA GotoSettled ==
  ASSUME HeldSettled, NEW label, Goto(label), label \notin Committing,
         pc \notin Idle \cup Committing, txs' = txs, decisions' = decisions, wall' = wall
  PROVE  HeldSettled'
<1>1. pc' = label /\ job' = job /\ mem' = mem
  BY DEF Goto
<1>2. Shown(job)' /\ Settled(job)'
  BY <1>1 DEF HeldSettled, Shown, Opens, Settled, DecidedOn
<1>3. mem.state \in Pending =>
        /\ Opened(KindOf(mem), mem.iteration)'
        /\ \A t \in txs' : Answers(t, KindOf(mem), mem.iteration)' =>
                             t.tag # "approval-expired-stop"
  BY <1>1 DEF HeldSettled, Opened, KindOf, Answers
<1> QED
  BY <1>1, <1>2, <1>3 DEF HeldSettled, Committing

LEMMA SubmitSettled ==
  ASSUME NEW label \in {"request", "commit"}, NEW tx, NEW result, NEW what,
         Submit(label, tx, result, what), txs' = txs, decisions' = decisions, wall' = wall,
         Shown(tx), Settled(tx), Consistent(tx),
         result.state \in Pending => Opens(tx, result)
  PROVE  HeldSettled'
<1>1. pc' = label /\ job' = tx /\ mem' = result
  BY DEF Submit
<1>2. Shown(job)' /\ Settled(job)' /\ Consistent(job)'
  BY <1>1 DEF Shown, Opens, Settled, DecidedOn, Consistent, Opened
<1>3. result.state \in Pending => Opens(job, mem)'
  BY <1>1 DEF Opens
<1> QED
  BY <1>1, <1>2, <1>3 DEF HeldSettled, Committing

-----------------------------------------------------------------------------
(* The second invariant is inductive: the handlers that hand over a        *)
(* transaction.                                                            *)

\* _abort_before_candidate and _abort_after_data answer no request.
LEMMA AbortSettled ==
  ASSUME NEW tag \in {"pre-candidate-abort", "candidate-execution-abort"}, NEW i,
         NEW base \in SnapshotType, NEW at, NEW cost, NEW stop,
         LET s == Terminal(base, "ABORTED", at, cost, stop)
         IN  Submit("commit", Tx(tag, i, "controller", {s}), s, NoMeta),
         txs' = txs, decisions' = decisions, wall' = wall
  PROVE  HeldSettled'
<1> DEFINE s  == Terminal(base, "ABORTED", at, cost, stop)
           tx == Tx(tag, i, "controller", {s})
<1>1. s.state = "ABORTED"
  BY DEF Terminal, SnapshotType
<1>2. tx.tag = tag /\ tx.snaps = {s}
  BY DEF Tx
<1>3. Submit("commit", tx, s, NoMeta)
  OBVIOUS
<1> HIDE DEF s, tx
<1>4. Shown(tx) /\ s.state \notin Pending
  BY <1>1, <1>2 DEF Shown, Pending
<1>5. Settled(tx) /\ Consistent(tx)
  BY <1>2, NoAnswer
<1> QED
  BY <1>3, <1>4, <1>5, SubmitSettled

\* A dataset is put to the reviewer with its "data" transaction, or not at
\* all.
LEMMA SynthesizeSettled == ASSUME IInv, Synthesize PROVE HeldSettled'
<1> DEFINE i == mem.iteration
<1>1. txs' = txs /\ decisions' = decisions /\ wall' = wall /\ mem \in SnapshotType
  BY HeldOK DEF Synthesize
<1>2. PICK b : \/ \E stop : AbortBefore(stop)
               \/ \E quality : RejectDataset(b, quality)
               \/ AdmitDataset(b)
  BY DEF Synthesize
<1> DEFINE stages == DataStages(mem, DataMeta(b))
<1>3. \A s \in stages : s.state \in {"HYPOTHESIS", "SYNTHESIZE", "VERIFY"}
  BY <1>1 DEF DataStages, Snapshot, SnapshotType
<1> HIDE DEF stages
<1>4. CASE \E stop : AbortBefore(stop)
  <2>1. [mem EXCEPT !.meta = NoMeta] \in SnapshotType
    BY <1>1, NoMetaType DEF SnapshotType
  <2> QED
    BY <1>1, <1>4, <2>1, AbortSettled DEF AbortBefore
<1>5. CASE \E quality : RejectDataset(b, quality)
  <2>1. PICK quality : RejectDataset(b, quality)
    BY <1>5
  <2> DEFINE stop == IF quality = "none" THEN "NO_ACCEPTED_DATA" ELSE "LOW_ACCEPTANCE"
             q    == Snapshot(mem, "QUARANTINED", At(i, 50), None, 0, DataMeta(b))
             base == [mem EXCEPT !.meta = DataMeta(b)]
             s    == Terminal(base, "STOPPED", At(i, 51), mem.cost + b.cost, stop)
             tx   == Tx("data", i, "adapter", stages \cup {q, s})
             what == [NoMeta EXCEPT !.source = i, !.tag = "data", !.action = "QUARANTINE"]
  <2>2. Submit("commit", tx, s, what)
    BY <2>1 DEF RejectDataset, stages
  <2>3. q.state = "QUARANTINED" /\ s.state = "STOPPED"
    BY <1>1 DEF Snapshot, Terminal, SnapshotType
  <2>4. tx.tag = "data" /\ tx.snaps = stages \cup {q, s}
    BY DEF Tx
  <2> HIDE DEF q, s, tx, what
  <2>5. Shown(tx) /\ s.state \notin Pending
    BY <1>3, <2>3, <2>4 DEF Shown, Pending
  <2>6. Settled(tx) /\ Consistent(tx)
    BY <2>4, NoAnswer
  <2> QED
    BY <1>1, <2>2, <2>5, <2>6, SubmitSettled
<1>6. CASE AdmitDataset(b)
  <2> DEFINE m  == DataMeta(b)
             s  == IF DatasetReview
                   THEN Snapshot(mem, "DATA_REVIEW_PENDING", At(i, 50), None, 0, m)
                   ELSE TrainSnapshot(mem, At(i, 50), m)
             tx == Tx("data", i, "adapter", stages \cup {s})
             label == IF DatasetReview THEN "request" ELSE "commit"
  <2>1. Submit(label, tx, s, NoMeta)
    BY <1>6 DEF AdmitDataset, stages
  <2>2. s.state \in {"DATA_REVIEW_PENDING", "TRAIN"} /\ s.iteration = i
    BY <1>1 DEF Snapshot, TrainSnapshot, SnapshotType
  <2>3. /\ tx.tag = "data" /\ tx.snaps = stages \cup {s} /\ tx.iter = i
        /\ tx.origin = "adapter" /\ label \in {"request", "commit"}
    BY DEF Tx
  <2> HIDE DEF s, tx, label
  <2>4. s.state \in Pending => Opens(tx, s)
    BY <2>2, <2>3 DEF Opens, OpenerTag, KindOf, Pending
  <2>5. Shown(tx)
    BY <1>3, <2>3, <2>4 DEF Shown, Pending
  <2>6. Settled(tx) /\ Consistent(tx)
    BY <2>3, NoAnswer
  <2> QED
    BY <1>1, <2>1, <2>3, <2>4, <2>5, <2>6, SubmitSettled
<1> QED
  BY <1>2, <1>4, <1>5, <1>6

\* A decision of the policy is committed at once, or put to the reviewer with
\* the transaction "candidate-pending-review".
LEMMA TrainAndEvaluateSettled == ASSUME IInv, TrainAndEvaluate PROVE HeldSettled'
<1> DEFINE i == mem.iteration
<1>1. /\ txs' = txs /\ decisions' = decisions /\ wall' = wall
      /\ mem.state = "TRAIN" /\ i \in Iterations /\ mem.cost <= TotalBudget
      /\ DatasetReview => ApprovedRequest("DATASET", i)
  BY DEF TrainAndEvaluate, Training, disk, IInv, ProcessOK, Sound, Authorized
<1>2. /\ mem \in SnapshotType /\ i \in Nat /\ mem.meta \in MetaType
      /\ mem.meta.spent \in Nat /\ At(i, 70) \in Nat /\ At(i, 80) \in Nat
  BY HeldOK, AtIsNat
<1>3. PICK t \in Trials(i) :
        LET e      == EvaluateSnapshot(mem, i, t.score, mem.meta.spent + t.cost, At(i, 80))
            c      == Observation(mem, e)
            action == PrimaryAction(e, c)
            stages == {ServeSnapshot(mem), e}
        IN  IF action = "PROMOTE" /\ CheckpointReview
            THEN SubmitForReview(e, stages)
            ELSE SubmitDecision("candidate", e, Evaluate(e, c), action, "adapter", stages)
  BY DEF TrainAndEvaluate
<1>4. t.score \in Nat /\ t.cost \in Nat
  BY <1>1, <1>3, ControllerAssumption DEF Trials, IInv, WorldOK
<1> DEFINE spent  == mem.meta.spent + t.cost
           e      == EvaluateSnapshot(mem, i, t.score, spent, At(i, 80))
           c      == Observation(mem, e)
           action == PrimaryAction(e, c)
           serve  == ServeSnapshot(mem)
           stages == {serve, e}
<1>5. IF action = "PROMOTE" /\ CheckpointReview
      THEN SubmitForReview(e, stages)
      ELSE SubmitDecision("candidate", e, Evaluate(e, c), action, "adapter", stages)
  BY <1>3
<1>6. e.state = "EVALUATE" /\ serve.state = "SERVE" /\ e.iteration = i
  BY <1>2 DEF EvaluateSnapshot, ServeSnapshot, Snapshot, SnapshotType
<1>7. spent \in Nat
  BY <1>2, <1>4
<1> HIDE DEF spent
<1>8. /\ e \in SnapshotType /\ e.cost = mem.cost
      /\ e.cand = i /\ e.candScore = t.score /\ e.at = At(i, 80)
      /\ e.meta.ckpt = i /\ e.meta.spent = spent /\ e.meta.source = i
  <2>1. e = EvaluateSnapshot(mem, i, t.score, spent, At(i, 80))
    OBVIOUS
  <2> HIDE DEF e
  <2>2. mem \in SnapshotType /\ spent \in Nat
    BY <1>2, <1>7
  <2>3. i = mem.iteration /\ i \in Iterations /\ t.score \in Nat /\ At(i, 80) \in Nat
    BY <1>1, <1>2, <1>4
  <2> HIDE DEF i
  <2>4. Evaluates(e, mem, i, t.score, spent, At(i, 80))
    BY ONLY <2>1, <2>2, <2>3, EvaluateOf
  <2> QED
    BY ONLY <2>3, <2>4 DEF Evaluates
<1> HIDE DEF e
<1>9. /\ c.ckpt \in Nat /\ c.score \in Nat /\ c.cost \in Nat /\ c.at \in Nat
  BY <1>2, <1>4, <1>7, <1>8, ObservationOf
<1>10. \A s \in stages : s.state \notin Pending
  BY <1>6 DEF Pending
<1> HIDE DEF c, serve, stages
<1>11. CASE action = "PROMOTE" /\ CheckpointReview
  <2> DEFINE s  == Snapshot(e, "MODEL_REVIEW_PENDING", At(e.iteration, 90), e.cand,
                            e.candScore, e.meta)
             tx == Tx("candidate-pending-review", e.iteration, "adapter", stages \cup {s})
  <2>1. Submit("request", tx, s, NoMeta)
    BY <1>5, <1>11 DEF SubmitForReview
  <2>2. s.state = "MODEL_REVIEW_PENDING" /\ s.iteration = e.iteration
    BY <1>8 DEF Snapshot, SnapshotType
  <2>3. /\ tx.tag = "candidate-pending-review" /\ tx.snaps = stages \cup {s}
        /\ tx.iter = e.iteration /\ tx.origin = "adapter"
    BY DEF Tx
  <2> HIDE DEF s, tx
  <2>4. Opens(tx, s)
    BY <2>2, <2>3 DEF Opens, OpenerTag, KindOf
  <2>5. Shown(tx)
    BY <1>10, <2>3, <2>4 DEF Shown
  <2>6. Settled(tx) /\ Consistent(tx)
    BY <2>3, NoAnswer
  <2> QED
    BY <1>1, <2>1, <2>4, <2>5, <2>6, SubmitSettled
<1>12. CASE ~(action = "PROMOTE" /\ CheckpointReview)
  <2> DEFINE m    == Materialized(FinalSnapshot(Evaluate(e, c)), e, "candidate", action)
             more == PolicySnapshots(Evaluate(e, c), m)
             tx   == Tx("candidate", e.iteration, "adapter", stages \cup more)
  <2>1. Submit("commit", tx, m, m.meta)
    BY <1>5, <1>12 DEF SubmitDecision
  <2>2. m.state \notin Pending /\ \A s \in more : s.state \notin Pending
    BY <1>1, <1>6, <1>8, <1>9, <1>12, DecisionOK DEF Tags
  <2> HIDE DEF m, more
  <2>3. tx.tag = "candidate" /\ tx.snaps = stages \cup more
    BY DEF Tx
  <2> HIDE DEF tx
  <2>4. Shown(tx)
    BY <1>10, <2>2, <2>3 DEF Shown
  <2>5. Settled(tx) /\ Consistent(tx)
    BY <2>3, NoAnswer
  <2> QED
    BY <1>1, <2>1, <2>2, <2>4, <2>5, SubmitSettled
<1> QED
  BY <1>11, <1>12

\* What the status of the request a run waits on says of its decisions.
LEMMA StatusSays ==
  ASSUME IInv, OneDecision, mem.state \in Pending
  PROVE  LET kind == KindOf(mem)
             i    == mem.iteration
             D    == DecidedOn(kind, i)
         IN  /\ kind \in Kinds /\ i \in Iterations
             /\ StatusOf(mem) \in {"APPROVED", "DENIED"} =>
                  /\ D # {}
                  /\ \A d \in D : /\ d.approved = (StatusOf(mem) = "APPROVED")
                                  /\ d.at <= Later(wall, AskedAt(kind, i))
             /\ StatusOf(mem) = "EXPIRED" =>
                  \A d \in D : ~(d.at <= Later(wall, AskedAt(kind, i)))
<1> DEFINE kind == KindOf(mem)
           i    == mem.iteration
           D    == DecidedOn(kind, i)
           look == Later(wall, mem.at)
<1>1. mem.at = AskedAt(kind, i) /\ i \in Iterations /\ kind \in Kinds
  BY DEF IInv, ProcessOK, Sound, KindOf, Kinds
<1>2. DecisionsOn(RequestOf(mem)) = D
  BY DEF DecisionsOn, RequestOf, Request, DecidedOn
<1>3. \A d, e \in D : d = e
  BY DEF OneDecision, DecidedOn
<1>4. \A d \in D : d.approved \in BOOLEAN
  BY DEF DecidedOn, IInv, ReviewsOK, DecisionType
<1> HIDE DEF D, kind, i
<1>5. /\ StatusOf(mem) = "APPROVED" <=> /\ \E d \in D : d.at <= look
                                        /\ \E d \in D : d.approved
      /\ StatusOf(mem) = "DENIED" <=> /\ \E d \in D : d.at <= look
                                      /\ ~\E d \in D : d.approved
      /\ StatusOf(mem) = "EXPIRED" => ~\E d \in D : d.at <= look
  BY <1>2 DEF StatusOf, Status
<1> HIDE DEF look
<1>6. StatusOf(mem) \in {"APPROVED", "DENIED"} =>
        /\ D # {}
        /\ \A d \in D : d.at <= look
  BY <1>3, <1>5
<1>7. StatusOf(mem) = "APPROVED" => \A d \in D : d.approved = TRUE
  BY <1>3, <1>4, <1>5, Zenon
<1>8. StatusOf(mem) = "DENIED" => \A d \in D : d.approved = FALSE
  BY <1>4, <1>5, Zenon
<1>9. look = Later(wall, AskedAt(kind, i))
  BY <1>1 DEF look
<1> QED
  BY <1>1, <1>5, <1>6, <1>7, <1>8, <1>9 DEF D, kind, i

\* An answer to the review the run waits on.
LEMMA AnswerSettled ==
  ASSUME IInv, VInv, pc = "loop", mem.state \in Pending, NEW t,
         \A kind \in Kinds, i \in Iterations :
           Answers(t, kind, i) => kind = KindOf(mem) /\ i = mem.iteration,
         \/ /\ StatusOf(mem) = "APPROVED"
            /\ t.tag \notin {"approval-denied-stop", "approval-expired-stop"}
         \/ StatusOf(mem) = "DENIED" /\ t.tag = "approval-denied-stop"
         \/ /\ StatusOf(mem) = "EXPIRED" /\ t.tag = "approval-expired-stop"
            /\ \E s \in t.snaps : s.iteration = mem.iteration /\ s.at = At(mem.iteration, 120)
  PROVE  Settled(t) /\ Consistent(t)
<1> DEFINE K == KindOf(mem)
           I == mem.iteration
<1>1. /\ OneDecision
      /\ Opened(K, I)
      /\ \A u \in txs : Answers(u, K, I) => u.tag # "approval-expired-stop"
      /\ \A u \in txs : Settled(u)
  BY DEF VInv, RecordsSettled, HeldSettled, Idle, Committing
<1>2. /\ K \in Kinds /\ I \in Iterations
      /\ StatusOf(mem) \in {"APPROVED", "DENIED"} =>
           /\ DecidedOn(K, I) # {}
           /\ \A d \in DecidedOn(K, I) : /\ d.approved = (StatusOf(mem) = "APPROVED")
                                         /\ d.at <= Later(wall, AskedAt(K, I))
      /\ StatusOf(mem) = "EXPIRED" =>
           \A d \in DecidedOn(K, I) : ~(d.at <= Later(wall, AskedAt(K, I)))
  BY <1>1, StatusSays
<1> HIDE DEF K, I
<1>3. \A kind \in Kinds, i \in Iterations : Answers(t, kind, i) => kind = K /\ i = I
  BY DEF K, I
<1>4. CASE t.tag # "approval-expired-stop"
  <2>1. /\ StatusOf(mem) \in {"APPROVED", "DENIED"}
        /\ (StatusOf(mem) = "APPROVED") = (t.tag # "approval-denied-stop")
    BY <1>4
  <2>2. Settled(t)
    BY <1>2, <1>3, <1>4, <2>1 DEF Settled
  <2>3. Consistent(t)
    BY <1>1, <1>3, <1>4 DEF Consistent, Agree
  <2> QED
    BY <2>2, <2>3
<1>5. CASE t.tag = "approval-expired-stop"
  <2>1. /\ StatusOf(mem) = "EXPIRED"
        /\ \E s \in t.snaps : s.iteration = I /\ s.at = At(I, 120)
    BY <1>5 DEF I
  <2>2. Settled(t)
    BY <1>3, <1>5, <2>1 DEF Settled
  <2>3. ASSUME NEW u \in txs, Answers(u, K, I) PROVE FALSE
    <3>1. u.tag # "approval-expired-stop" /\ Settled(u)
      BY <1>1, <2>3
    <3>2. /\ DecidedOn(K, I) # {}
          /\ \A d \in DecidedOn(K, I) : d.at <= Later(wall, AskedAt(K, I))
      BY <1>2, <2>3, <3>1 DEF Settled
    <3> QED
      BY <1>2, <2>1, <3>2
  <2>4. Consistent(t)
    BY <1>1, <1>3, <2>3 DEF Consistent
  <2> QED
    BY <2>2, <2>4
<1> QED
  BY <1>4, <1>5

LEMMA DataApprovedSettled == ASSUME IInv, VInv, DataApproved PROVE HeldSettled'
<1> DEFINE s  == TrainSnapshot(mem, DecidedAt(mem), mem.meta)
           tx == Tx("data-review-approved", mem.iteration, "controller", {s})
<1>1. /\ txs' = txs /\ decisions' = decisions /\ wall' = wall
      /\ pc = "loop" /\ mem.state = "DATA_REVIEW_PENDING" /\ StatusOf(mem) = "APPROVED"
      /\ Submit("commit", tx, s, NoMeta)
  BY DEF DataApproved, Reviewing, disk, world
<1>2. s.state = "TRAIN"
  BY HeldOK DEF TrainSnapshot, Snapshot, SnapshotType
<1>3. tx.tag = "data-review-approved" /\ tx.iter = mem.iteration /\ tx.snaps = {s}
  BY DEF Tx
<1> HIDE DEF s, tx
<1>4. \A kind, i : Answers(tx, kind, i) => kind = KindOf(mem) /\ i = mem.iteration
  BY <1>1, <1>3 DEF Answers, KindOf
<1>5. Settled(tx) /\ Consistent(tx)
  BY <1>1, <1>3, <1>4, AnswerSettled DEF Pending
<1>6. Shown(tx) /\ s.state \notin Pending
  BY <1>2, <1>3 DEF Shown, Pending
<1> QED
  BY <1>1, <1>5, <1>6, SubmitSettled

LEMMA ModelApprovedSettled == ASSUME IInv, VInv, ModelApproved PROVE HeldSettled'
<1> DEFINE ckpt  == mem.meta.ckpt
           score == mem.meta.score
           spent == mem.meta.spent
           at    == DecidedAt(mem)
           e     == EvaluateSnapshot(mem, ckpt, score, spent, at)
           c     == Observation(mem, e)
           tag   == "model-review-approved"
<1>1. /\ txs' = txs /\ decisions' = decisions /\ wall' = wall
      /\ pc = "loop" /\ mem.state = "MODEL_REVIEW_PENDING" /\ StatusOf(mem) = "APPROVED"
  BY DEF ModelApproved, Reviewing, disk, world
<1>2. /\ PrimaryAction(e, c) = "PROMOTE"
      /\ SubmitDecision(tag, e, Evaluate(e, c), "PROMOTE", "controller", {e})
  BY DEF ModelApproved
<1>3. at \in Nat /\ ApprovedRequest("CHECKPOINT", mem.iteration)
  BY <1>1, AnswerOK DEF KindOf
<1>4. /\ mem.cost <= TotalBudget /\ mem.iteration \in Iterations /\ ckpt \in Iterations
      /\ mem \in SnapshotType /\ score \in Nat /\ spent \in Nat
  BY <1>1, HeldOK, MetaFields DEF IInv, ProcessOK, Sound, Pending
<1>5. e = EvaluateSnapshot(mem, ckpt, score, spent, at)
  OBVIOUS
<1> HIDE DEF e, ckpt, score, spent, at
<1>6. Evaluates(e, mem, ckpt, score, spent, at)
  BY ONLY <1>3, <1>4, <1>5, EvaluateOf
<1>7. /\ e \in SnapshotType
      /\ e.state = "EVALUATE" /\ e.iteration = mem.iteration /\ e.cost = mem.cost
      /\ e.cand = ckpt /\ e.candScore = score /\ e.at = at
      /\ e.meta.ckpt = ckpt /\ e.meta.spent = spent /\ e.meta.source = mem.iteration
  BY ONLY <1>6 DEF Evaluates
<1>8. /\ c.ckpt \in Nat /\ c.score \in Nat /\ c.cost \in Nat /\ c.at \in Nat
  BY <1>3, <1>4, <1>7, ObservationOf, IterationsAreNat
<1> HIDE DEF c
<1> DEFINE m    == Materialized(FinalSnapshot(Evaluate(e, c)), e, tag, "PROMOTE")
           more == PolicySnapshots(Evaluate(e, c), m)
           tx   == Tx(tag, e.iteration, "controller", {e} \cup more)
<1>9. Submit("commit", tx, m, m.meta)
  BY <1>2 DEF SubmitDecision
<1>10. m.state \notin Pending /\ \A s \in more : s.state \notin Pending
  <2>1. tag \in Tags
    BY DEF Tags
  <2> QED
    BY <1>2, <1>3, <1>4, <1>7, <1>8, <2>1, DecisionOK
<1> HIDE DEF m, more
<1>11. tx.tag = tag /\ tx.iter = mem.iteration /\ tx.snaps = {e} \cup more
  BY <1>7 DEF Tx
<1> HIDE DEF tx
<1>12. \A kind, i : Answers(tx, kind, i) => kind = KindOf(mem) /\ i = mem.iteration
  BY <1>1, <1>11 DEF Answers, KindOf
<1>13. Settled(tx) /\ Consistent(tx)
  BY <1>1, <1>11, <1>12, AnswerSettled DEF Pending
<1>14. Shown(tx)
  BY <1>7, <1>10, <1>11 DEF Shown, Pending
<1> QED
  BY <1>1, <1>9, <1>10, <1>13, <1>14, SubmitSettled

LEMMA RefusedSettled ==
  ASSUME IInv, VInv, NEW status, NEW tag, NEW at, ApprovalRefused(status, tag, at),
         \/ status = "DENIED" /\ tag = "approval-denied-stop"
         \/ /\ status = "EXPIRED" /\ tag = "approval-expired-stop"
            /\ at = At(mem.iteration, 120)
  PROVE  HeldSettled'
<1> DEFINE s    == Terminal(mem, "STOPPED", at, mem.cost + mem.meta.spent, "APPROVAL_NOT_GRANTED")
           tx   == Tx(tag, mem.iteration, "controller", {s})
           what == [mem.meta EXCEPT !.tag = tag,
                                    !.action = IF mem.cand = None THEN "QUARANTINE" ELSE "REJECT"]
<1>1. /\ txs' = txs /\ decisions' = decisions /\ wall' = wall
      /\ pc = "loop" /\ mem.state \in Pending /\ StatusOf(mem) = status
      /\ Submit("commit", tx, s, what)
  BY DEF ApprovalRefused, Reviewing, disk, world
<1>2. s.state = "STOPPED" /\ s.cand = mem.cand /\ s.iteration = mem.iteration /\ s.at = at
  BY HeldOK DEF Terminal, SnapshotType
<1>3. tx.tag = tag /\ tx.iter = mem.iteration /\ tx.snaps = {s}
  BY DEF Tx
<1>4. (mem.cand = None <=> KindOf(mem) = "DATASET") /\ KindOf(mem) \in {"DATASET", "CHECKPOINT"}
  BY <1>1 DEF IInv, ProcessOK, Sound, KindOf
<1> HIDE DEF s, tx, what
<1>5. \A kind, i : Answers(tx, kind, i) => kind = KindOf(mem) /\ i = mem.iteration
  BY <1>2, <1>3, <1>4 DEF Answers
<1>6. Settled(tx) /\ Consistent(tx)
  BY <1>1, <1>2, <1>3, <1>5, AnswerSettled
<1>7. Shown(tx) /\ s.state \notin Pending
  BY <1>2, <1>3 DEF Shown, Pending
<1> QED
  BY <1>1, <1>6, <1>7, SubmitSettled

-----------------------------------------------------------------------------
(* ... and those that carry it to the disk.                                *)

LEMMA StartFreshSettled == ASSUME StartFresh PROVE HeldSettled'
<1>1. /\ pc' = "commit" /\ mem' = BootDiagnose /\ txs' = txs
      /\ job' = Tx("bootstrap", 0, "controller", {BootPromoted, BootDiagnose})
  BY DEF StartFresh, disk
<1>2. BootPromoted.state = "PROMOTED" /\ BootDiagnose.state = "DIAGNOSE"
  BY DEF BootPromoted, BootDiagnose, NoSnapshot
<1>3. job'.tag = "bootstrap" /\ job'.snaps = {BootPromoted, BootDiagnose}
  BY <1>1 DEF Tx
<1>4. \A kind, i : ~Answers(job', kind, i)
  BY <1>3, NoAnswer
<1>5. Shown(job)' /\ Settled(job)' /\ Consistent(job)'
  BY <1>2, <1>3, <1>4 DEF Shown, Settled, Consistent, Pending
<1> QED
  BY <1>1, <1>2, <1>5 DEF HeldSettled, Committing, Pending

\* A review that is resumed has not been given up: whoever gave it up has
\* committed a snapshot later than the pending one.
LEMMA StartResumeSettled == ASSUME IInv, VInv, StartResume PROVE HeldSettled'
<1>1. PICK s \in LatestSnapshots : mem' = s
  BY DEF StartResume
<1>2. /\ pc' = "reconcile" /\ job' = job /\ txs' = txs /\ decisions' = decisions
      /\ wall' = wall
  BY DEF StartResume, disk, world
<1>3. PICK t \in txs : s \in t.snaps
  BY <1>1 DEF LatestSnapshots, Committed
<1>4. s.state \in Pending => Opened(KindOf(s), s.iteration)
  BY <1>3 DEF VInv, RecordsSettled, Shown, Opens, Opened
<1>5. ASSUME s.state \in Pending, NEW u \in txs, Answers(u, KindOf(s), s.iteration),
             u.tag = "approval-expired-stop"
      PROVE  FALSE
  <2>1. Sound(s)
    BY <1>3 DEF IInv, RecordsOK, Keeps
  <2>2. /\ s.iteration \in Iterations /\ s.iteration \in Nat
        /\ s.at = AskedAt(KindOf(s), s.iteration) /\ KindOf(s) \in Kinds
    BY <1>5, <2>1, IterationsAreNat DEF Sound, KindOf, Kinds
  <2>3. PICK z \in u.snaps : z.iteration = s.iteration /\ z.at = At(s.iteration, 120)
    BY <1>5, <2>2 DEF VInv, RecordsSettled, Settled
  <2>4. Before(s, z)
    BY <2>2, <2>3 DEF Before, AskedAt, At
  <2>5. z \in Committed
    BY <1>5, <2>3 DEF Committed
  <2> QED
    BY <1>1, <2>4, <2>5 DEF LatestSnapshots
<1>6. Shown(job)' /\ Settled(job)'
  BY <1>2 DEF VInv, HeldSettled, Shown, Opens, Settled, DecidedOn
<1>7. mem'.state \in Pending =>
        /\ Opened(KindOf(mem), mem.iteration)'
        /\ \A u \in txs' : Answers(u, KindOf(mem), mem.iteration)' =>
                             u.tag # "approval-expired-stop"
  BY <1>1, <1>2, <1>4, <1>5 DEF Opened, KindOf, Answers
<1> QED
  BY <1>2, <1>6, <1>7 DEF HeldSettled, Committing

\* A pending snapshot is new when it is handed over, and nothing answers it.
LEMMA CreateRequestSettled == ASSUME IInv, VInv, CreateRequest PROVE HeldSettled'
<1>1. /\ pc = "request" /\ pc' = "commit" /\ mem' = mem /\ job' = job
      /\ txs' = txs /\ decisions' = decisions /\ wall' = wall /\ mem.state \in Pending
  BY DEF CreateRequest, Goto, world, IInv, ProcessOK
<1>2. Opens(job, mem) /\ Shown(job)
  BY <1>1 DEF VInv, HeldSettled, Committing
<1>3. job.tag \in {"data", "candidate-pending-review"}
  BY <1>2 DEF Opens, OpenerTag
<1>4. \A kind, i : ~Answers(job', kind, i)
  BY <1>1, <1>3, NoAnswer
<1>5. Shown(job)' /\ Settled(job)' /\ Consistent(job)'
  BY <1>1, <1>2, <1>4 DEF Shown, Opens, Settled, Consistent
<1>6. Opens(job, mem)'
  BY <1>1, <1>2 DEF Opens
<1> QED
  BY <1>1, <1>5, <1>6 DEF HeldSettled, Committing

\* What waits for a reviewer is an adapter's and is never committed again.
LEMMA WriteRecordsSettled == ASSUME IInv, VInv, WriteRecords PROVE HeldSettled'
<1>1. pc = "commit" /\ txs' = txs /\ decisions' = decisions /\ wall' = wall
  BY DEF WriteRecords, world
<1>2. CASE Conflicts(job)
  BY <1>2, EndsSettled DEF WriteRecords, Idle
<1>3. CASE ~Conflicts(job) /\ job \in txs
  <2>1. job.origin # "adapter"
    BY <1>3 DEF Conflicts, SameId
  <2>2. mem.state \notin Pending
    BY <1>1, <2>1 DEF VInv, HeldSettled, Committing, Opens
  <2>3. pc' = AfterCommit /\ job' = job /\ mem' = mem
    BY <1>3 DEF WriteRecords, Goto
  <2>4. AfterCommit \in {"bundle", "train", "mark", "reconcile"}
    BY <1>1, AfterCommitOK DEF IInv
  <2>5. Shown(job)' /\ Settled(job)'
    BY <1>1, <2>3 DEF VInv, HeldSettled, Shown, Opens, Settled, DecidedOn
  <2> HIDE DEF AfterCommit
  <2> QED
    BY <2>2, <2>3, <2>4, <2>5 DEF HeldSettled, Committing
<1>4. CASE ~Conflicts(job) /\ job \notin txs
  <2>1. pc' = "marker" /\ job' = job /\ mem' = mem
    BY <1>4 DEF WriteRecords, Goto
  <2>2. /\ Shown(job)' /\ Settled(job)' /\ Consistent(job)'
        /\ mem.state \in Pending => Opens(job, mem)'
    BY <1>1, <2>1 DEF VInv, HeldSettled, Shown, Opens, Settled, DecidedOn, Consistent, Opened,
       Committing
  <2> QED
    BY <2>1, <2>2 DEF HeldSettled, Committing
<1> QED
  BY <1>2, <1>3, <1>4

\* A review begins with its transaction's marker, and before that nobody can
\* have answered it.
LEMMA WriteMarkerSettled == ASSUME IInv, VInv, WriteMarker PROVE HeldSettled'
<1>1. /\ pc = "marker" /\ txs' = txs \cup {job} /\ decisions' = decisions /\ wall' = wall
      /\ pc' = AfterCommit /\ job' = job /\ mem' = mem
  BY DEF WriteMarker, Goto, world
<1>2. job \in orphans /\ job \notin txs
  BY <1>1 DEF IInv, ProcessOK, RecordsOK
<1>3. AfterCommit \in {"bundle", "train", "mark", "reconcile"}
  BY <1>1, AfterCommitOK DEF IInv
<1>4. Shown(job)' /\ Settled(job)'
  BY <1>1 DEF VInv, HeldSettled, Shown, Opens, Settled, DecidedOn
<1>5. ASSUME mem.state \in Pending
      PROVE  /\ Opened(KindOf(mem), mem.iteration)'
             /\ \A t \in txs' : ~Answers(t, KindOf(mem), mem.iteration)'
  <2> DEFINE K == KindOf(mem)
             I == mem.iteration
  <2>1. Opens(job, mem)
    BY <1>1, <1>5 DEF VInv, HeldSettled, Committing
  <2>2. job.tag = OpenerTag(K) /\ job.iter = I
    BY <2>1 DEF Opens
  <2>3. K \in Kinds /\ I \in Iterations
    BY <1>5 DEF IInv, ProcessOK, Sound, KindOf, Kinds
  <2>4. K' = K /\ I' = I
    BY <1>1 DEF KindOf
  <2> HIDE DEF K, I
  <2>5. Opened(K, I)'
    BY <1>1, <2>2, <2>4 DEF Opened
  <2>6. job.tag \in {"data", "candidate-pending-review"}
    BY <2>2 DEF OpenerTag
  <2>7. ~Answers(job, K, I)
    BY <2>6, NoAnswer
  <2>8. ASSUME NEW t \in txs, Answers(t, K, I) PROVE FALSE
    <3>1. Opened(K, I)
      BY <2>3, <2>8 DEF VInv, RecordsSettled, Consistent
    <3>2. PICK u \in txs : SameId(u, job)
      BY <2>2, <3>1 DEF Opened, SameId
    <3> QED
      BY <1>2, <3>2 DEF IInv, RecordsOK
  <2>9. \A t \in txs' : ~Answers(t, K, I)
    BY <1>1, <2>7, <2>8
  <2>10. \A t \in txs' : ~Answers(t, K, I)'
    BY <2>4, <2>9 DEF Answers
  <2> QED
    BY <2>5, <2>10 DEF K, I
<1> HIDE DEF AfterCommit
<1> QED
  BY <1>1, <1>3, <1>4, <1>5 DEF HeldSettled, Committing

\* Reconciliation and materialization touch no review.
LEMMA MaterializeSettled ==
  ASSUME IInv, VInv,
         Reconcile \/ CommitBundle \/ CasHistory \/ CasSwap \/ WriteQuarantine
  PROVE  HeldSettled'
<1>1. /\ txs' = txs /\ decisions' = decisions /\ wall' = wall
      /\ pc \notin Idle \cup Committing
  BY DEF Reconcile, CommitBundle, CasHistory, CasSwap, WriteQuarantine, disk, world, Idle,
     Committing
<1>2. \/ back \in {"loop", "reconcile"} /\ target.action \in Decided
      \/ pc # "bundle"
  BY DEF IInv, ProcessOK
<1>3. \/ \E why : Ends("failed", why)
      \/ \E label \in {"loop", "reconcile", "cas", "swap", "mark"} : Goto(label)
      \/ /\ Reconcile /\ pc' = "bundle" /\ job' = job /\ mem' = mem
  <2>1. CASE CommitBundle
    BY <1>2, <2>1 DEF CommitBundle, Decided
  <2>2. CASE Reconcile
    BY <2>2 DEF Reconcile
  <2>3. CASE CasHistory \/ CasSwap \/ WriteQuarantine
    <3>1. back \in {"loop", "reconcile"}
      BY DEF IInv, ProcessOK
    <3> QED
      BY <2>3, <3>1 DEF CasHistory, CasSwap, WriteQuarantine
  <2> QED
    BY <2>1, <2>2, <2>3
<1>4. CASE \E why : Ends("failed", why)
  BY <1>4, EndsSettled DEF Idle
<1>5. CASE \E label \in {"loop", "reconcile", "cas", "swap", "mark"} : Goto(label)
  BY <1>1, <1>5, GotoSettled DEF VInv, Committing
<1>6. CASE Reconcile /\ pc' = "bundle" /\ job' = job /\ mem' = mem
  <2>1. Shown(job)' /\ Settled(job)'
    BY <1>1, <1>6 DEF VInv, HeldSettled, Shown, Opens, Settled, DecidedOn
  <2>2. mem.state \in Pending =>
          /\ Opened(KindOf(mem), mem.iteration)'
          /\ \A t \in txs' : Answers(t, KindOf(mem), mem.iteration)' =>
                               t.tag # "approval-expired-stop"
    BY <1>1, <1>6 DEF VInv, HeldSettled, Opened, KindOf, Answers
  <2> QED
    BY <1>6, <2>1, <2>2 DEF HeldSettled, Committing
<1> QED
  BY <1>3, <1>4, <1>5, <1>6

\* A reviewer, the clock and a step that changes nothing leave the process
\* where it is.
LEMMA StandingSettled ==
  ASSUME IInv, VInv, [Next]_vars, UNCHANGED <<txs, pc, mem, job>>
  PROVE  HeldSettled'
<1>1. Settled(job)'
  <2>1. \A t : t = job => Settled(t)'
    BY SettledStays DEF VInv, HeldSettled
  <2> QED
    BY <2>1 DEF Settled
<1>2. Shown(job)' /\ (Consistent(job) => Consistent(job)') /\ (Opens(job, mem) => Opens(job, mem)')
  BY DEF VInv, HeldSettled, Shown, Opens, Consistent, Opened
<1>3. pc \notin Idle \cup Committing /\ mem.state \in Pending =>
        /\ Opened(KindOf(mem), mem.iteration)'
        /\ \A t \in txs' : Answers(t, KindOf(mem), mem.iteration)' =>
                             t.tag # "approval-expired-stop"
  BY DEF VInv, HeldSettled, Opened, KindOf, Answers
<1> QED
  BY <1>1, <1>2, <1>3 DEF VInv, HeldSettled

LEMMA NextVInv == IInv /\ VInv /\ [Next]_vars => VInv'
<1> SUFFICES ASSUME IInv, VInv, [Next]_vars PROVE VInv'
  OBVIOUS
<1>1. SUFFICES HeldSettled'
  BY RecordsSettledStays DEF VInv
<1>2. CASE Start
  BY <1>2, StartFreshSettled, StartResumeSettled DEF Start
<1>3. CASE Finish \/ Crash
  BY <1>3, EndsSettled DEF Finish, Crash, Idle
<1>4. CASE TeacherFails \/ TrainFails
  <2>1. /\ mem \in SnapshotType /\ [mem EXCEPT !.meta = NoMeta] \in SnapshotType
        /\ txs' = txs /\ decisions' = decisions /\ wall' = wall
    BY <1>4, HeldOK, NoMetaType DEF TeacherFails, TrainFails, disk, world, SnapshotType
  <2> QED
    BY <1>4, <2>1, AbortSettled DEF TeacherFails, TrainFails, AbortBefore
<1>5. CASE Denied \/ Expired
  BY <1>5, RefusedSettled DEF Denied, Expired
<1>6. CASE Human \/ Tick \/ UNCHANGED vars
  BY <1>6, StandingSettled DEF Human, Review, Tick, vars, disk, process
<1>7. CASE Reconcile \/ CommitBundle \/ CasHistory \/ CasSwap \/ WriteQuarantine
  BY <1>7, MaterializeSettled
<1>8. CASE WriteRecords \/ WriteMarker \/ CreateRequest \/ Synthesize \/ TrainAndEvaluate
           \/ DataApproved \/ ModelApproved
  BY <1>8, WriteRecordsSettled, WriteMarkerSettled, CreateRequestSettled, SynthesizeSettled,
     TrainAndEvaluateSettled, DataApprovedSettled, ModelApprovedSettled
<1> QED
  BY <1>2, <1>3, <1>4, <1>5, <1>6, <1>7, <1>8 DEF Next, Step

-----------------------------------------------------------------------------
(* The theorems.                                                           *)

\* Every step of the process, the reviewers, the clock, a crash and a restart
\* preserves the invariant.
LEMMA NextIInv == IInv /\ [Next]_vars => IInv'
<1> SUFFICES ASSUME IInv, [Next]_vars PROVE IInv'
  OBVIOUS
<1>1. CASE Start
  BY <1>1, StartFreshKeeps, StartResumeKeeps DEF Start
<1>2. CASE Step
  BY <1>2, ReconcileKeeps, FinishKeeps, WriteRecordsKeeps, WriteMarkerKeeps,
     CommitBundleKeeps, CasHistoryKeeps, CasSwapKeeps, WriteQuarantineKeeps,
     TeacherFailsKeeps, SynthesizeKeeps, CreateRequestKeeps, TrainFailsKeeps,
     TrainAndEvaluateKeeps, DataApprovedKeeps, ModelApprovedKeeps, DeniedKeeps, ExpiredKeeps
  DEF Step
<1>3. CASE Human
  BY <1>3, ReviewKeeps DEF Human
<1>4. CASE Tick
  BY <1>4, TickKeeps
<1>5. CASE Crash
  BY <1>5, CrashKeeps
<1>6. CASE UNCHANGED vars
  BY <1>6, StutterKeeps
<1> QED
  BY <1>1, <1>2, <1>3, <1>4, <1>5, <1>6 DEF Next

\* Every snapshot held anywhere, in the files or by the process, is sound and
\* authorized after every step of the run, of a reviewer and of a crash.
THEOREM Invariance == Spec => []IInv
<1>1. Init => IInv
  BY InitIInv
<1>2. IInv /\ [Next]_vars => IInv'
  BY NextIInv
<1> QED
  BY <1>1, <1>2, PTL DEF Spec

\* A review is begun by one transaction and answered after it; what answers it
\* rests on the only decision there is, or on a snapshot later than the review.
THEOREM VerdictInvariance == Spec => []VInv
<1>1. Init => VInv
  <2>1. /\ NoTx.tag = "none" /\ NoTx.snaps = {} /\ NoSnapshot.state \notin Pending
        /\ "down" \in Idle /\ "down" \notin {"commit", "marker"}
    BY DEF NoTx, NoSnapshot, Pending, Idle
  <2>2. \A kind, i : ~Answers(NoTx, kind, i)
    BY <2>1, NoAnswer
  <2> QED
    BY <2>1, <2>2 DEF Init, VInv, RecordsSettled, HeldSettled, OneDecision, Shown, Settled
<1>2. IInv /\ VInv /\ [Next]_vars => VInv'
  BY NextVInv
<1> QED
  BY <1>1, <1>2, Invariance, PTL DEF Spec

\* Every variable of the controller keeps its type, and no transaction id is
\* ever given to two different transactions.
THEOREM TypeCorrect == Spec => []TypeOK
<1>1. IInv => TypeOK
  BY DEF IInv, TypeOK, RecordsOK, PeakOK, ReviewsOK, WorldOK, ProcessOK, Sound, Labels
<1> QED
  BY <1>1, Invariance, PTL

\* However often the run is cut off, resumed and reviewed, its recorded cost
\* crosses the total budget in an ABORTED snapshot or nowhere.
THEOREM BudgetKept == Spec => []BudgetRespected
<1>1. IInv => BudgetRespected
  BY DEF IInv, RecordsOK, Keeps, Sound, BudgetRespected, Committed
<1> QED
  BY <1>1, Invariance, PTL

\* With review switched on, nothing is trained on and no candidate becomes the
\* Peak without the approval of exactly that dataset or checkpoint
\* (require_approved), for any deadline, any clock and any crashes.
THEOREM AuthorityHeld == Spec => []HumanAuthority
BY Invariance, PTL DEF IInv

\* The run answers a review once, as the only decision on it says or by giving
\* it up, however late, early or far apart on the clock a decision is linked:
\* it never goes on with what it also stopped over.
THEOREM VerdictsAgree == Spec => []OneVerdict
<1> SUFFICES ASSUME IInv, VInv PROVE OneVerdict
  BY Invariance, VerdictInvariance, PTL
<1> SUFFICES ASSUME NEW kind \in Kinds, NEW i \in Iterations, NEW t \in txs,
                    Answers(t, kind, i)
             PROVE  /\ \A u \in txs : Answers(u, kind, i) => u = t
                    /\ t.tag # "approval-expired-stop" =>
                         {d.approved : d \in DecidedOn(kind, i)}
                           = {t.tag # "approval-denied-stop"}
  BY DEF OneVerdict, Kinds, DecidedOn
<1>1. Settled(t) /\ Consistent(t)
  BY DEF VInv, RecordsSettled
<1>2. ASSUME NEW u \in txs, Answers(u, kind, i) PROVE u = t
  <2>1. Agree(t, u)
    BY <1>1, <1>2 DEF Consistent
  <2>2. CASE t.tag # "approval-expired-stop" /\ u.tag # "approval-expired-stop"
    <3>1. PICK d \in DecidedOn(kind, i) : d.approved = (t.tag # "approval-denied-stop")
      BY <1>1, <2>2 DEF Settled
    <3>2. d.approved = (u.tag # "approval-denied-stop")
      BY <1>2, <2>2, <3>1 DEF VInv, RecordsSettled, Settled
    <3>3. t.tag = "approval-denied-stop" <=> u.tag = "approval-denied-stop"
      BY <3>1, <3>2
    <3>4. t.tag = u.tag /\ t.iter = u.iter
      BY <1>2, <2>2, <3>3 DEF Answers
    <3> QED
      BY <3>4 DEF IInv, RecordsOK, SameId
  <2> QED
    BY <2>1, <2>2 DEF Agree
<1>3. t.tag # "approval-expired-stop" =>
        {d.approved : d \in DecidedOn(kind, i)} = {t.tag # "approval-denied-stop"}
  BY <1>1 DEF Settled
<1> QED
  BY <1>2, <1>3

\* The swap is the only step the abstract register sees; the compare of the
\* compare_and_swap is still true when it happens.
LEMMA SwapAdvances ==
  ASSUME IInv, CasSwap
  PROVE  Register!Next
<1>1. /\ pointer' = TargetPointer /\ CasAllowed(TargetPointer)
      /\ TargetPointer.ckpt \in 0..MaxIterations /\ TargetPointer \in PointerType
  BY TargetPointerType DEF CasSwap, IInv, ProcessOK, TargetPointer
<1>2. PointerView' = [ckpt |-> TargetPointer.ckpt, prev |-> TargetPointer.prev,
                      iter |-> TargetPointer.iter, score |-> TargetPointer.score]
  BY <1>1 DEF PointerView
<1>3. CASE pointer = NoPointer
  <2>1. TargetPointer.prev = None
    BY <1>1, <1>3, EmptyValues DEF CasAllowed
  <2>2. Register!Install(PointerView')
    BY <1>1, <1>2, <1>3, <2>1 DEF Register!Install, Register!Empty, PointerView, NoPointer
  <2> QED
    BY <2>2 DEF Register!Next
<1>4. CASE pointer # NoPointer
  <2>1. pointer.ckpt \in 0..MaxIterations /\ pointer \in PointerType
    BY <1>4 DEF IInv, PeakOK
  <2>2. Register!Advance(PointerView')
    BY <1>1, <1>2, <1>4, <2>1 DEF Register!Advance, PointerView, CasAllowed, PointerType
  <2> QED
    BY <2>2 DEF Register!Next
<1> QED
  BY <1>3, <1>4

\* The Peak pointer of a run that crashes, resumes and repeats its writes
\* implements the register: it only ever moves to a successor with a strictly
\* higher score (docs/lineage-runtime.md, section 3).
THEOREM PeakImplementsRegister == Spec => PeakIsRegister
<1>1. Init => Register!Init
  BY DEF Init, Register!Init, Register!Empty, PointerView, NoPointer
<1>2. IInv /\ [Next]_vars => [Register!Next]_PointerView
  <2> SUFFICES ASSUME IInv, [Next]_vars, PointerView' # PointerView PROVE Register!Next
    OBVIOUS
  <2>1. pointer' # pointer
    BY DEF PointerView
  <2>2. CasSwap
    BY <2>1 DEF Next, Start, StartFresh, StartResume, Step, Reconcile, Finish, WriteRecords,
       WriteMarker, CommitBundle, CasHistory, WriteQuarantine, TeacherFails, Synthesize,
       CreateRequest, TrainFails, TrainAndEvaluate, DataApproved, ModelApproved, Denied,
       Expired, ApprovalRefused, Human, Review, Tick, Crash, vars, disk
  <2> QED
    BY <2>2, SwapAdvances
<1> QED
  BY <1>1, <1>2, Invariance, PTL DEF Spec, PeakIsRegister, Register!Spec

=============================================================================
