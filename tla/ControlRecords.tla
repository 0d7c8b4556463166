--------------------------- MODULE ControlRecords ---------------------------
(***************************************************************************)
(* Control records and the transactions that carry them, as               *)
(* ControlRecordStore.commit checks them (lineage/control_store.py).  A    *)
(* record is stored in one file, named by its kind and its name; body      *)
(* stands for the rest of its bytes.  A transaction is its manifest: two   *)
(* transactions are equal when their marker files are.                     *)
(***************************************************************************)
EXTENDS Integers, Sequences

CONSTANTS Names,        \* record identifiers
          NoDecision,   \* a record that names no decision
          Bodies,
          Runs,
          TxIds

ASSUME NoDecisionAssumption == NoDecision \notin Names

Kinds == {"evidence", "decision", "transition", "snapshot"}

RecordType ==
  [kind : Kinds, name : Names, body : Bodies, run : Runs, iter : Nat,
   evidence : SUBSET Names,             \* evidence_ids
   decision : Names \cup {NoDecision}]  \* decision_id

TxType == [id : TxIds, run : Runs, iter : Nat, recs : Seq(RecordType)]

RecordsOf(t) == {t.recs[k] : k \in DOMAIN t.recs}

\* One file for both.
SameFile(r, s) == r.kind = s.kind /\ r.name = s.name

\* What commit demands of its arguments before it takes the lock: records of
\* one run and iteration, a snapshot perhaps already of the next one, and no
\* record twice.
WellFormed(t) ==
  /\ t.recs # <<>>
  /\ \A r \in RecordsOf(t) :
       /\ r.run = t.run
       /\ r.iter = t.iter \/ (r.kind = "snapshot" /\ r.iter = t.iter + 1)
  /\ \A i, j \in DOMAIN t.recs : SameFile(t.recs[i], t.recs[j]) => i = j

\* Evidence a record may rest on: of its run, and not of the future.
EvidenceFor(r, e) == e.kind = "evidence" /\ e.run = r.run /\ e.iter <= r.iter

\* The decision a transition or a snapshot follows.
DecisionFor(r, d) ==
  /\ d.kind = "decision" /\ d.run = r.run
  /\ r.iter = d.iter \/ (r.kind = "snapshot" /\ r.iter = d.iter + 1)

\* _validate_dependencies for one record.
Supported(r, available) ==
  /\ r.kind # "evidence" =>
       \A n \in r.evidence : \E e \in available : e.name = n /\ EvidenceFor(r, e)
  /\ r.kind \in {"transition", "snapshot"} /\ r.decision # NoDecision =>
       \E d \in available : d.name = r.decision /\ DecisionFor(r, d)

=============================================================================
