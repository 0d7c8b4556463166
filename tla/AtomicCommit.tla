---------------------------- MODULE AtomicCommit ----------------------------
(***************************************************************************)
(* What the control store promises to whoever reads it: transactions come  *)
(* whole, one at a time and for good; one identifier is one transaction,   *)
(* one record file has one content, and every record rests on committed    *)
(* evidence and decisions (docs/lineage-runtime.md, section 1).            *)
(***************************************************************************)
EXTENDS ControlRecords

VARIABLE committed   \* the transactions a reader sees

Visible == UNION {RecordsOf(t) : t \in committed}

Init == committed = {}

Commit(t) ==
  /\ \A u \in committed : u.id # t.id
  /\ \A r \in RecordsOf(t), s \in Visible \cup RecordsOf(t) : SameFile(r, s) => r = s
  /\ \A r \in RecordsOf(t) : Supported(r, Visible \cup RecordsOf(t))
  /\ committed' = committed \cup {t}

Next == \E t \in committed' : Commit(t)

Spec == Init /\ [][Next]_committed

=============================================================================
