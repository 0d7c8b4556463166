------------------------- MODULE ControlStoreProofs -------------------------
(***************************************************************************)
(* ControlStore for any number of processes, transactions and records: a   *)
(* reader without a lock finds committed transactions complete, and the    *)
(* record files and markers implement the atomic commit.                   *)
(***************************************************************************)
EXTENDS ControlStore, TLAPS

\* A process that holds the lock is the owner of the lock file.
OneWriterInside == \A w \in Writers : pc[w] \in Inside => lock = w

\* A record file has one content, orphans included.
FilesAgree == \A r, s \in files : SameFile(r, s) => r = s

\* What a process has checked and written so far still holds.
Progress(w) ==
  /\ result[w] = "ok" => pc[w] = "release"
  /\ pc[w] \in {"idle", "acquire", "marker", "validate"} => next[w] = 1
  /\ pc[w] \in {"validate", "look", "write", "commit"} => Known(w) = {}
  /\ pc[w] \in {"look", "write", "commit"} => Valid(call[w])
  /\ pc[w] \in {"look", "write"} => \A k \in 1..(next[w] - 1) : call[w].recs[k] \in files
  /\ pc[w] = "write" => Existing(w) = {}
  /\ pc[w] = "commit" => RecordsOf(call[w]) \subseteq files

\* The inductive invariant.
IInv ==
  /\ TypeOK
  /\ OneWriterInside
  /\ FilesAgree
  /\ CommittedIsComplete
  /\ \A w \in Writers : Progress(w)

-----------------------------------------------------------------------------

\* The initial state satisfies the invariant.
LEMMA InitIInv == Init => IInv
  BY StoreAssumption
  DEF Init, IInv, TypeOK, OneWriterInside, FilesAgree, CommittedIsComplete, Progress, Inside

\* An offered transaction is a sequence of records.
LEMMA OfferedAreTyped ==
  ASSUME NEW t \in Offered
  PROVE  /\ t \in TxType
         /\ t.recs \in Seq(RecordType)
         /\ Len(t.recs) \in Nat
         /\ DOMAIN t.recs = 1..Len(t.recs)
         /\ \A k \in 1..Len(t.recs) : t.recs[k] \in RecordType
         /\ RecordsOf(t) = {t.recs[k] : k \in 1..Len(t.recs)}
<1>1. t \in TxType
  BY StoreAssumption
<1>2. t.recs \in Seq(RecordType)
  BY <1>1 DEF TxType
<1> QED
  BY <1>1, <1>2 DEF RecordsOf

\* Progress depends on nothing but the process and the files.
LEMMA ProgressStays ==
  ASSUME NEW w \in Writers, Progress(w), UNCHANGED store,
         pc'[w] = pc[w], call'[w] = call[w], next'[w] = next[w], result'[w] = result[w]
  PROVE  Progress(w)'
<1>1. Known(w)' = Known(w) /\ Existing(w)' = Existing(w)
  BY DEF Known, Existing, Record, store
<1>2. Valid(call[w])' <=> Valid(call[w])
  BY DEF Valid, Available, CommittedRecords, store
<1> QED
  BY <1>1, <1>2 DEF Progress, store

\* A step that does not move w keeps what w has achieved, when it leaves the
\* files alone or when w is not inside.
LEMMA OthersKeepProgress ==
  ASSUME NEW w \in Writers, Progress(w),
         pc'[w] = pc[w], call'[w] = call[w], next'[w] = next[w], result'[w] = result[w],
         \/ UNCHANGED store
         \/ pc[w] \notin Inside
  PROVE  Progress(w)'
<1>1. CASE UNCHANGED store
  BY <1>1, ProgressStays
<1>2. CASE pc[w] \notin Inside
  BY <1>2 DEF Progress, Inside
<1> QED
  BY <1>1, <1>2

\* Moving on from a record that is in its file: the transaction's records up
\* to the next one are there, or all of them.
LEMMA AdvanceProgresses ==
  ASSUME TypeOK, NEW w \in Writers, pc[w] \in {"look", "write"},
         Progress(w), Advance(w), UNCHANGED <<markers, call, result>>,
         files \subseteq files', Record(w) \in files'
  PROVE  /\ Progress(w)'
         /\ pc' = [pc EXCEPT ![w] = pc'[w]] /\ pc'[w] \in {"look", "commit"}
         /\ next' = [next EXCEPT ![w] = next'[w]]
         /\ next'[w] \in Nat \ {0} /\ next'[w] <= Len(call[w].recs)
<1>1. /\ call[w] \in Offered
      /\ next[w] \in Nat \ {0} /\ next[w] <= Len(call[w].recs)
      /\ Len(call[w].recs) \in Nat
  BY OfferedAreTyped DEF TypeOK
<1>2. /\ result[w] # "ok"
      /\ Known(w)' = {}
      /\ Valid(call[w])'
  BY DEF Progress, Known, Valid, Available, CommittedRecords
<1>3. \A k \in 1..next[w] : call[w].recs[k] \in files'
  BY <1>1 DEF Progress, Record
<1>4. CASE next[w] = Len(call[w].recs)
  <2>1. pc'[w] = "commit" /\ next' = next
    BY <1>4 DEF Advance, TypeOK
  <2>2. RecordsOf(call[w]) \subseteq files'
    BY <1>1, <1>3, <1>4, OfferedAreTyped
  <2> QED
    BY <1>1, <1>2, <1>4, <2>1, <2>2 DEF Advance, TypeOK, Progress
<1>5. CASE next[w] # Len(call[w].recs)
  <2>1. pc'[w] = "look" /\ next'[w] = next[w] + 1
    BY <1>5 DEF Advance, TypeOK
  <2>2. \A k \in 1..(next'[w] - 1) : call[w].recs[k] \in files'
    BY <1>1, <1>3, <2>1
  <2> QED
    BY <1>1, <1>2, <1>5, <2>1, <2>2 DEF Advance, TypeOK, Progress
<1> QED
  BY <1>4, <1>5

\* A process about to commit has its whole transaction in the files.
LEMMA CommitIsComplete ==
  ASSUME IInv, NEW w \in Writers, pc[w] = "commit"
  PROVE  /\ call[w] \in Offered
         /\ lock = w
         /\ Known(w) = {}
         /\ Valid(call[w])
         /\ RecordsOf(call[w]) \subseteq files
  BY DEF IInv, TypeOK, OneWriterInside, Inside, Progress

\* Nobody but the owner of the lock is inside.
LEMMA OthersAreOutside ==
  ASSUME IInv, NEW w \in Writers, pc[w] \in Inside
  PROVE  lock = w /\ \A v \in Writers : v # w => pc[v] \notin Inside
  BY DEF IInv, OneWriterInside

\* A step of w that leaves the files and the markers alone preserves the
\* invariant, if it does so for w itself.
LEMMA QuietStep ==
  ASSUME IInv, NEW w \in Writers, UNCHANGED store, TypeOK', OneWriterInside', Progress(w)',
         \A v \in Writers : v # w => /\ pc'[v] = pc[v] /\ call'[v] = call[v]
                                     /\ next'[v] = next[v] /\ result'[v] = result[v],
         result'[w] = "ok" => call'[w] \in markers
  PROVE  IInv'
<1>1. FilesAgree'
  BY DEF IInv, FilesAgree, store
<1>2. CommittedIsComplete'
  BY DEF IInv, CommittedIsComplete, store
<1>3. \A v \in Writers : Progress(v)'
  BY OthersKeepProgress DEF IInv
<1> QED
  BY <1>1, <1>2, <1>3 DEF IInv

\* Every step preserves the invariant.
LEMMA NextIInv == IInv /\ [Next]_vars => IInv'
<1> SUFFICES ASSUME IInv, [Next]_vars PROVE IInv'
  OBVIOUS
<1> USE StoreAssumption DEF IInv
<1>1. ASSUME NEW w \in Writers, Call(w) PROVE IInv'
  <2> USE <1>1 DEF Call, Move
  <2>1. PICK t \in Offered : WellFormed(t) /\ call' = [call EXCEPT ![w] = t]
    OBVIOUS
  <2>2. 1 <= Len(t.recs)
    BY <2>1, OfferedAreTyped DEF WellFormed
  <2>3. TypeOK'
    <3>1. \A v \in Writers : v = w => call'[v] = t /\ next'[v] = 1 /\ next[w] = 1
      BY <2>1 DEF TypeOK, Progress
    <3> QED
      BY <2>1, <2>2, <3>1 DEF TypeOK, store
  <2>4. OneWriterInside' /\ Progress(w)'
    BY DEF TypeOK, OneWriterInside, Inside, Progress
  <2>5. \A v \in Writers : v # w => /\ pc'[v] = pc[v] /\ call'[v] = call[v]
                                    /\ next'[v] = next[v] /\ result'[v] = result[v]
    BY <2>1 DEF TypeOK
  <2> QED
    BY <2>3, <2>4, <2>5, QuietStep DEF Progress
<1>2. ASSUME NEW w \in Writers, Acquire(w) PROVE IInv'
  <2> USE <1>2 DEF Acquire, Move
  <2>2. TypeOK'
    BY DEF TypeOK, Inside, Progress, store
  <2>3. OneWriterInside'
    BY OthersAreOutside DEF TypeOK, OneWriterInside, Inside
  <2>4. Progress(w)'
    BY DEF TypeOK, Progress
  <2>5. \A v \in Writers : v # w => /\ pc'[v] = pc[v] /\ call'[v] = call[v]
                                    /\ next'[v] = next[v] /\ result'[v] = result[v]
    BY DEF TypeOK
  <2>6. UNCHANGED store /\ (result'[w] = "ok" => call'[w] \in markers)
    BY DEF TypeOK, Progress, Known, store
  <2> QED
    BY <2>2, <2>3, <2>4, <2>5, <2>6, QuietStep
<1>3. ASSUME NEW w \in Writers, TimeOut(w) PROVE IInv'
  <2> USE <1>3 DEF TimeOut, Leave
  <2>2. TypeOK'
    BY DEF TypeOK, Inside, Progress, store
  <2>3. OneWriterInside'
    BY OthersAreOutside DEF TypeOK, OneWriterInside, Inside
  <2>4. Progress(w)'
    BY DEF TypeOK, Progress
  <2>5. \A v \in Writers : v # w => /\ pc'[v] = pc[v] /\ call'[v] = call[v]
                                    /\ next'[v] = next[v] /\ result'[v] = result[v]
    BY DEF TypeOK
  <2>6. UNCHANGED store /\ (result'[w] = "ok" => call'[w] \in markers)
    BY DEF TypeOK, Progress, Known, store
  <2> QED
    BY <2>2, <2>3, <2>4, <2>5, <2>6, QuietStep
<1>4. ASSUME NEW w \in Writers, Repeat(w) PROVE IInv'
  <2> USE <1>4 DEF Repeat, Move, Answer
  <2>2. TypeOK'
    BY DEF TypeOK, Inside, Progress, store
  <2>3. OneWriterInside'
    BY OthersAreOutside DEF TypeOK, OneWriterInside, Inside
  <2>4. Progress(w)'
    BY DEF TypeOK, Progress
  <2>5. \A v \in Writers : v # w => /\ pc'[v] = pc[v] /\ call'[v] = call[v]
                                    /\ next'[v] = next[v] /\ result'[v] = result[v]
    BY DEF TypeOK
  <2>6. UNCHANGED store /\ (result'[w] = "ok" => call'[w] \in markers)
    BY DEF TypeOK, Progress, Known, store
  <2> QED
    BY <2>2, <2>3, <2>4, <2>5, <2>6, QuietStep
<1>5. ASSUME NEW w \in Writers, Begin(w) PROVE IInv'
  <2> USE <1>5 DEF Begin, Move
  <2>2. TypeOK'
    BY DEF TypeOK, Inside, Progress, store
  <2>3. OneWriterInside'
    BY OthersAreOutside DEF TypeOK, OneWriterInside, Inside
  <2>4. Progress(w)'
    BY DEF TypeOK, Progress, Known, store
  <2>5. \A v \in Writers : v # w => /\ pc'[v] = pc[v] /\ call'[v] = call[v]
                                    /\ next'[v] = next[v] /\ result'[v] = result[v]
    BY DEF TypeOK
  <2>6. UNCHANGED store /\ (result'[w] = "ok" => call'[w] \in markers)
    BY DEF TypeOK, Progress, Known, store
  <2> QED
    BY <2>2, <2>3, <2>4, <2>5, <2>6, QuietStep
<1>6. ASSUME NEW w \in Writers, Validate(w) PROVE IInv'
  <2> USE <1>6 DEF Validate, Move
  <2>2. TypeOK'
    BY DEF TypeOK, Inside, Progress, store
  <2>3. OneWriterInside'
    BY OthersAreOutside DEF TypeOK, OneWriterInside, Inside
  <2>4. Progress(w)'
    <3>1. next[w] = 1 /\ pc'[w] = "look" /\ result'[w] # "ok"
      BY DEF TypeOK, Progress
    <3>2. \A k \in 1..(next[w] - 1) : FALSE
      BY <3>1
    <3>3. Known(w)' = {} /\ Valid(call[w])'
      BY DEF Progress, Known, Valid, Available, CommittedRecords, store
    <3> QED
      BY <3>1, <3>2, <3>3 DEF Progress
  <2>5. \A v \in Writers : v # w => /\ pc'[v] = pc[v] /\ call'[v] = call[v]
                                    /\ next'[v] = next[v] /\ result'[v] = result[v]
    BY DEF TypeOK
  <2>6. UNCHANGED store /\ (result'[w] = "ok" => call'[w] \in markers)
    BY DEF TypeOK, Progress, Known, store
  <2> QED
    BY <2>2, <2>3, <2>4, <2>5, <2>6, QuietStep
<1>7. ASSUME NEW w \in Writers, Refuse(w) PROVE IInv'
  <2> USE <1>7 DEF Refuse, Move, Answer
  <2>2. TypeOK'
    BY DEF TypeOK, Inside, Progress, store
  <2>3. OneWriterInside'
    BY OthersAreOutside DEF TypeOK, OneWriterInside, Inside
  <2>4. Progress(w)'
    BY DEF TypeOK, Progress
  <2>5. \A v \in Writers : v # w => /\ pc'[v] = pc[v] /\ call'[v] = call[v]
                                    /\ next'[v] = next[v] /\ result'[v] = result[v]
    BY DEF TypeOK
  <2>6. UNCHANGED store /\ (result'[w] = "ok" => call'[w] \in markers)
    BY DEF TypeOK, Progress, Known, store
  <2> QED
    BY <2>2, <2>3, <2>4, <2>5, <2>6, QuietStep
<1>8. ASSUME NEW w \in Writers, Absent(w) PROVE IInv'
  <2> USE <1>8 DEF Absent, Move
  <2>2. TypeOK'
    BY DEF TypeOK, Inside, Progress, store
  <2>3. OneWriterInside'
    BY OthersAreOutside DEF TypeOK, OneWriterInside, Inside
  <2>4. Progress(w)'
    BY DEF TypeOK, Progress, Known, Valid, Available, CommittedRecords, Existing, Record, store
  <2>5. \A v \in Writers : v # w => /\ pc'[v] = pc[v] /\ call'[v] = call[v]
                                    /\ next'[v] = next[v] /\ result'[v] = result[v]
    BY DEF TypeOK
  <2>6. UNCHANGED store /\ (result'[w] = "ok" => call'[w] \in markers)
    BY DEF TypeOK, Progress, Known, store
  <2> QED
    BY <2>2, <2>3, <2>4, <2>5, <2>6, QuietStep
<1>9. ASSUME NEW w \in Writers, Present(w) PROVE IInv'
  <2> USE <1>9 DEF Present
  <2>1. Record(w) \in files
    BY DEF Existing
  <2>2. /\ Progress(w)'
        /\ pc' = [pc EXCEPT ![w] = pc'[w]] /\ pc'[w] \in {"look", "commit"}
        /\ next' = [next EXCEPT ![w] = next'[w]]
        /\ next'[w] \in Nat \ {0} /\ next'[w] <= Len(call[w].recs)
    BY <2>1, AdvanceProgresses DEF store
  <2>3. TypeOK'
    BY <2>2 DEF TypeOK, Inside, store
  <2>4. OneWriterInside'
    BY <2>2 DEF OneWriterInside, Inside, TypeOK
  <2> QED
    BY <2>2, <2>3, <2>4, QuietStep DEF TypeOK, Progress
<1>10. ASSUME NEW w \in Writers, Clash(w) PROVE IInv'
  <2> USE <1>10 DEF Clash, Move, Answer
  <2>2. TypeOK'
    BY DEF TypeOK, Inside, Progress, store
  <2>3. OneWriterInside'
    BY OthersAreOutside DEF TypeOK, OneWriterInside, Inside
  <2>4. Progress(w)'
    BY DEF TypeOK, Progress
  <2>5. \A v \in Writers : v # w => /\ pc'[v] = pc[v] /\ call'[v] = call[v]
                                    /\ next'[v] = next[v] /\ result'[v] = result[v]
    BY DEF TypeOK
  <2>6. UNCHANGED store /\ (result'[w] = "ok" => call'[w] \in markers)
    BY DEF TypeOK, Progress, Known, store
  <2> QED
    BY <2>2, <2>3, <2>4, <2>5, <2>6, QuietStep
<1>11. ASSUME NEW w \in Writers, WriteRecord(w) PROVE IInv'
  <2> USE <1>11 DEF WriteRecord
  <2>1. files' = files \cup {Record(w)} /\ Existing(w) = {}
    BY DEF Progress
  <2>2. Record(w) \in RecordType
    <3>1. call[w] \in Offered /\ next[w] \in 1..Len(call[w].recs)
      BY OfferedAreTyped DEF TypeOK
    <3> QED
      BY <3>1, OfferedAreTyped DEF Record
  <2>3. /\ Progress(w)'
        /\ pc' = [pc EXCEPT ![w] = pc'[w]] /\ pc'[w] \in {"look", "commit"}
        /\ next' = [next EXCEPT ![w] = next'[w]]
        /\ next'[w] \in Nat \ {0} /\ next'[w] <= Len(call[w].recs)
    BY <2>1, AdvanceProgresses
  <2>4. TypeOK'
    BY <2>1, <2>2, <2>3 DEF TypeOK, Inside
  <2>5. OneWriterInside'
    BY <2>3 DEF OneWriterInside, Inside, TypeOK
  <2>6. FilesAgree'
    BY <2>1 DEF FilesAgree, Existing, SameFile
  <2>7. CommittedIsComplete'
    BY <2>1 DEF CommittedIsComplete
  <2>8. ASSUME NEW v \in Writers, v # w PROVE Progress(v)'
    <3>1. pc[v] \notin Inside
      BY <2>8, OthersAreOutside DEF Inside
    <3> QED
      BY <2>3, <2>8, <3>1, OthersKeepProgress DEF TypeOK
  <2> QED
    BY <2>3, <2>4, <2>5, <2>6, <2>7, <2>8
<1>12. ASSUME NEW w \in Writers, WriteMarker(w) PROVE IInv'
  <2> USE <1>12 DEF WriteMarker, Move, Answer
  <2>1. /\ call[w] \in Offered
        /\ RecordsOf(call[w]) \subseteq files
        /\ markers' = markers \cup {call[w]}
    BY CommitIsComplete DEF Known
  <2>2. TypeOK' /\ OneWriterInside' /\ FilesAgree'
    BY <2>1 DEF TypeOK, OneWriterInside, Inside, FilesAgree
  <2>3. CommittedIsComplete'
    BY <2>1 DEF CommittedIsComplete, TypeOK
  <2>4. ASSUME NEW v \in Writers, v # w PROVE Progress(v)'
    <3>1. pc[v] \notin Inside
      BY <2>4, OthersAreOutside DEF Inside
    <3> QED
      BY <2>4, <3>1, OthersKeepProgress DEF TypeOK
  <2>5. Progress(w)'
    BY DEF Progress, TypeOK
  <2> QED
    BY <2>2, <2>3, <2>4, <2>5
<1>13. ASSUME NEW w \in Writers, Release(w) PROVE IInv'
  <2> USE <1>13 DEF Release, Leave
  <2>2. TypeOK'
    BY DEF TypeOK, Inside, Progress, store
  <2>3. OneWriterInside'
    BY OthersAreOutside DEF TypeOK, OneWriterInside, Inside
  <2>4. Progress(w)'
    BY DEF TypeOK, Progress
  <2>5. \A v \in Writers : v # w => /\ pc'[v] = pc[v] /\ call'[v] = call[v]
                                    /\ next'[v] = next[v] /\ result'[v] = result[v]
    BY DEF TypeOK
  <2>6. UNCHANGED store /\ (result'[w] = "ok" => call'[w] \in markers)
    BY DEF TypeOK, Progress, Known, store
  <2> QED
    BY <2>2, <2>3, <2>4, <2>5, <2>6, QuietStep
<1>14. ASSUME NEW w \in Writers, Crash(w) PROVE IInv'
  <2> USE <1>14 DEF Crash, Leave
  <2>2. TypeOK'
    BY DEF TypeOK, Inside, Progress, store
  <2>3. OneWriterInside'
    BY OthersAreOutside DEF TypeOK, OneWriterInside, Inside
  <2>4. Progress(w)'
    BY DEF TypeOK, Progress
  <2>5. \A v \in Writers : v # w => /\ pc'[v] = pc[v] /\ call'[v] = call[v]
                                    /\ next'[v] = next[v] /\ result'[v] = result[v]
    BY DEF TypeOK
  <2>6. UNCHANGED store /\ (result'[w] = "ok" => call'[w] \in markers)
    BY DEF TypeOK, Progress, Known, store
  <2> QED
    BY <2>2, <2>3, <2>4, <2>5, <2>6, QuietStep
<1>15. CASE RemoveStaleLock
  <2> USE <1>15 DEF RemoveStaleLock
  <2>1. TypeOK'
    BY DEF TypeOK, store
  <2>2. OneWriterInside'
    BY DEF TypeOK, OneWriterInside
  <2>3. FilesAgree' /\ CommittedIsComplete'
    BY DEF FilesAgree, CommittedIsComplete, store
  <2>4. ASSUME NEW w \in Writers PROVE Progress(w)'
    BY ProgressStays
  <2> QED
    BY <2>1, <2>2, <2>3, <2>4
<1>16. CASE UNCHANGED vars
  <2> USE <1>16 DEF vars
  <2>1. TypeOK' /\ OneWriterInside'
    BY DEF TypeOK, OneWriterInside, store
  <2>2. FilesAgree' /\ CommittedIsComplete'
    BY DEF FilesAgree, CommittedIsComplete, store
  <2>3. ASSUME NEW w \in Writers PROVE Progress(w)'
    BY ProgressStays
  <2> QED
    BY <2>1, <2>2, <2>3
<1> QED
  BY <1>1, <1>2, <1>3, <1>4, <1>5, <1>6, <1>7, <1>8, <1>9, <1>10, <1>11, <1>12,
     <1>13, <1>14, <1>15, <1>16 DEF Next

\* The invariant holds in every reachable state.
THEOREM Invariance == Spec => []IInv
<1>1. Init => IInv
  BY InitIInv
<1>2. IInv /\ [Next]_vars => IInv'
  BY NextIInv
<1> QED
  BY <1>1, <1>2, PTL DEF Spec

\* Every variable of the control store keeps its type, and a process never
\* reaches beyond its transaction's last record.
THEOREM TypeCorrect == Spec => []TypeOK
BY Invariance, PTL DEF IInv

\* A reader finds every committed transaction complete, and "ok" means
\* committed, for any number of writers, crashes and interleavings.
THEOREM ReadersSeeWhole == Spec => []CommittedIsComplete
BY Invariance, PTL DEF IInv

-----------------------------------------------------------------------------

\* The abstract specification's notions of a record are the store's.
LEMMA SameNotions ==
  /\ \A t : Atomic!RecordsOf(t) = RecordsOf(t)
  /\ \A r, s : Atomic!SameFile(r, s) <=> SameFile(r, s)
  /\ \A r, S : Atomic!Supported(r, S) <=> Supported(r, S)
  BY DEF Atomic!RecordsOf, RecordsOf, Atomic!SameFile, SameFile, Atomic!Supported, Supported,
         Atomic!EvidenceFor, EvidenceFor, Atomic!DecisionFor, DecisionFor

\* More available records support what fewer did.
LEMMA SupportGrows ==
  ASSUME NEW r, NEW S, NEW T, S \subseteq T, Supported(r, S)
  PROVE  Supported(r, T)
  BY DEF Supported

\* Writing the marker commits the transaction: its records are all in the
\* files, and so are those of the committed ones, one content each.
LEMMA MarkerCommits ==
  ASSUME IInv, NEW w \in Writers, WriteMarker(w)
  PROVE  Atomic!Next
<1> DEFINE t == call[w]
<1>1. /\ Known(w) = {} /\ Valid(t) /\ RecordsOf(t) \subseteq files
      /\ markers' = markers \cup {t}
  BY CommitIsComplete DEF WriteMarker, Move, Known
<1>2. \A u \in markers : u.id # t.id
  BY <1>1 DEF Known
<1>3. Atomic!Visible = CommittedRecords
  BY SameNotions DEF Atomic!Visible, CommittedRecords
<1>4. CommittedRecords \subseteq files
  BY DEF IInv, CommittedIsComplete, CommittedRecords
<1>5. \A r \in RecordsOf(t), s \in CommittedRecords \cup RecordsOf(t) :
        SameFile(r, s) => r = s
  BY <1>1, <1>4 DEF IInv, FilesAgree
<1>6. \A r \in RecordsOf(t) : Supported(r, CommittedRecords \cup RecordsOf(t))
  <2>1. Available(t) \subseteq CommittedRecords \cup RecordsOf(t)
    BY DEF Available
  <2> QED
    BY <1>1, <2>1, SupportGrows DEF Valid
<1>7. Atomic!Commit(t)
  BY <1>1, <1>2, <1>3, <1>5, <1>6, SameNotions DEF Atomic!Commit
<1> QED
  BY <1>1, <1>7 DEF Atomic!Next

\* Every step of the store commits one transaction or leaves the committed
\* ones alone.
LEMMA StepRefines == IInv /\ [Next]_vars => [Atomic!Next]_markers
<1> SUFFICES ASSUME IInv, [Next]_vars, markers' # markers PROVE Atomic!Next
  OBVIOUS
<1>1. PICK w \in Writers : WriteMarker(w)
  BY DEF Next, Call, Acquire, TimeOut, Repeat, Begin, Validate, Refuse, Absent, Present,
         Clash, WriteRecord, Release, Crash, RemoveStaleLock, vars, store
<1> QED
  BY <1>1, MarkerCommits

\* Files and markers, written one by one by processes that may die between
\* any two writes, implement the atomic commit (docs/lineage-runtime.md:88).
THEOREM ImplementsAtomicCommit == Spec => CommitsAreAtomic
<1>1. Init => Atomic!Init
  BY DEF Init, Atomic!Init
<1>2. IInv /\ [Next]_vars => [Atomic!Next]_markers
  BY StepRefines
<1> QED
  BY <1>1, <1>2, Invariance, PTL DEF Spec, CommitsAreAtomic, Atomic!Spec

=============================================================================
