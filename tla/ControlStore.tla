---------------------------- MODULE ControlStore ----------------------------
(***************************************************************************)
(* ControlRecordStore.commit (lineage/control_store.py) as several         *)
(* processes of one workspace execute it: the O_EXCL lock with its bounded *)
(* wait, the check of the marker, the validation of the dependencies, the  *)
(* record files one after the other, each looked for before it is written, *)
(* and the marker last.  A process may die at any point; its lock file     *)
(* stays until the operator, who knows that the owner is gone, removes it, *)
(* and the record files it wrote stay for good.                            *)
(***************************************************************************)
EXTENDS ControlRecords

CONSTANTS Writers,     \* processes
          NoWriter,    \* the lock file does not exist
          NoTx,        \* a process outside a call
          Offered,     \* the transactions callers commit
          MaxCrashes   \* bound

ASSUME StoreAssumption ==
  /\ NoWriter \notin Writers
  /\ Offered \subseteq TxType /\ NoTx \notin Offered
  /\ MaxCrashes \in Nat

VARIABLES files,     \* record files, committed or orphans
          markers,   \* transactions/*.json
          lock,      \* owner of .commit.lock
          pc, call, next, result,   \* per process; next: the record to write
          crashes

store == <<files, markers>>
vars  == <<store, lock, pc, call, next, result, crashes>>

\* Where a process holds the lock.
Inside == {"marker", "validate", "look", "write", "commit", "release"}

Init ==
  /\ files = {} /\ markers = {} /\ lock = NoWriter
  /\ pc = [w \in Writers |-> "idle"]
  /\ call = [w \in Writers |-> NoTx]
  /\ next = [w \in Writers |-> 1]
  /\ result = [w \in Writers |-> "none"]
  /\ crashes = 0

Move(w, from, to) == pc[w] = from /\ pc' = [pc EXCEPT ![w] = to]

Answer(w, r) == result' = [result EXCEPT ![w] = r]

\* The call returns, raises or dies with its process.
Leave(w) ==
  /\ pc' = [pc EXCEPT ![w] = "idle"]
  /\ call' = [call EXCEPT ![w] = NoTx]
  /\ next' = [next EXCEPT ![w] = 1]
  /\ result' = [result EXCEPT ![w] = "none"]

\* commit is called; what is not well formed is refused before the lock.
Call(w) ==
  /\ Move(w, "idle", "acquire")
  /\ \E t \in Offered : WellFormed(t) /\ call' = [call EXCEPT ![w] = t]
  /\ UNCHANGED <<store, lock, next, result, crashes>>

\* exclusive_lock creates the lock file, or its wait ends.
Acquire(w) ==
  /\ Move(w, "acquire", "marker")
  /\ lock = NoWriter /\ lock' = w
  /\ UNCHANGED <<store, call, next, result, crashes>>

\* A mutant: a lock that cannot be had in time is taken for a stale one.
TimeOutBreaksLock(w) ==
  /\ Move(w, "acquire", "marker")
  /\ lock # NoWriter /\ lock' = w
  /\ UNCHANGED <<store, call, next, result, crashes>>

TimeOut(w) ==
  /\ pc[w] = "acquire" /\ lock # NoWriter
  /\ Leave(w)
  /\ UNCHANGED <<store, lock, crashes>>

Known(w) == {m \in markers : m.id = call[w].id}

\* The transaction's marker exists: the same bytes are an exact repetition,
\* others a conflict.
Repeat(w) ==
  /\ Move(w, "marker", "release")
  /\ Known(w) # {}
  /\ Answer(w, IF call[w] \in Known(w) THEN "ok" ELSE "conflict")
  /\ UNCHANGED <<store, lock, call, next, crashes>>

Begin(w) ==
  /\ Move(w, "marker", "validate")
  /\ Known(w) = {}
  /\ UNCHANGED <<store, lock, call, next, result, crashes>>

\* A mutant: the record directories are read, orphans and all.
AllRecordFiles == files

\* _committed_records: the records the markers name.
CommittedRecords == UNION {RecordsOf(t) : t \in markers}

\* The committed records, those of the transaction itself taking precedence.
Available(t) ==
  RecordsOf(t) \cup {c \in CommittedRecords : \A r \in RecordsOf(t) : ~SameFile(c, r)}

Valid(t) == \A r \in RecordsOf(t) : Supported(r, Available(t))

Validate(w) ==
  /\ Move(w, "validate", "look")
  /\ Valid(call[w])
  /\ UNCHANGED <<store, lock, call, next, result, crashes>>

Refuse(w) ==
  /\ Move(w, "validate", "release")
  /\ ~Valid(call[w])
  /\ Answer(w, "invalid")
  /\ UNCHANGED <<store, lock, call, next, crashes>>

Record(w) == call[w].recs[next[w]]

Existing(w) == {f \in files : SameFile(f, Record(w))}

\* A mutant: one record too many.
AdvanceTooFar(w) ==
  /\ next' = [next EXCEPT ![w] = @ + 1]
  /\ pc' = [pc EXCEPT ![w] = IF next[w] > Len(call[w].recs) THEN "commit" ELSE "look"]

\* The next record, or the marker after the last one.
Advance(w) ==
  IF next[w] = Len(call[w].recs)
  THEN pc' = [pc EXCEPT ![w] = "commit"] /\ UNCHANGED next
  ELSE /\ next' = [next EXCEPT ![w] = @ + 1]
       /\ pc' = [pc EXCEPT ![w] = "look"]

\* write_immutable finds no file.
Absent(w) ==
  /\ Move(w, "look", "write")
  /\ Existing(w) = {}
  /\ UNCHANGED <<store, lock, call, next, result, crashes>>

\* ... or the same bytes, committed or left behind.
Present(w) ==
  /\ pc[w] = "look"
  /\ Existing(w) = {Record(w)}
  /\ Advance(w)
  /\ UNCHANGED <<store, lock, call, result, crashes>>

\* ... or other bytes: the transaction stops half written.
Clash(w) ==
  /\ Move(w, "look", "release")
  /\ Existing(w) \notin {{}, {Record(w)}}
  /\ Answer(w, "conflict")
  /\ UNCHANGED <<store, lock, call, next, crashes>>

\* _atomic_replace puts the file in place, whatever is there by now.
WriteRecord(w) ==
  /\ pc[w] = "write"
  /\ files' = (files \ Existing(w)) \cup {Record(w)}
  /\ Advance(w)
  /\ UNCHANGED <<markers, lock, call, result, crashes>>

\* The marker is written last; load_transaction reads everything back.
WriteMarker(w) ==
  /\ Move(w, "commit", "release")
  /\ markers' = {m \in markers : m.id # call[w].id} \cup {call[w]}
  /\ Answer(w, "ok")
  /\ UNCHANGED <<files, lock, call, next, crashes>>

\* The finally block unlinks the lock file, whoever created it.
Release(w) ==
  /\ pc[w] = "release"
  /\ lock' = NoWriter
  /\ Leave(w)
  /\ UNCHANGED <<store, crashes>>

Crash(w) ==
  /\ pc[w] # "idle" /\ crashes < MaxCrashes
  /\ crashes' = crashes + 1
  /\ Leave(w)
  /\ UNCHANGED <<store, lock>>

\* The operator removes the lock file of a process that is gone.
RemoveStaleLock ==
  /\ lock # NoWriter /\ pc[lock] \notin Inside
  /\ lock' = NoWriter
  /\ UNCHANGED <<store, pc, call, next, result, crashes>>

Next ==
  \/ \E w \in Writers :
       \/ Call(w) \/ Acquire(w) \/ TimeOut(w)
       \/ Repeat(w) \/ Begin(w) \/ Validate(w) \/ Refuse(w)
       \/ Absent(w) \/ Present(w) \/ Clash(w) \/ WriteRecord(w)
       \/ WriteMarker(w) \/ Release(w) \/ Crash(w)
  \/ RemoveStaleLock

Spec == Init /\ [][Next]_vars

-----------------------------------------------------------------------------

\* Every variable has its type; the record to write is one of the call's.
TypeOK ==
  /\ files \subseteq RecordType
  /\ markers \subseteq Offered
  /\ lock \in Writers \cup {NoWriter}
  /\ pc \in [Writers -> Inside \cup {"idle", "acquire"}]
  /\ call \in [Writers -> Offered \cup {NoTx}]
  /\ next \in [Writers -> Nat \ {0}]
  /\ \A w \in Writers : pc[w] # "idle" => call[w] \in Offered /\ next[w] <= Len(call[w].recs)
  /\ result \in [Writers -> {"none", "ok", "conflict", "invalid"}]
  /\ crashes \in 0..MaxCrashes

\* A reader, who takes no lock, finds every record of every committed
\* transaction with the committed bytes, and a caller told "ok" finds its own
\* transaction committed, whatever other processes were writing and wherever
\* they died (load_transaction, _committed_records).
CommittedIsComplete ==
  /\ \A t \in markers : RecordsOf(t) \subseteq files
  /\ \A w \in Writers : result[w] = "ok" => call[w] \in markers

Atomic == INSTANCE AtomicCommit WITH committed <- markers

\* Record files and markers, written one by one, implement the atomic commit
\* of whole transactions that rest on committed records only
\* (docs/lineage-runtime.md:88).
CommitsAreAtomic == Atomic!Spec

=============================================================================
