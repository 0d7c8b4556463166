------------------------------ MODULE PeakStore ------------------------------
(***************************************************************************)
(* PeakPointerStore.compare_and_swap (lineage/peak_store.py) as several    *)
(* processes of one workspace execute it: an O_EXCL lock file with a       *)
(* bounded wait, the pointer file that is replaced atomically, and the     *)
(* immutable history.  A process may die at any point; its lock file stays *)
(* until the operator, who must know that the owner is gone, removes it.   *)
(* Linked is the set of updates whose transaction, PROMOTE decision and    *)
(* bundle verify; these are immutable, so that what once verified always   *)
(* does.                                                                   *)
(***************************************************************************)
EXTENDS Integers, FiniteSets

CONSTANTS Writers,       \* processes
          NoWriter,      \* the lock file does not exist
          Checkpoints,
          NoCheckpoint,
          Updates,       \* the pointers callers may want to install
          Linked,        \* those whose links verify
          Calls,         \* the call: an update, and the Peak its caller expects
          MaxCrashes     \* bound

PointerType == [ckpt : Checkpoints, prev : Checkpoints \cup {NoCheckpoint},
                iter : Nat, score : Nat]

CallType == [update : Updates, expected : Checkpoints \cup {NoCheckpoint}]

ASSUME StoreAssumption ==
  /\ NoWriter \notin Writers
  /\ NoCheckpoint \notin Checkpoints
  /\ Updates \subseteq PointerType
  /\ Linked \subseteq Updates
  /\ Calls \subseteq CallType
  /\ MaxCrashes \in Nat

VARIABLES pointer,   \* peak_checkpoint.json
          history,   \* peak_history/
          lock,      \* owner of .peak.lock
          pc, call, seen, result,   \* per process
          crashes

store == <<pointer, history>>
vars  == <<store, lock, pc, call, seen, result, crashes>>

NoPointer == [ckpt |-> NoCheckpoint, prev |-> NoCheckpoint, iter |-> 0, score |-> 0]
NoCall    == [update |-> NoPointer, expected |-> NoCheckpoint]

\* Where a process holds the lock.
Inside == {"load", "decide", "history", "swap", "release"}

Init ==
  /\ pointer = NoPointer /\ history = {} /\ lock = NoWriter
  /\ pc = [w \in Writers |-> "idle"]
  /\ call = [w \in Writers |-> NoCall]
  /\ seen = [w \in Writers |-> NoPointer]
  /\ result = [w \in Writers |-> "none"]
  /\ crashes = 0

Move(w, from, to) == pc[w] = from /\ pc' = [pc EXCEPT ![w] = to]

Answer(w, r) == result' = [result EXCEPT ![w] = r]

\* The call returns, raises or dies with its process: nothing of it is kept.
Leave(w) ==
  /\ pc' = [pc EXCEPT ![w] = "idle"]
  /\ call' = [call EXCEPT ![w] = NoCall]
  /\ seen' = [seen EXCEPT ![w] = NoPointer]
  /\ result' = [result EXCEPT ![w] = "none"]

\* compare_and_swap is called.
Call(w) ==
  /\ Move(w, "idle", "acquire")
  /\ \E c \in Calls : call' = [call EXCEPT ![w] = c]
  /\ UNCHANGED <<store, lock, seen, result, crashes>>

\* exclusive_lock: the lock file is created, or the wait ends in
\* LineageLockTimeout.
Acquire(w) ==
  /\ Move(w, "acquire", "load")
  /\ lock = NoWriter /\ lock' = w
  /\ UNCHANGED <<store, call, seen, result, crashes>>

\* A mutant: a lock that cannot be had in time is taken for a stale one.
TimeOutBreaksLock(w) ==
  /\ Move(w, "acquire", "load")
  /\ lock # NoWriter /\ lock' = w
  /\ UNCHANGED <<store, call, seen, result, crashes>>

\* A mutant: no deadline.
TimeOutNever(w) == FALSE /\ UNCHANGED vars

TimeOut(w) ==
  /\ pc[w] = "acquire" /\ lock # NoWriter
  /\ Leave(w)
  /\ UNCHANGED <<store, lock, crashes>>

\* _load_unlocked under the lock.
Load(w) ==
  /\ Move(w, "load", "decide")
  /\ seen' = [seen EXCEPT ![w] = pointer]
  /\ UNCHANGED <<store, lock, call, result, crashes>>

\* A mutant: the strict comparison of scores became a weak one.
PassesWeakly(u, e, current) ==
  /\ current.ckpt = e /\ u.prev = e
  /\ current # NoPointer => u.iter >= current.iter /\ u.score >= current.score
  /\ u \in Linked

\* The checks of compare_and_swap, _verify_links last.
Passes(u, e, current) ==
  /\ current.ckpt = e /\ u.prev = e
  /\ current # NoPointer => u.iter >= current.iter /\ u.score > current.score
  /\ u \in Linked

\* A mutant: a repetition is recognised by its checkpoint alone.
IsReplayByName(u, current) == current.ckpt = u.ckpt

\* An exact repetition of the current pointer, whatever the caller expects.
IsReplay(u, current) == current = u

Replay(w) ==
  /\ Move(w, "decide", "release")
  /\ IsReplay(call[w].update, seen[w])
  /\ Answer(w, "ok")
  /\ UNCHANGED <<store, lock, call, seen, crashes>>

Refuse(w) ==
  /\ Move(w, "decide", "release")
  /\ ~IsReplay(call[w].update, seen[w]) /\ ~Passes(call[w].update, call[w].expected, seen[w])
  /\ Answer(w, "conflict")
  /\ UNCHANGED <<store, lock, call, seen, crashes>>

Admit(w) ==
  /\ Move(w, "decide", "history")
  /\ ~IsReplay(call[w].update, seen[w]) /\ Passes(call[w].update, call[w].expected, seen[w])
  /\ UNCHANGED <<store, lock, call, seen, result, crashes>>

\* write_immutable(history_path): the file is named by iteration and
\* checkpoint; other bytes under that name are a conflict.
Clash(u) == \E h \in history : h.iter = u.iter /\ h.ckpt = u.ckpt /\ h # u

HistoryClash(w) ==
  /\ Move(w, "history", "release")
  /\ Clash(call[w].update)
  /\ Answer(w, "conflict")
  /\ UNCHANGED <<store, lock, call, seen, crashes>>

WriteHistory(w) ==
  /\ Move(w, "history", "swap")
  /\ ~Clash(call[w].update)
  /\ history' = history \cup {call[w].update}
  /\ UNCHANGED <<pointer, lock, call, seen, result, crashes>>

\* A mutant: the caller's expectation is written with its update.
SwapWritesCall(w) ==
  /\ Move(w, "swap", "release")
  /\ pointer' = call[w]
  /\ Answer(w, "ok")
  /\ UNCHANGED <<history, lock, call, seen, crashes>>

\* replace_atomic(pointer_path)
Swap(w) ==
  /\ Move(w, "swap", "release")
  /\ pointer' = call[w].update
  /\ Answer(w, "ok")
  /\ UNCHANGED <<history, lock, call, seen, crashes>>

\* The finally block unlinks the lock file, whoever created it.
Release(w) ==
  /\ pc[w] = "release"
  /\ lock' = NoWriter
  /\ Leave(w)
  /\ UNCHANGED <<store, crashes>>

Crash(w) ==
  /\ pc[w] # "idle" /\ crashes < MaxCrashes
  /\ crashes' = crashes + 1
  /\ Leave(w)
  /\ UNCHANGED <<store, lock>>

\* The operator removes the lock file of a process that is gone.
RemoveStaleLock ==
  /\ lock # NoWriter /\ pc[lock] \notin Inside
  /\ lock' = NoWriter
  /\ UNCHANGED <<store, pc, call, seen, result, crashes>>

Proceed(w) ==
  \/ Acquire(w) \/ TimeOut(w) \/ Load(w) \/ Replay(w) \/ Refuse(w) \/ Admit(w)
  \/ HistoryClash(w) \/ WriteHistory(w) \/ Swap(w) \/ Release(w)

Next ==
  \/ \E w \in Writers : Call(w) \/ Proceed(w) \/ Crash(w)
  \/ RemoveStaleLock

Spec == Init /\ [][Next]_vars

\* Every process that is inside a call goes on with it.
FairSpec == Spec /\ \A w \in Writers : WF_vars(Proceed(w))

-----------------------------------------------------------------------------

\* Every variable has its type.
TypeOK ==
  /\ pointer \in PointerType \cup {NoPointer}
  /\ history \subseteq PointerType
  /\ lock \in Writers \cup {NoWriter}
  /\ pc \in [Writers -> Inside \cup {"idle", "acquire"}]
  /\ call \in [Writers -> CallType \cup {NoCall}]
  /\ seen \in [Writers -> PointerType \cup {NoPointer}]
  /\ result \in [Writers -> {"none", "ok", "conflict"}]
  /\ crashes \in 0..MaxCrashes

\* The lock file really excludes: a process between load and unlink is its
\* owner, across crashes and the operator's removals (exclusive_lock).
OneWriterInside == \A w \in Writers : pc[w] \in Inside => lock = w

\* Nobody decides about, records or replaces a Peak that is no longer the one
\* it loaded: the value read under the lock is current up to the swap.
DecidesOnCurrentPeak ==
  \A w \in Writers : pc[w] \in {"decide", "history", "swap"} => seen[w] = pointer

\* One process at a time is between load and unlink, and what it decides,
\* records and replaces is the Peak of that moment (compare_and_swap).
SwapsAreCurrent == OneWriterInside /\ DecidesOnCurrentPeak

\* The pointer file never names an update that is not in the history or whose
\* links do not verify, and a caller told "ok" finds its own update, not
\* another of that name, in the history (write_immutable before
\* replace_atomic; the byte comparison of a repetition).
PeakIsRecorded ==
  /\ pointer # NoPointer => pointer \in history \cap Linked
  /\ \A w \in Writers : result[w] = "ok" => call[w].update \in history

Register == INSTANCE PeakRegister WITH peak <- pointer

\* Whatever the processes do, the pointer file is a register that moves only
\* from a Peak to its better successor (docs/lineage-runtime.md, section 3).
PeakIsRegister == Register!Spec

\* A caller never waits for ever, not even behind the lock of a dead process.
WaitsAreBounded == \A w \in Writers : pc[w] = "acquire" ~> pc[w] # "acquire"

=============================================================================
