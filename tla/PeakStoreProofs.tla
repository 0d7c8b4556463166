--------------------------- MODULE PeakStoreProofs ---------------------------
(***************************************************************************)
(* PeakStore for any number of processes, checkpoints and calls: the lock  *)
(* excludes, what is decided on is current, the history is written before  *)
(* the pointer, and the pointer file implements PeakRegister.              *)
(***************************************************************************)
EXTENDS PeakStore, TLAPS

\* A process in a call holds one of the calls, and only one that is about to
\* release the lock has an answer.
CallInProgress ==
  \A w \in Writers : /\ pc[w] # "idle" => call[w] \in Calls
                     /\ result[w] = "ok" => pc[w] = "release"

\* An update on its way to the files passed every check against the Peak that
\* was loaded, and one on its way to the pointer is in the history.
AdmittedAndRecorded ==
  \A w \in Writers :
    /\ pc[w] \in {"history", "swap"} =>
         Passes(call[w].update, call[w].expected, seen[w])
    /\ pc[w] = "swap" => call[w].update \in history

\* The inductive invariant.
IInv ==
  /\ TypeOK
  /\ OneWriterInside
  /\ DecidesOnCurrentPeak
  /\ CallInProgress
  /\ AdmittedAndRecorded
  /\ PeakIsRecorded

-----------------------------------------------------------------------------

\* The initial state satisfies the invariant.
LEMMA InitIInv == Init => IInv
  BY StoreAssumption
  DEF Init, IInv, TypeOK, OneWriterInside, DecidesOnCurrentPeak, CallInProgress,
      AdmittedAndRecorded, PeakIsRecorded, Inside, CallType

\* Every pointer a caller can bring is a pointer of the right type, and none
\* of them is the empty one.
LEMMA CallsAreTyped ==
  ASSUME NEW c \in Calls
  PROVE  c \in CallType /\ c.update \in PointerType /\ c.update # NoPointer
  BY StoreAssumption DEF CallType, PointerType, NoPointer

\* Every step preserves the invariant.
LEMMA NextIInv == IInv /\ [Next]_vars => IInv'
<1> SUFFICES ASSUME IInv, [Next]_vars PROVE IInv'
  OBVIOUS
<1> USE StoreAssumption, CallsAreTyped
    DEF IInv, TypeOK, OneWriterInside, DecidesOnCurrentPeak, CallInProgress,
        AdmittedAndRecorded, PeakIsRecorded, Inside, store
<1>1. ASSUME NEW w \in Writers, Call(w) PROVE IInv'
  BY <1>1 DEF Call, Move
<1>2. ASSUME NEW w \in Writers, Acquire(w) PROVE IInv'
  BY <1>2 DEF Acquire, Move
<1>3. ASSUME NEW w \in Writers, TimeOut(w) PROVE IInv'
  BY <1>3 DEF TimeOut, Leave
<1>4. ASSUME NEW w \in Writers, Load(w) PROVE IInv'
  BY <1>4 DEF Load, Move
<1>5. ASSUME NEW w \in Writers, Replay(w) PROVE IInv'
  BY <1>5 DEF Replay, IsReplay, Move, Answer
<1>6. ASSUME NEW w \in Writers, Refuse(w) PROVE IInv'
  BY <1>6 DEF Refuse, Move, Answer
<1>7. ASSUME NEW w \in Writers, Admit(w) PROVE IInv'
  BY <1>7 DEF Admit, Move
<1>8. ASSUME NEW w \in Writers, HistoryClash(w) PROVE IInv'
  BY <1>8 DEF HistoryClash, Move, Answer
<1>9. ASSUME NEW w \in Writers, WriteHistory(w) PROVE IInv'
  BY <1>9 DEF WriteHistory, Move, Passes
<1>10. ASSUME NEW w \in Writers, Swap(w) PROVE IInv'
  <2> USE <1>10 DEF Swap, Move, Answer
  <2>1. /\ lock = w
        /\ call[w].update \in Linked \cap history
    BY DEF Passes
  \* Nobody else is inside, so nobody else has loaded the old pointer.
  <2>2. \A v \in Writers : v # w => pc[v] \notin Inside
    BY <2>1
  <2>3. TypeOK' /\ OneWriterInside'
    BY <2>1
  <2>4. DecidesOnCurrentPeak'
    BY <2>2
  <2>5. CallInProgress' /\ AdmittedAndRecorded'
    BY <2>2
  <2>6. PeakIsRecorded'
    BY <2>1, <2>2
  <2> QED
    BY <2>3, <2>4, <2>5, <2>6
<1>11. ASSUME NEW w \in Writers, Release(w) PROVE IInv'
  BY <1>11 DEF Release, Leave
<1>12. ASSUME NEW w \in Writers, Crash(w) PROVE IInv'
  BY <1>12 DEF Crash, Leave
<1>13. CASE RemoveStaleLock
  BY <1>13 DEF RemoveStaleLock
<1>14. CASE UNCHANGED vars
  BY <1>14 DEF vars
<1> QED
  BY <1>1, <1>2, <1>3, <1>4, <1>5, <1>6, <1>7, <1>8, <1>9, <1>10, <1>11, <1>12,
     <1>13, <1>14 DEF Next, Proceed

\* The invariant holds in every reachable state.
THEOREM Invariance == Spec => []IInv
<1>1. Init => IInv
  BY InitIInv
<1>2. IInv /\ [Next]_vars => IInv'
  BY NextIInv
<1> QED
  BY <1>1, <1>2, PTL DEF Spec

\* Every variable of the Peak store keeps its type, for any number of processes.
THEOREM TypeCorrect == Spec => []TypeOK
BY Invariance, PTL DEF IInv

\* The lock file admits one process at a time, whatever crashes and removals
\* of stale locks happen (exclusive_lock).
THEOREM LockExcludes == Spec => []OneWriterInside
BY Invariance, PTL DEF IInv

\* compare_and_swap decides on, records and replaces the Peak it loaded, never
\* one that has been replaced since.
THEOREM DecisionsAreCurrent == Spec => []DecidesOnCurrentPeak
BY Invariance, PTL DEF IInv

\* Both: no process swaps out a Peak but the one it decided about, alone.
THEOREM CurrentSwaps == Spec => []SwapsAreCurrent
BY LockExcludes, DecisionsAreCurrent, PTL DEF SwapsAreCurrent

\* The pointer file and every "ok" are backed by the history and by verified
\* links.
THEOREM PeakRecorded == Spec => []PeakIsRecorded
BY Invariance, PTL DEF IInv

-----------------------------------------------------------------------------

\* The swap is the only step that the abstract register sees, and it is one
\* of its steps: by the invariant the update passed its checks against the
\* very pointer it replaces.
LEMMA SwapAdvances ==
  ASSUME IInv, NEW w \in Writers, Swap(w)
  PROVE  Register!Next
<1> DEFINE u == call[w].update
<1>1. /\ pointer' = u
      /\ seen[w] = pointer
      /\ Passes(u, call[w].expected, pointer)
      /\ u \in PointerType
  BY CallsAreTyped
  DEF IInv, TypeOK, DecidesOnCurrentPeak, CallInProgress, AdmittedAndRecorded, Swap, Move
<1>2. CASE pointer = NoPointer
  <2>1. Register!Install(u)
    BY <1>1, <1>2, StoreAssumption
    DEF Register!Install, Register!Empty, NoPointer, Passes, PointerType
  <2> QED
    BY <1>1, <2>1 DEF Register!Next
<1>3. CASE pointer # NoPointer
  <2>1. pointer \in PointerType
    BY <1>3 DEF IInv, TypeOK
  <2>2. Register!Advance(u)
    BY <1>1, <1>3, <2>1 DEF Register!Advance, Passes, PointerType
  <2> QED
    BY <1>1, <2>2 DEF Register!Next
<1> QED
  BY <1>2, <1>3

\* Every step of the store is a step of the register or leaves it alone.
LEMMA StepRefines == IInv /\ [Next]_vars => [Register!Next]_pointer
<1> SUFFICES ASSUME IInv, [Next]_vars, pointer' # pointer PROVE Register!Next
  OBVIOUS
<1>1. PICK w \in Writers : Swap(w)
  BY DEF Next, Proceed, Call, Acquire, TimeOut, Load, Replay, Refuse, Admit, HistoryClash,
         WriteHistory, Release, Crash, RemoveStaleLock, vars, store
<1> QED
  BY <1>1, SwapAdvances

\* PeakPointerStore implements the register: with any number of writers, any
\* crashes and any interleaving, the Peak only ever moves to a successor with
\* a strictly higher score (docs/lineage-runtime.md, section 3).
THEOREM ImplementsRegister == Spec => PeakIsRegister
<1>1. Init => Register!Init
  BY DEF Init, Register!Init, Register!Empty, NoPointer
<1>2. IInv /\ [Next]_vars => [Register!Next]_pointer
  BY StepRefines
<1> QED
  BY <1>1, <1>2, Invariance, PTL DEF Spec, PeakIsRegister, Register!Spec

=============================================================================
