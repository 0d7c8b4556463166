------------------------- MODULE CoevolutionProofs -------------------------
(***************************************************************************)
(* What the durable controller keeps for every configuration, any number   *)
(* of processes, any number of crashes and whatever the reviewers answer.  *)
(*                                                                         *)
(* The two pointers are linked and rise because the stores see to it:      *)
(* nothing is used of what the handlers compute.  That the run record is   *)
(* backed by what is committed, and that every pointer has its authority,  *)
(* follows from the order of the operations in each plan: a plan is good   *)
(* when each of its operations is warranted by those before it, and what   *)
(* an operation left on the disk is never taken back, by whichever process.*)
(*                                                                         *)
(* How far a pointer is ahead of the record, for one process, follows from *)
(* the order in which a plan moves pointers and record (Course) and from   *)
(* where it moves them (Aimed).                                            *)
(*                                                                         *)
(* That a dataset is approved before it trains a model, for one process    *)
(* that does not crash, follows from what every other handler may not do   *)
(* (Tame), from how the batch hands a dataset over (Handover), and from    *)
(* the evidence of the review never being taken already (Fresh).           *)
(***************************************************************************)
EXTENDS CoevolutionProperties, SequenceTheorems, TLAPS

Stores == {"peak", "harness"}

\* The fields the proof reads are there, whatever was written to them.
Shape ==
  /\ {"files", "torn", "txs", "bundles", "active", "history", "markers",
      "requests", "answers", "record"} \subseteq DOMAIN disk
  /\ Stores \subseteq DOMAIN disk.bundles
  /\ Stores \subseteq DOMAIN disk.active
  /\ Stores \subseteq DOMAIN disk.history

\* A pointer that is there has its history file.
ActiveIsKept ==
  \A w \in Stores : disk.active[w] # NoPointer => disk.active[w] \in disk.history[w]

PointerInv == Shape /\ ActiveIsKept /\ PointerChain

\* Nothing is taken back: transactions, bundles, requests and answers stay.
Grows ==
  /\ disk.txs \subseteq disk'.txs
  /\ disk.requests \subseteq disk'.requests
  /\ disk.answers \subseteq disk'.answers
  /\ \A w \in Stores : disk.bundles[w] \subseteq disk'.bundles[w]

StillOf(w) == disk'.active[w] = disk.active[w] /\ disk'.history[w] = disk.history[w]

Still == \A w \in Stores : StillOf(w)

\* A process is at the operation that moves a pointer.
Asked(w, p) ==
  \E c \in DOMAIN crew :
    /\ crew[c].job \in Handlers
    /\ Plan(crew[c])[crew[c].at].do = "point"
    /\ Plan(crew[c])[crew[c].at].which = w
    /\ Plan(crew[c])[crew[c].at].to = p

Moves ==
  \E w \in Stores : \E p : /\ Asked(w, p) /\ MayPoint(w, p)
                           /\ disk'.active[w] = p
                           /\ disk'.history[w] = disk.history[w] \cup {p}
                           /\ \A v \in Stores \ {w} : StillOf(v)

\* An operation that is refused leaves the disk alone.
LEMMA Refused ==
  ASSUME Shape, disk' = disk
  PROVE  Shape' /\ Grows /\ Still
  BY DEF Shape, Grows, Still, StillOf, Stores

\* What each operation of a plan does to the stores of the pointers.
LEMMA Writes ==
  ASSUME Shape, NEW c, NEW op,
         \/ WriteFile(c, op) \/ Commit(c, op) \/ CheckHarness(c, op) \/ Mark(c, op)
         \/ Request(c, op) \/ CreateRun(c, op) \/ UpdateRun(c, op)
         \/ Reload(c, op) \/ Raise(c, op)
  PROVE  Shape' /\ Grows /\ Still
<1>1. CASE disk' = disk
  BY <1>1, Refused
<1>2. CASE \/ disk' = [disk EXCEPT !.files = @ \cup {op.path}]
           \/ disk' = [disk EXCEPT !.markers = @ \cup {op.id}]
           \/ disk' = [disk EXCEPT !.requests = @ \cup {op.id}]
           \/ disk' = [disk EXCEPT !.record = op.to]
  BY <1>2 DEF Shape, Grows, Still, StillOf, Stores
<1>3. CASE disk' = [disk EXCEPT !.txs = @ \cup {Transaction(c, op)}]
  BY <1>3 DEF Shape, Grows, Still, StillOf, Stores
<1>4. QED
  BY <1>1, <1>2, <1>3 DEF WriteFile, Commit, CheckHarness, Mark, Request, CreateRun,
     UpdateRun, Reload, Raise, Effect

\* A bundle store adds to its own bundles.
LEMMA Bundles ==
  ASSUME Shape, NEW c, NEW op, StoreBundle(c, op)
  PROVE  Shape' /\ Grows /\ Still
<1>1. CASE disk' = disk
  BY <1>1, Refused
<1>2. CASE disk' = [disk EXCEPT !.bundles[op.which] = @ \cup {op.of}]
  BY <1>2 DEF Shape, Grows, Still, StillOf, Stores
<1>3. QED
  BY <1>1, <1>2 DEF StoreBundle, Effect

\* compare_and_swap moves one pointer and keeps it in its history.
LEMMA Pointers ==
  ASSUME Shape, NEW c \in DOMAIN crew, crew[c].job \in Handlers,
         NEW op, op = Plan(crew[c])[crew[c].at], MovePointer(c, op)
  PROVE  Shape' /\ Grows /\ (Still \/ Moves)
<1>1. CASE disk' = disk
  BY <1>1, Refused
<1>2. CASE /\ MayPoint(op.which, op.to)
           /\ disk' = [disk EXCEPT !.active[op.which] = op.to,
                                   !.history[op.which] = @ \cup {op.to}]
  <2>1. Shape' /\ Grows
    BY <1>2 DEF Shape, Grows, Stores
  <2>2. /\ disk'.active = [disk.active EXCEPT ![op.which] = op.to]
        /\ disk'.history = [disk.history EXCEPT ![op.which] = @ \cup {op.to}]
    BY <1>2 DEF Shape, Stores
  <2>3. \A v \in Stores \ {op.which} : StillOf(v)
    BY <2>2 DEF StillOf, Shape
  <2>4. ASSUME op.which \in Stores
        PROVE  /\ disk'.active[op.which] = op.to
               /\ disk'.history[op.which] = disk.history[op.which] \cup {op.to}
    BY <2>2, <2>4 DEF Shape
  <2>5. op.which \in Stores => Moves
    <3>1. Asked(op.which, op.to)
      BY DEF Asked, MovePointer
    <3> QED BY <1>2, <2>3, <2>4, <3>1 DEF Moves
  <2>6. op.which \notin Stores => Still
    BY <2>3 DEF Still
  <2>7. QED
    BY <2>1, <2>5, <2>6
<1>3. QED
  BY <1>1, <1>2 DEF MovePointer, Effect

\* One step of the system, as far as the pointers are concerned.
LEMMA Step ==
  ASSUME Shape, [Next]_vars
  PROVE  Shape' /\ Grows /\ (Still \/ Moves)
<1>1. CASE UNCHANGED vars
  BY <1>1, Refused DEF vars
<1>2. ASSUME NEW c \in DOMAIN crew, Perform(c)
      PROVE  Shape' /\ Grows /\ (Still \/ Moves)
  <2>1. PICK op \in NextOp(c) :
          \/ WriteFile(c, op) \/ Commit(c, op) \/ StoreBundle(c, op)
          \/ MovePointer(c, op) \/ CheckHarness(c, op) \/ Mark(c, op)
          \/ Request(c, op) \/ CreateRun(c, op) \/ UpdateRun(c, op)
          \/ Reload(c, op) \/ Raise(c, op)
    BY <1>2 DEF Perform
  <2>2. CASE StoreBundle(c, op)
    BY <2>2, Bundles
  <2>3. CASE MovePointer(c, op)
    BY <1>2, <2>1, <2>3, Pointers DEF Perform, NextOp
  <2>4. QED
    BY <2>1, <2>2, <2>3, Writes
<1>3. ASSUME NEW c \in DOMAIN crew, Start(c) \/ Dispatch(c) \/ Crash(c)
      PROVE  Shape' /\ Grows /\ (Still \/ Moves)
  BY <1>3, Refused DEF Start, Dispatch, Crash
<1>4. ASSUME NEW c \in DOMAIN crew, CrashInWrite(c)
      PROVE  Shape' /\ Grows /\ (Still \/ Moves)
  <2>1. PICK op \in NextOp(c) : disk' = [disk EXCEPT !.torn = @ \cup {op.path}]
    BY <1>4 DEF CrashInWrite
  <2>2. QED
    BY <2>1 DEF Shape, Grows, Still, StillOf, Stores
<1>5. ASSUME NEW id \in disk.requests, NEW approved \in BOOLEAN, Review(id, approved)
      PROVE  Shape' /\ Grows /\ (Still \/ Moves)
  <2>1. disk' = [disk EXCEPT !.answers = @ \cup {<<id, approved>>}]
    BY <1>5 DEF Review
  <2>2. QED
    BY <2>1 DEF Shape, Grows, Still, StillOf, Stores
<1>6. QED
  BY <1>1, <1>2, <1>3, <1>4, <1>5 DEF Next, Goes

\* A decision and a bundle that are there stay there.
LEMMA LinksStay ==
  ASSUME Grows, NEW w \in Stores, NEW p, Linked(w, p)
  PROVE  Linked(w, p)'
<1>1. PICK b \in disk.bundles[w] :
        b.id = p.id /\ b.order = p.order /\ b.score = p.score /\ b.by = p.by
  BY DEF Linked
<1>2. b \in disk'.bundles[w]
  BY <1>1 DEF Grows
<1>3. disk.txs \subseteq disk'.txs
  BY DEF Grows
<1>4. QED
  BY <1>1, <1>2, <1>3 DEF Linked

\* The chain holds of what was there before, whatever the step.
LEMMA OldPointers ==
  ASSUME PointerChain, Grows, NEW w \in Stores, NEW p \in disk.history[w],
         disk.history[w] \subseteq disk'.history[w]
  PROVE  /\ Linked(w, p)'
         /\ p.prev # None => \E q \in disk'.history[w] : q.id = p.prev /\ q.score < p.score
<1>1. /\ Linked(w, p)
      /\ p.prev # None => \E q \in disk.history[w] : q.id = p.prev /\ q.score < p.score
  BY DEF PointerChain, Stores
<1>2. Linked(w, p)'
  BY <1>1, LinksStay
<1>3. QED
  BY <1>1, <1>2

\* compare_and_swap: a repetition adds nothing, and a pointer that moves has
\* its links and comes after the one it replaces, which has a history file.
LEMMA NewPointer ==
  ASSUME PointerInv, Grows, NEW w \in Stores, NEW p, MayPoint(w, p),
         disk'.history[w] = disk.history[w] \cup {p}
  PROVE  /\ Linked(w, p)'
         /\ p.prev # None => \E q \in disk'.history[w] : q.id = p.prev /\ q.score < p.score
<1>1. CASE disk.active[w] # NoPointer /\ disk.active[w] = p
  <2>1. p \in disk.history[w]
    BY <1>1 DEF PointerInv, ActiveIsKept
  <2>2. QED
    BY <2>1, OldPointers DEF PointerInv
<1>2. CASE /\ disk.active[w].id = p.prev
           /\ disk.active[w] # NoPointer => p.score > disk.active[w].score
           /\ Linked(w, p)
  <2>1. Linked(w, p)'
    BY <1>2, LinksStay
  <2>2. ASSUME p.prev # None
        PROVE  \E q \in disk'.history[w] : q.id = p.prev /\ q.score < p.score
    <3>1. disk.active[w] # NoPointer
      BY <1>2, <2>2 DEF NoPointer
    <3>2. disk.active[w] \in disk.history[w]
      BY <3>1 DEF PointerInv, ActiveIsKept
    <3>3. disk.active[w].score < p.score
      BY <1>2, <3>1
    <3>4. QED
      BY <1>2, <3>2, <3>3
  <2>3. QED
    BY <2>1, <2>2
<1>3. QED
  BY <1>1, <1>2 DEF MayPoint

\* The chain is inductive.
LEMMA ChainKept ==
  ASSUME PointerInv, [Next]_vars
  PROVE  ActiveIsKept' /\ PointerChain'
<1>1. Shape' /\ Grows /\ (Still \/ Moves)
  BY Step DEF PointerInv
<1>2. CASE Still
  <2>1. ActiveIsKept'
    BY <1>2 DEF PointerInv, ActiveIsKept, Still, StillOf
  <2>2. ASSUME NEW w \in Stores, NEW p \in disk'.history[w]
        PROVE  /\ Linked(w, p)'
               /\ p.prev # None => \E q \in disk'.history[w] : q.id = p.prev /\ q.score < p.score
    BY <1>1, <1>2, <2>2, OldPointers DEF PointerInv, Still, StillOf
  <2>3. QED
    BY <2>1, <2>2 DEF PointerChain, Stores
<1>3. CASE Moves
  <2>0. PICK w \in Stores : \E p : /\ MayPoint(w, p)
                                   /\ disk'.active[w] = p
                                   /\ disk'.history[w] = disk.history[w] \cup {p}
                                   /\ \A v \in Stores \ {w} : StillOf(v)
    BY <1>3 DEF Moves
  <2>1. PICK p : /\ MayPoint(w, p)
                 /\ disk'.active[w] = p
                 /\ disk'.history[w] = disk.history[w] \cup {p}
                 /\ \A v \in Stores \ {w} : StillOf(v)
    BY <2>0
  <2>2. ActiveIsKept'
    BY <2>1 DEF PointerInv, ActiveIsKept, StillOf
  <2>3. ASSUME NEW v \in Stores, NEW r \in disk'.history[v]
        PROVE  /\ Linked(v, r)'
               /\ r.prev # None => \E q \in disk'.history[v] : q.id = r.prev /\ q.score < r.score
    <3>1. CASE r \in disk.history[v]
      BY <1>1, <2>1, <3>1, OldPointers DEF PointerInv, StillOf
    <3>2. CASE v = w /\ r = p
      BY <1>1, <2>1, <3>2, NewPointer
    <3>3. QED
      BY <2>1, <2>3, <3>1, <3>2 DEF StillOf
  <2>4. QED
    BY <2>2, <2>3 DEF PointerChain, Stores
<1>4. QED
  BY <1>1, <1>2, <1>3

\* Whatever a pointer of the durable controller ever was rests on a committed
\* decision and its bundle, and came after a pointer of a lower score: the
\* first part of PointersJustified (HarnessPointerStore and PeakPointerStore).
THEOREM PointersRise == Spec => []PointerChain
<1>1. Init => PointerInv
  BY DEF Init, EmptyDisk, PointerInv, Shape, ActiveIsKept, PointerChain, Stores
<1>2. PointerInv /\ [Next]_vars => PointerInv'
  BY Step, ChainKept DEF PointerInv
<1>3. PointerInv => PointerChain
  BY DEF PointerInv
<1>4. QED
  BY <1>1, <1>2, <1>3, PTL DEF Spec

\* What a snapshot consists of, at every stage of a handler.
States ==
  {"FREEZE_MODEL", "MUTATE_HARNESS", "VALIDATE_HARNESS", "EVALUATE_HARNESS",
   "ACCEPT_HARNESS", "REJECT_HARNESS", "HARNESS_REVIEW_PENDING", "HARVEST_TRACES",
   "VERIFY_TRACES", "QUARANTINED", "DATA_REVIEW_PENDING", "TRAIN_MODEL",
   "EVALUATE_MODEL", "MODEL_REVIEW_PENDING", "PROMOTE_MODEL", "ROLLBACK_MODEL",
   "SLIM_HARNESS", "STOPPED", "ABORTED", "NONE"}

Stops == {"NONE", "PER_ITERATION_BUDGET_EXCEEDED", "TOTAL_BUDGET_EXCEEDED",
          "MAX_ITERATIONS", "APPROVAL_NOT_GRANTED", "CYCLE_LIMIT"}

Metas == [modelScore : Int, verified : Int, batches : Int, batch : Int,
          dataset : Int, accepted : Int,
          review : {"NONE", "REQUESTED", "GRANTED", "DENIED"}]

Snapshots ==
  [state : States, cycle : Int, iteration : Int, ckpt : Int, peak : Int,
   harness : Int, candCkpt : Int, candHarness : Int, candScore : Int,
   score : Int, plateau : Int, cost : Int, stop : Stops, meta : Metas]

\* A snapshot with the active model and the active Harness of another.
Like(s, t) == t \in Snapshots /\ t.ckpt = s.ckpt /\ t.harness = s.harness

\* A step that ends, with a snapshot that has all its fields.
Ends(step) == Len(step) \in DOMAIN step /\ Final(step) \in Snapshots

\* The empty values of the snapshot fields.
LEMMA NoneType == None \in Int
  BY DEF None

LEMMA NoMetaType == NoMeta \in Metas
  BY NoneType DEF NoMeta, Metas

LEMMA NoSnapshotType == NoSnapshot \in Snapshots
  BY NoneType, NoMetaType DEF NoSnapshot, Snapshots, States, Stops

\* A step of one record, and of two.
LEMMA OneEdge ==
  ASSUME NEW e, e.snap \in Snapshots
  PROVE  Ends(<< e >>) /\ Final(<< e >>) = e.snap /\ << e >>[1] = e
  BY DEF Ends, Final

LEMMA TwoEdges ==
  ASSUME NEW e, NEW f, f.snap \in Snapshots
  PROVE  LET step == Append(<< e >>, f)
         IN  Ends(step) /\ Final(step) = f.snap /\ step[1] = e
<1>1. << e >> \in Seq({e, f}) /\ Len(<< e >>) = 1 /\ << e >>[1] = e
  OBVIOUS
<1>2. /\ Len(Append(<< e >>, f)) = 2
      /\ Append(<< e >>, f)[2] = f /\ Append(<< e >>, f)[1] = e
      /\ DOMAIN Append(<< e >>, f) = 1..2
  BY <1>1, AppendProperties
<1> QED BY <1>2 DEF Final, Ends

\* One field is replaced.
LEMMA Replaced ==
  ASSUME NEW s \in Snapshots, NEW n \in Int
  PROVE  /\ Like(s, [s EXCEPT !.cost = n]) /\ Like(s, [s EXCEPT !.iteration = n])
         /\ Like(s, [s EXCEPT !.candScore = n]) /\ Like(s, [s EXCEPT !.candHarness = n])
  BY DEF Snapshots, Like

\* A state change and an iteration change keep model and Harness.
LEMMA EnterFields ==
  ASSUME NEW s \in Snapshots, NEW state \in States
  PROVE  LET t == Enter(s, state)
         IN  /\ Like(s, t) /\ t.state = state
             /\ t.candHarness = s.candHarness /\ t.candScore = s.candScore
             /\ t.plateau = s.plateau /\ t.cost = s.cost /\ t.iteration = s.iteration
  BY NoMetaType, NoneType DEF Enter, Snapshots, Stops, Like

LEMMA WithoutFields ==
  ASSUME NEW s \in Snapshots
  PROVE  Like(s, Without(s)) /\ Without(s).iteration = s.iteration
  BY NoneType DEF Without, Snapshots, Like

LEMMA Likes ==
  ASSUME NEW s, NEW t, NEW u, Like(s, t), Like(t, u) PROVE Like(s, u)
  BY DEF Like

\* After a decided attempt the search goes on or the harvest begins.
LEMMA AdvanceEnds ==
  ASSUME NEW L, NEW e, e.snap \in Snapshots
  PROVE  LET step == Advance(L, << e >>)
         IN  Ends(step) /\ Like(e.snap, Final(step)) /\ step[1] = e
<1> DEFINE s == e.snap
           h == Without(Enter(s, "HARVEST_TRACES"))
           r == Without(Enter(s, "MUTATE_HARNESS"))
           m == [r EXCEPT !.iteration = @ + 1]
<1>1. Like(s, h)
  BY EnterFields, WithoutFields, Likes DEF States, Like
<1>2. Like(s, r)
  BY EnterFields, WithoutFields, Likes DEF States, Like
<1>3. r.iteration + 1 \in Int
  BY <1>2 DEF Like, Snapshots
<1>4. Like(s, m)
  <2> HIDE DEF r
  <2> QED BY <1>2, <1>3, Replaced, Likes DEF Like
<1>5. PICK f : Advance(L, << e >>) = Append(<< e >>, f) /\ Like(s, f.snap)
  <2> HIDE DEF h, m
  <2>1. Edge("CONTINUE", "RUN", None, h).snap = h
        /\ Edge("CONTINUE", "HARNESS", s.harness, m).snap = m
    BY DEF Edge
  <2>2. Final(<< e >>) = s
    BY OneEdge
  <2>3. Advance(L, << e >>) \in {Append(<< e >>, Edge("CONTINUE", "RUN", None, h)),
                                 Append(<< e >>, Edge("CONTINUE", "HARNESS", s.harness, m))}
    BY <2>2 DEF Advance, h, m
  <2> QED BY <1>1, <1>4, <2>1, <2>3
<1> HIDE DEF h, r, m
<1>6. f.snap \in Snapshots
  BY <1>5 DEF Like
<1>7. LET step == Append(<< e >>, f)
      IN  Ends(step) /\ Final(step) = f.snap /\ step[1] = e
  BY <1>6, TwoEdges
<1> HIDE DEF s
<1> QED BY <1>5, <1>7 DEF s

\* What the decisions on a Harness candidate leave in the snapshot.
LEMMA AcceptFields ==
  ASSUME NEW s \in Snapshots, NEW score \in Int
  PROVE  LET t == Accept(s, score).snap
         IN  /\ t \in Snapshots /\ t.ckpt = s.ckpt /\ t.harness = s.candHarness
             /\ t.state = "ACCEPT_HARNESS"
<1> DEFINE t == Enter(s, "ACCEPT_HARNESS")
<1>1. Like(s, t) /\ t.state = "ACCEPT_HARNESS"
  BY EnterFields DEF States
<1>2. s.candHarness \in Int
  BY DEF Snapshots
<1> HIDE DEF t
<1> DEFINE u == [t EXCEPT !.harness = s.candHarness, !.candScore = score,
                          !.score = score, !.plateau = 0]
<1>6. t \in Snapshots /\ 0 \in Int
  BY <1>1 DEF Like
<1>3. u \in Snapshots
  BY <1>2, <1>6 DEF Snapshots
<1>5. u.ckpt = s.ckpt /\ u.harness = s.candHarness
      /\ u.state = "ACCEPT_HARNESS"
  BY <1>1, <1>2 DEF Like, Snapshots
<1>4. Accept(s, score).snap = u
  BY DEF Accept, Edge, t
<1> HIDE DEF u
<1> QED BY <1>3, <1>4, <1>5

LEMMA RejectFields ==
  ASSUME NEW s \in Snapshots, NEW score \in Int
  PROVE  LET t == Reject(s, score).snap IN Like(s, t) /\ t.state = "REJECT_HARNESS"
<1> DEFINE t == Enter(s, "REJECT_HARNESS")
<1>1. Like(s, t) /\ t.state = "REJECT_HARNESS"
  BY EnterFields DEF States
<1> HIDE DEF t
<1> DEFINE u == [t EXCEPT !.candScore = score, !.plateau = @ + 1]
<1>2. t \in Snapshots /\ t.plateau + 1 \in Int
  BY <1>1 DEF Like, Snapshots
<1>3. Like(s, u) /\ u.state = "REJECT_HARNESS"
  BY <1>1, <1>2 DEF Like, Snapshots
<1>4. Reject(s, score).snap = u
  BY DEF Reject, Edge, t
<1> HIDE DEF u
<1> QED BY <1>3, <1>4

\* Mutation and validation only set the candidate.
LEMMA PreparedFields ==
  ASSUME NEW s \in Snapshots, NEW candidate \in Int, NEW L
  PROVE  LET created == CandidateCreated(s, candidate)
             validated == ValidationCompleted(L, Final(created), TRUE)
         IN  /\ Like(s, Final(validated))
             /\ Final(validated).candHarness = candidate
<1> DEFINE a == [Enter(s, "VALIDATE_HARNESS") EXCEPT !.candHarness = candidate, !.candScore = None]
           b == [Enter(a, "EVALUATE_HARNESS") EXCEPT !.candScore = None]
<1>1. Like(s, a) /\ a.candHarness = candidate
  <2> DEFINE t == Enter(s, "VALIDATE_HARNESS")
  <2>1. Like(s, t)
    BY EnterFields DEF States
  <2> HIDE DEF t
  <2>2. Like(s, [t EXCEPT !.candHarness = candidate, !.candScore = None])
        /\ [t EXCEPT !.candHarness = candidate, !.candScore = None].candHarness = candidate
    BY <2>1, NoneType DEF Like, Snapshots
  <2> QED BY <2>2 DEF t
<1> HIDE DEF a
<1>2. Like(s, b) /\ b.candHarness = candidate
  <2> DEFINE t == Enter(a, "EVALUATE_HARNESS")
  <2>1. Like(s, t) /\ t.candHarness = candidate
    BY <1>1, EnterFields DEF States, Like
  <2> HIDE DEF t
  <2>2. Like(s, [t EXCEPT !.candScore = None])
        /\ [t EXCEPT !.candScore = None].candHarness = candidate
    BY <2>1, NoneType DEF Like, Snapshots
  <2> QED BY <2>2 DEF t
<1> HIDE DEF b
<1>3. Final(CandidateCreated(s, candidate)) = a
  BY <1>1, OneEdge DEF CandidateCreated, Edge, a, Like
<1>4. Final(ValidationCompleted(L, a, TRUE)) = b
  BY <1>2, OneEdge DEF ValidationCompleted, Edge, b, Like
<1> QED BY <1>2, <1>3, <1>4

\* A crossed budget ends the run with the cost that crossed it.
LEMMA AbortFields ==
  ASSUME NEW L, NEW s \in Snapshots, NEW score \in Int, NEW cost \in Int
  PROVE  LET t == OuterAbort(L, s, score, cost)[1].snap IN Like(s, t) /\ t.state = "ABORTED"
<1> DEFINE t == Enter(s, "ABORTED")
<1>1. Like(s, t) /\ t.state = "ABORTED"
  BY EnterFields DEF States
<1> HIDE DEF t
<1> DEFINE u == [t EXCEPT !.candScore = score, !.cost = @ + cost, !.stop = BudgetStop(cost, L.perIteration)]
<1>2. BudgetStop(cost, L.perIteration) \in Stops
  BY DEF BudgetStop, Stops
<1>5. t \in Snapshots /\ t.cost + cost \in Int
  BY <1>1 DEF Like, Snapshots
<1>3. Like(s, u) /\ u.state = "ABORTED"
  BY <1>1, <1>2, <1>5 DEF Like, Snapshots
<1>4. OuterAbort(L, s, score, cost)[1].snap = u
  BY DEF OuterAbort, Edge, t
<1> HIDE DEF u
<1> QED BY <1>3, <1>4

\* Only the cost is raised.
LEMMA PaidFields ==
  ASSUME NEW s \in Snapshots, NEW cost \in Int
  PROVE  LET t == [s EXCEPT !.cost = @ + cost] IN Like(s, t) /\ t.candHarness = s.candHarness /\ t.candCkpt = s.candCkpt
  BY DEF Like, Snapshots

\* What an evaluation decides: only without a review the candidate is accepted
\* at once.
LEMMA EvaluationEnds ==
  ASSUME NEW L, NEW s \in Snapshots, NEW score \in Int, NEW cost \in Int
  PROVE  LET step == OuterEvaluation(L, s, score, cost)
         IN  /\ Ends(step) /\ Final(step).ckpt = s.ckpt
             /\ IF step[1].snap.state = "ACCEPT_HARNESS"
                THEN Final(step).harness = s.candHarness /\ ~L.approval
                ELSE Final(step).harness = s.harness
<1> DEFINE paid == [s EXCEPT !.cost = @ + cost]
           step == OuterEvaluation(L, s, score, cost)
<1>1. Like(s, paid) /\ paid.candHarness = s.candHarness
  BY PaidFields
<1> HIDE DEF paid
<1>2. CASE step = OuterAbort(L, s, score, cost)
  <2>1. PICK e : OuterAbort(L, s, score, cost) = << e >>
    BY DEF OuterAbort
  <2> QED BY <1>2, <2>1, AbortFields, OneEdge DEF Like
<1>3. CASE step = Advance(L, << Reject(paid, score) >>)
  BY <1>1, <1>3, RejectFields, AdvanceEnds DEF Like
<1>4. CASE step = Advance(L, << Accept(paid, score) >>) /\ ~L.approval
  BY <1>1, <1>4, AcceptFields, AdvanceEnds DEF Like
<1>5. CASE step = << Edge("REQUEST_APPROVAL", "HARNESS", s.candHarness,
                   [Enter(paid, "HARNESS_REVIEW_PENDING") EXCEPT !.candScore = score]) >>
  <2> DEFINE t == Enter(paid, "HARNESS_REVIEW_PENDING")
             e == Edge("REQUEST_APPROVAL", "HARNESS", s.candHarness, [t EXCEPT !.candScore = score])
  <2>1. Like(paid, t) /\ t.state = "HARNESS_REVIEW_PENDING"
    BY <1>1, EnterFields DEF States, Like
  <2> HIDE DEF t
  <2>2. Like(paid, e.snap) /\ e.snap.state = "HARNESS_REVIEW_PENDING"
    BY <2>1 DEF Like, Snapshots, Edge
  <2>3. step = << e >>
    BY <1>5 DEF t
  <2> HIDE DEF e, step
  <2>4. e.snap \in Snapshots /\ e.snap.state # "ACCEPT_HARNESS"
    BY <2>2 DEF Like
  <2>5. Ends(step) /\ Final(step) = e.snap /\ step[1] = e
    BY <2>3, <2>4, OneEdge
  <2> QED BY <1>1, <2>2, <2>4, <2>5 DEF Like, step
<1> QED BY <1>2, <1>3, <1>4, <1>5 DEF OuterEvaluation, paid

\* What a review of a Harness decides.
LEMMA HarnessReviewEnds ==
  ASSUME NEW L, NEW s \in Snapshots, NEW approved
  PROVE  LET step == HarnessReview(L, s, approved)
         IN  /\ Ends(step) /\ Final(step).ckpt = s.ckpt
             /\ IF step[1].snap.state = "ACCEPT_HARNESS"
                THEN Final(step).harness = s.candHarness /\ approved
                ELSE Final(step).harness = s.harness
<1>1. s.candScore \in Int
  BY DEF Snapshots
<1>2. CASE approved
  <2>1. HarnessReview(L, s, approved) = Advance(L, << Accept(s, s.candScore) >>)
    BY <1>2 DEF HarnessReview
  <2> DEFINE e == Accept(s, s.candScore)
  <2>2. /\ e.snap \in Snapshots /\ e.snap.ckpt = s.ckpt
        /\ e.snap.harness = s.candHarness /\ e.snap.state = "ACCEPT_HARNESS"
    BY <1>1, AcceptFields
  <2> HIDE DEF e
  <2>3. LET step == Advance(L, << e >>)
        IN  Ends(step) /\ Like(e.snap, Final(step)) /\ step[1] = e
    BY <2>2, AdvanceEnds
  <2> QED BY <1>2, <2>1, <2>2, <2>3 DEF Like, e
<1>3. CASE ~approved
  <2>1. HarnessReview(L, s, approved) = Advance(L, << Reject(s, s.candScore) >>)
    BY <1>3 DEF HarnessReview
  <2> QED BY <1>1, <1>3, <2>1, RejectFields, AdvanceEnds DEF Like
<1> QED BY <1>2, <1>3

-----------------------------------------------------------------------------
(* Trace batches.                                                          *)

\* Metadata, with the model score of a snapshot.
LEMMA ReachFields ==
  ASSUME NEW s \in Snapshots, NEW state \in States, NEW stop \in Stops, NEW meta \in Metas
  PROVE  LET t == Reach(s, state, stop, meta) IN Like(s, t) /\ t.state = state
<1> DEFINE m == [meta EXCEPT !.modelScore = s.meta.modelScore]
<1>1. m \in Metas
  BY DEF Snapshots, Metas
<1> HIDE DEF m
<1>2. LET t == [s EXCEPT !.state = state, !.candCkpt = None, !.candHarness = None,
                         !.candScore = None, !.stop = stop, !.meta = m]
      IN  Like(s, t) /\ t.state = state
  BY <1>1, NoneType DEF Snapshots, Like
<1> QED BY <1>2 DEF Reach, m

\* A batch is harvested, or crosses a budget.
LEMMA HarvestEnds ==
  ASSUME NEW T, NEW s \in Snapshots, NEW batch \in Int, NEW cost \in Int
  PROVE  LET step == BatchHarvested(T, s, batch, cost)
         IN  Ends(step) /\ Like(s, Final(step))
<1> DEFINE stop == BudgetStop(cost, T.perBatch)
           ma == [NoMeta EXCEPT !.batch = batch]
           mv == [NoMeta EXCEPT !.verified = s.meta.verified,
                                !.batches = s.meta.batches + 1, !.batch = batch]
<1>1. stop \in Stops /\ "NONE" \in Stops
  BY DEF BudgetStop, Stops
<1>2. ma \in Metas /\ mv \in Metas
  <2>1. s.meta.verified \in Int /\ s.meta.batches + 1 \in Int
    BY DEF Snapshots, Metas
  <2> QED BY <2>1, NoMetaType DEF Metas
<1> HIDE DEF stop, ma, mv
<1> DEFINE a == Reach(s, "ABORTED", stop, ma)
           v == Reach(s, "VERIFY_TRACES", "NONE", mv)
<1>3. Like(s, a) /\ Like(s, v)
  BY <1>1, <1>2, ReachFields DEF States
<1> HIDE DEF a, v
<1>4. Like(s, [a EXCEPT !.cost = @ + cost]) /\ Like(s, [v EXCEPT !.cost = @ + cost])
  BY <1>3 DEF Like, Snapshots
<1>5. PICK e : BatchHarvested(T, s, batch, cost) = << e >> /\ Like(s, e.snap)
  <2>1. BatchHarvested(T, s, batch, cost) \in
          { << Edge("ABORT", "TRACE_BATCH", batch, [a EXCEPT !.cost = @ + cost]) >>,
            << Edge("CONTINUE", "TRACE_BATCH", batch, [v EXCEPT !.cost = @ + cost]) >> }
    BY DEF BatchHarvested, TraceAbort, a, v, stop, ma, mv
  <2>2. /\ Edge("ABORT", "TRACE_BATCH", batch, [a EXCEPT !.cost = @ + cost]).snap
             = [a EXCEPT !.cost = @ + cost]
        /\ Edge("CONTINUE", "TRACE_BATCH", batch, [v EXCEPT !.cost = @ + cost]).snap
             = [v EXCEPT !.cost = @ + cost]
    BY DEF Edge
  <2> QED BY <1>4, <2>1, <2>2
<1> QED BY <1>5, OneEdge DEF Like

\* A verified batch trains, harvests again or stops at the batch limit.
LEMMA VerificationEnds ==
  ASSUME NEW T, NEW s \in Snapshots, NEW accepted \in Int, NEW raw \in Int
  PROVE  LET step == VerificationCompleted(T, s, accepted, raw)
         IN  Ends(step) /\ Like(s, Final(step))
<1> DEFINE meta == VerifiedMeta(s, accepted)
<1>1. meta \in Metas
  <2>1. /\ s.meta.verified + accepted \in Int /\ s.meta.batches \in Int
        /\ s.meta.batch \in Int
    BY DEF Snapshots, Metas
  <2> QED BY <2>1, NoMetaType DEF Metas, VerifiedMeta
<1> HIDE DEF meta
<1>2. ASSUME NEW t, Like(s, t), NEW m \in Metas
      PROVE  Like(s, NextBatch(t, m)) /\ Like(s, BatchLimit(t, m).snap)
  <2> DEFINE h == Reach(t, "HARVEST_TRACES", "NONE", m)
             l == Reach(t, "STOPPED", "MAX_ITERATIONS", m)
  <2>1. Like(t, h) /\ Like(t, l)
    BY <1>2, ReachFields DEF Like, States, Stops
  <2> HIDE DEF h, l
  <2>2. h.iteration + 1 \in Int
    BY <2>1 DEF Like, Snapshots
  <2>3. Like(h, [h EXCEPT !.iteration = @ + 1])
    BY <2>1, <2>2, Replaced DEF Like
  <2> QED BY <1>2, <2>1, <2>3 DEF NextBatch, BatchLimit, Edge, Like, h, l
<1>3. ASSUME NEW on
      PROVE  LET step == AfterQuarantine(T, << Edge("QUARANTINE", on, s.meta.batch,
                                                    Reach(s, "QUARANTINED", "NONE", meta)) >>)
             IN  Ends(step) /\ Like(s, Final(step))
  <2> DEFINE q == Reach(s, "QUARANTINED", "NONE", meta)
             e == Edge("QUARANTINE", on, s.meta.batch, q)
  <2>1. Like(s, q) /\ e.snap = q
    BY <1>1, ReachFields DEF Edge, States, Stops
  <2> HIDE DEF q
  <2>2. q.meta \in Metas
    BY <2>1 DEF Like, Snapshots
  <2>3. Final(<< e >>) = q
    BY <2>1, OneEdge DEF Like
  <2> HIDE DEF e
  <2>4. PICK f : AfterQuarantine(T, << e >>) = Append(<< e >>, f) /\ Like(s, f.snap)
    BY <1>2, <2>1, <2>2, <2>3 DEF AfterQuarantine, Edge
  <2>5. f.snap \in Snapshots
    BY <2>4 DEF Like
  <2>6. LET step == Append(<< e >>, f) IN Ends(step) /\ Final(step) = f.snap
    BY <2>5, TwoEdges
  <2> QED BY <2>4, <2>6 DEF e, q
<1>4. ASSUME NEW e, Like(s, e.snap)
      PROVE  Ends(<< e >>) /\ Like(s, Final(<< e >>))
  BY <1>4, OneEdge DEF Like
<1> DEFINE tm == Edge("CONTINUE", "DATASET", meta.dataset, Reach(s, "TRAIN_MODEL", "NONE", meta))
           nb == Edge("CONTINUE", "DATASET", meta.dataset, NextBatch(s, meta))
           bl == BatchLimit(s, meta)
<1>5. Like(s, s)
  BY DEF Like
<1>6. Like(s, tm.snap) /\ Like(s, nb.snap) /\ Like(s, bl.snap)
  BY <1>1, <1>2, <1>5, ReachFields DEF Edge, States, Stops
<1> HIDE DEF tm, nb, bl
<1> QED BY <1>3, <1>4, <1>6 DEF VerificationCompleted, meta, tm, nb, bl

-----------------------------------------------------------------------------
(* Candidate models.                                                       *)

\* A state of the model loop keeps model and Harness.
LEMMA TurnFields ==
  ASSUME NEW s \in Snapshots, NEW state \in States, NEW ckpt \in Int, NEW score \in Int,
         NEW meta \in Metas
  PROVE  LET t == Turn(s, state, ckpt, score, meta)
         IN  Like(s, t) /\ t.state = state /\ t.candCkpt = ckpt /\ t.candScore = score
  BY NoneType DEF Turn, Snapshots, Like, Stops

\* A single edge with a snapshot like the one before.
LEMMA OneLike ==
  ASSUME NEW s, NEW e, Like(s, e.snap)
  PROVE  Ends(<< e >>) /\ Like(s, Final(<< e >>)) /\ Final(<< e >>) = e.snap
  BY OneEdge DEF Like

\* A stage of the model loop that crosses a budget.
LEMMA ModelAbortEnds ==
  ASSUME NEW M, NEW s \in Snapshots, NEW ckpt \in Int, NEW cost \in Int
  PROVE  LET step == ModelAbort(M, s, ckpt, cost)
         IN  Ends(step) /\ Like(s, Final(step)) /\ Final(step).state = "ABORTED"
<1> DEFINE t == Turn(s, "ABORTED", ckpt, s.candScore, s.meta)
           stop == BudgetStop(cost, M.perStage)
<1>1. Like(s, t) /\ t.state = "ABORTED"
  <2>1. s.candScore \in Int /\ s.meta \in Metas
    BY DEF Snapshots
  <2> QED BY <2>1, TurnFields DEF States
<1>2. stop \in Stops
  BY DEF BudgetStop, Stops
<1> HIDE DEF t, stop
<1>3. t.cost + cost \in Int /\ t \in Snapshots
  BY <1>1 DEF Like, Snapshots
<1> DEFINE u == [t EXCEPT !.cost = @ + cost, !.stop = stop]
<1>4. Like(s, u) /\ u.state = "ABORTED"
  BY <1>1, <1>2, <1>3 DEF Like, Snapshots
<1> HIDE DEF u
<1>5. ModelAbort(M, s, ckpt, cost) = << Edge("ABORT", "CHECKPOINT", ckpt, u) >>
  BY DEF ModelAbort, u, t, stop
<1>6. Edge("ABORT", "CHECKPOINT", ckpt, u).snap = u
  BY DEF Edge
<1> QED BY <1>4, <1>5, <1>6, OneLike

\* Training ends with a candidate or with the abort of its stage.
LEMMA TrainingEnds ==
  ASSUME NEW M, NEW s \in Snapshots, NEW ckpt \in Int, NEW cost \in Int
  PROVE  LET step == TrainingCompleted(M, s, ckpt, cost)
         IN  /\ Ends(step) /\ Like(s, Final(step))
<1> DEFINE m == [NoMeta EXCEPT !.dataset = s.meta.dataset, !.modelScore = s.meta.modelScore]
           t == Turn(s, "EVALUATE_MODEL", ckpt, None, m)
           u == [t EXCEPT !.cost = @ + cost]
<1>1. m \in Metas
  BY NoMetaType DEF Metas, Snapshots
<1> HIDE DEF m
<1>2. Like(s, t)
  BY <1>1, TurnFields, NoneType DEF States
<1> HIDE DEF t
<1>3. Like(s, u)
  BY <1>2, PaidFields DEF Like
<1> HIDE DEF u
<1>4. Edge("CONTINUE", "CHECKPOINT", ckpt, u).snap = u
  BY DEF Edge
<1>5. TrainingCompleted(M, s, ckpt, cost)
        \in {ModelAbort(M, s, ckpt, cost), << Edge("CONTINUE", "CHECKPOINT", ckpt, u) >>}
  BY DEF TrainingCompleted, u, t, m
<1> QED BY <1>3, <1>4, <1>5, ModelAbortEnds, OneLike

\* What is decided on a candidate model, by an evaluation or by a reviewer.
LEMMA DecisionEnds ==
  ASSUME NEW s \in Snapshots, NEW score \in Int
  PROVE  /\ LET step == PromotionDecision(s, score)
            IN  /\ Ends(step) /\ Like(s, Final(step))
                /\ Final(step).state = "PROMOTE_MODEL" /\ Final(step).candCkpt = s.candCkpt
         /\ LET step == RollbackDecision(s, score)
            IN  /\ Ends(step) /\ Like(s, Final(step)) /\ Final(step).state = "ROLLBACK_MODEL"
<1> DEFINE p == Turn(s, "PROMOTE_MODEL", s.candCkpt, score, s.meta)
           r == Turn(s, "ROLLBACK_MODEL", s.candCkpt, score, s.meta)
<1>1. s.candCkpt \in Int /\ s.meta \in Metas
  BY DEF Snapshots
<1>2. /\ Like(s, p) /\ p.state = "PROMOTE_MODEL" /\ p.candCkpt = s.candCkpt
      /\ Like(s, r) /\ r.state = "ROLLBACK_MODEL"
  BY <1>1, TurnFields DEF States
<1> HIDE DEF p, r
<1>3. /\ Edge("PROMOTE", "CHECKPOINT", s.candCkpt, p).snap = p
      /\ Edge("ROLLBACK", "CHECKPOINT", s.candCkpt, r).snap = r
  BY DEF Edge
<1>4. /\ PromotionDecision(s, score) = << Edge("PROMOTE", "CHECKPOINT", s.candCkpt, p) >>
      /\ RollbackDecision(s, score) = << Edge("ROLLBACK", "CHECKPOINT", s.candCkpt, r) >>
  BY DEF PromotionDecision, RollbackDecision, p, r
<1> QED BY <1>2, <1>3, <1>4, OneLike

\* A model is promoted without a review only where none is asked for.
LEMMA ModelEvaluationEnds ==
  ASSUME NEW M, NEW s \in Snapshots, NEW score \in Int, NEW cost \in Int
  PROVE  LET step == ModelEvaluation(M, s, score, cost)
         IN  /\ Ends(step) /\ Like(s, Final(step))
             /\ Final(step).state = "PROMOTE_MODEL" => ~M.approval
<1> DEFINE paid == [s EXCEPT !.cost = @ + cost]
           t == Turn(paid, "MODEL_REVIEW_PENDING", s.candCkpt, score, s.meta)
           e == Edge("REQUEST_APPROVAL", "CHECKPOINT", s.candCkpt, t)
           step == ModelEvaluation(M, s, score, cost)
<1>1. Like(s, paid)
  BY PaidFields
<1> HIDE DEF paid
<1>2. s.candCkpt \in Int /\ s.meta \in Metas
  BY DEF Snapshots
<1>3. Like(paid, t) /\ t.state = "MODEL_REVIEW_PENDING"
  BY <1>1, <1>2, TurnFields DEF States, Like
<1> HIDE DEF t
<1>4. e.snap = t
  BY DEF Edge
<1> HIDE DEF e
<1>9. paid \in Snapshots
  BY <1>1 DEF Like
<1> SUFFICES /\ Ends(step) /\ Like(s, Final(step))
             /\ Final(step).state = "PROMOTE_MODEL" => ~M.approval
  OBVIOUS
<1> HIDE DEF step
<1>5. CASE step = ModelAbort(M, s, s.candCkpt, cost)
  BY <1>2, <1>5, ModelAbortEnds
<1>6. CASE step = RollbackDecision(paid, score)
  <2>1. /\ Ends(step) /\ Like(paid, Final(step)) /\ Final(step).state = "ROLLBACK_MODEL"
    BY <1>6, <1>9, DecisionEnds
  <2> QED BY <1>1, <2>1, Likes
<1>7. CASE step = PromotionDecision(paid, score) /\ ~M.approval
  <2>1. Ends(step) /\ Like(paid, Final(step))
    BY <1>7, <1>9, DecisionEnds
  <2> QED BY <1>1, <1>7, <2>1, Likes
<1>8. CASE step = << e >>
  <2>1. Like(s, e.snap) /\ e.snap.state # "PROMOTE_MODEL"
    BY <1>1, <1>3, <1>4, Likes
  <2> QED BY <1>8, <2>1, OneLike
<1> QED BY <1>5, <1>6, <1>7, <1>8 DEF ModelEvaluation, paid, t, e, step

\* A reviewed model is promoted only where it was approved.
LEMMA ModelReviewEnds ==
  ASSUME NEW s \in Snapshots, NEW approved
  PROVE  LET step == ModelReview(s, approved)
         IN  /\ Ends(step) /\ Like(s, Final(step))
             /\ Final(step).state = "PROMOTE_MODEL" => approved /\ Final(step).candCkpt = s.candCkpt
<1>1. s.candScore \in Int
  BY DEF Snapshots
<1> QED BY <1>1, DecisionEnds DEF ModelReview

\* The swap: the candidate is the active model, with the score it was
\* evaluated at.
LEMMA PromotionEnds ==
  ASSUME NEW s \in Snapshots
  PROVE  LET step == PromotionCommitted(s)
         IN  /\ Ends(step) /\ Final(step).ckpt = s.candCkpt /\ Final(step).harness = s.harness
<1> DEFINE m == [s.meta EXCEPT !.modelScore = s.candScore]
           t == Turn(s, "SLIM_HARNESS", None, None, m)
           u == [t EXCEPT !.ckpt = s.candCkpt, !.peak = s.candCkpt]
<1>1. m \in Metas /\ s.candCkpt \in Int
  BY DEF Snapshots, Metas
<1> HIDE DEF m
<1>2. Like(s, t)
  BY <1>1, TurnFields, NoneType DEF States
<1> HIDE DEF t
<1>3. u \in Snapshots /\ u.ckpt = s.candCkpt /\ u.harness = s.harness
  BY <1>1, <1>2 DEF Like, Snapshots
<1> HIDE DEF u
<1>4. PromotionCommitted(s) = << Edge("CONTINUE", "CHECKPOINT", s.candCkpt, u) >>
  BY DEF PromotionCommitted, u, t, m
<1>5. Edge("CONTINUE", "CHECKPOINT", s.candCkpt, u).snap = u
  BY DEF Edge
<1> QED BY <1>3, <1>4, <1>5, OneEdge

-----------------------------------------------------------------------------
(* What the controller itself decides.                                     *)

\* LoopsRun speaks of the same records.
LEMMA OneVocabulary ==
  /\ Loops!None = None /\ Loops!NoSnapshot = NoSnapshot
  /\ \A a, b, c, d : Loops!Edge(a, b, c, d) = Edge(a, b, c, d)
  /\ \A n : Loops!Slim(n) = Slim(n)
  /\ \A t : Loops!RollbackCommitted(t) = RollbackCommitted(t)
<1>1. Loops!None = None /\ Loops!NoSnapshot = NoSnapshot
  BY DEF Loops!None, None, Loops!NoSnapshot, NoSnapshot, Loops!NoMeta, NoMeta
<1>2. \A a, b, c, d : Loops!Edge(a, b, c, d) = Edge(a, b, c, d)
  BY DEF Loops!Edge, Edge
<1>3. \A n : Loops!Slim(n) = Slim(n)
  BY DEF Loops!Slim, Slim, Loops!IdSpan, IdSpan
<1>4. \A t : Loops!RollbackCommitted(t) = RollbackCommitted(t)
  BY <1>1, <1>2 DEF Loops!RollbackCommitted, RollbackCommitted, Loops!Turn, Turn
<1> QED BY <1>1, <1>2, <1>3, <1>4

\* The bootstrap starts with model 0 and Harness 0.
LEMMA StartEnds ==
  ASSUME NEW score \in Int
  PROVE  LET step == OuterStart(1, 0, 0, score, 0)
         IN  /\ Ends(step) /\ step[1].snap \in Snapshots
             /\ Final(step).ckpt = 0 /\ Final(step).harness = 0
<1> DEFINE f == [NoSnapshot EXCEPT !.state = "FREEZE_MODEL", !.cycle = 1,
                                   !.ckpt = 0, !.peak = 0,
                                   !.harness = 0, !.score = score, !.cost = 0]
           m == Enter(f, "MUTATE_HARNESS")
           n == [m EXCEPT !.iteration = 1]
<1>1. f \in Snapshots /\ f.ckpt = 0 /\ f.harness = 0
  <2>1. 0 \in Int /\ 1 \in Int /\ "FREEZE_MODEL" \in States
    BY DEF States
  <2> QED BY <2>1, NoSnapshotType DEF Snapshots
<1> HIDE DEF f
<1>2. Like(f, m)
  BY <1>1, EnterFields DEF States
<1> HIDE DEF m
<1>3. Like(f, n)
  BY <1>2 DEF Like, Snapshots
<1> HIDE DEF n
<1> DEFINE a == Edge("CONTINUE", "CHECKPOINT", 0, f)
           b == Edge("CONTINUE", "HARNESS", 0, n)
<1>4. a.snap = f /\ b.snap = n
  BY DEF Edge
<1>5. OuterStart(1, 0, 0, score, 0) = << a, b >>
  BY DEF OuterStart, f, m, n
<1> HIDE DEF a, b
<1>6. Len(<< a, b >>) = 2 /\ << a, b >>[1] = a /\ << a, b >>[2] = b /\ 2 \in DOMAIN << a, b >>
  OBVIOUS
<1> QED BY <1>1, <1>3, <1>4, <1>5, <1>6 DEF Ends, Final, Like

\* A snapshot the controller builds anew, with the model's score of the run.
LEMMA RollbackEnds ==
  ASSUME NEW s \in Snapshots
  PROVE  LET step == Loops!RollbackStep(s) IN Ends(step) /\ Like(s, Final(step))
<1> DEFINE t == Turn(s, "FREEZE_MODEL", None, None, s.meta)
           u == [t EXCEPT !.cycle = @ + 1, !.iteration = 0]
           e == Edge("CONTINUE", "CHECKPOINT", s.ckpt, u)
           x == [e EXCEPT !.snap.iteration = s.iteration]
<1>1. s.meta \in Metas /\ s.iteration \in Int
  BY DEF Snapshots
<1>2. Like(s, t)
  BY <1>1, TurnFields, NoneType DEF States
<1> HIDE DEF t
<1>3. t \in Snapshots /\ t.cycle + 1 \in Int /\ 0 \in Int
  BY <1>2 DEF Like, Snapshots
<1>4. Like(s, u)
  BY <1>2, <1>3 DEF Like, Snapshots
<1> HIDE DEF u
<1>5. e.snap = u
  BY DEF Edge
<1>6. x.snap = [u EXCEPT !.iteration = s.iteration]
  BY <1>5 DEF Edge
<1>7. Like(s, x.snap)
  <2> HIDE DEF x
  <2> QED BY <1>1, <1>4, <1>6 DEF Like, Snapshots
<1>8. Loops!RollbackStep(s) = << x >>
  BY OneVocabulary DEF Loops!RollbackStep, RollbackCommitted, u, t
<1> HIDE DEF x
<1> QED BY <1>7, <1>8, OneLike

\* The slim Harness is the active one of the next cycle.
LEMMA SlimEnds ==
  ASSUME NEW c, Loops!Configuration(c), NEW s \in Snapshots, NEW r, r.modelScore \in Int
  PROVE  LET step == Loops!SlimStep(c, r, s)
         IN  /\ Ends(step) /\ Final(step).ckpt = s.ckpt
             /\ Final(step).harness = Slim(s.cycle)
<1> DEFINE score == Loops!SlimScore(c, s)
           n == [NoSnapshot EXCEPT !.state = "FREEZE_MODEL", !.cycle = s.cycle + 1,
                             !.ckpt = s.ckpt, !.peak = s.ckpt,
                             !.harness = Slim(s.cycle),
                             !.score = score, !.cost = s.cost,
                             !.meta.modelScore = r.modelScore]
           e == Edge("ACCEPT", "HARNESS", Slim(s.cycle), n)
<1>1. score \in Int
  BY DEF Loops!SlimScore, Loops!Configuration, Loops!OuterLimits, Snapshots
<1> HIDE DEF score
<1>2. s.cycle + 1 \in Int /\ s.ckpt \in Int /\ s.cost \in Int /\ Slim(s.cycle) \in Int
  BY DEF Snapshots, Slim, IdSpan
<1> DEFINE m == [NoSnapshot.meta EXCEPT !.modelScore = r.modelScore]
<1>3. m \in Metas /\ "FREEZE_MODEL" \in States
  BY NoSnapshotType DEF Metas, Snapshots, States
<1>4. n \in Snapshots /\ n.ckpt = s.ckpt /\ n.harness = Slim(s.cycle)
  <2> HIDE DEF m
  <2> DEFINE x == [NoSnapshot EXCEPT !.state = "FREEZE_MODEL", !.cycle = s.cycle + 1,
                             !.ckpt = s.ckpt, !.peak = s.ckpt,
                             !.harness = Slim(s.cycle),
                             !.score = score, !.cost = s.cost, !.meta = m]
  <2>1. x \in Snapshots /\ x.ckpt = s.ckpt /\ x.harness = Slim(s.cycle)
    BY <1>1, <1>2, <1>3, NoSnapshotType DEF Snapshots
  <2>2. n = x
    BY NoSnapshotType DEF Snapshots, m
  <2> QED BY <2>1, <2>2
<1> HIDE DEF n
<1>5. e.snap = n
  BY DEF Edge
<1>6. Loops!SlimStep(c, r, s) = << e >>
  BY OneVocabulary DEF Loops!SlimStep, n, score
<1> HIDE DEF e
<1> QED BY <1>4, <1>5, <1>6, OneEdge

\* The next cycle begins with the model and the Harness there are.
LEMMA BeginEnds ==
  ASSUME NEW s \in Snapshots, NEW r, r.modelScore \in Int
  PROVE  LET step == Loops!BeginStep(r, s) IN Ends(step) /\ Like(s, Final(step))
<1> DEFINE n == [NoSnapshot EXCEPT !.state = "MUTATE_HARNESS", !.cycle = s.cycle,
                             !.iteration = 1, !.ckpt = s.ckpt, !.peak = s.ckpt,
                             !.harness = s.harness, !.score = s.score,
                             !.cost = s.cost, !.meta.modelScore = r.modelScore]
           e == Edge("CONTINUE", "RUN", None, n)
<1> DEFINE m == [NoSnapshot.meta EXCEPT !.modelScore = r.modelScore]
<1>1. m \in Metas /\ "MUTATE_HARNESS" \in States
  BY NoSnapshotType DEF Metas, Snapshots, States, Stops
<1>5. 1 \in Int /\ s.cycle \in Int /\ s.iteration \in Int /\ s.ckpt \in Int /\ s.harness \in Int
      /\ s.score \in Int /\ s.plateau \in Int /\ s.cost \in Int
  BY DEF Snapshots
<1>2. Like(s, n)
  <2> HIDE DEF m
  <2> DEFINE x == [NoSnapshot EXCEPT !.state = "MUTATE_HARNESS", !.cycle = s.cycle,
                             !.iteration = 1, !.ckpt = s.ckpt, !.peak = s.ckpt,
                             !.harness = s.harness, !.score = s.score,
                             !.cost = s.cost, !.meta = m]
  <2>1. x \in Snapshots /\ x.ckpt = s.ckpt /\ x.harness = s.harness
    BY <1>1, <1>5, NoSnapshotType DEF Snapshots
  <2>2. n = x
    BY NoSnapshotType DEF Snapshots, m
  <2> QED BY <2>1, <2>2 DEF Like
<1> HIDE DEF n
<1>3. e.snap = n
  BY DEF Edge
<1>4. Loops!BeginStep(r, s) = << e >>
  BY OneVocabulary DEF Loops!BeginStep, n
<1> HIDE DEF e
<1> QED BY <1>2, <1>3, <1>4, OneLike

\* The cycle limit ends the run with the model and the Harness there are.
LEMMA StopEnds ==
  ASSUME NEW s \in Snapshots, NEW r, r.modelScore \in Int
  PROVE  LET step == Loops!StopStep(r, s) IN Ends(step) /\ Like(s, Final(step))
<1> DEFINE n == [NoSnapshot EXCEPT !.state = "STOPPED", !.cycle = s.cycle,
                             !.iteration = s.iteration, !.ckpt = s.ckpt,
                             !.peak = s.ckpt, !.harness = s.harness,
                             !.score = s.score, !.plateau = s.plateau,
                             !.cost = s.cost, !.stop = "CYCLE_LIMIT",
                             !.meta.modelScore = r.modelScore]
           e == Edge("STOP", "RUN", None, n)
<1> DEFINE m == [NoSnapshot.meta EXCEPT !.modelScore = r.modelScore]
<1>1. m \in Metas /\ "STOPPED" \in States /\ "CYCLE_LIMIT" \in Stops
  BY NoSnapshotType DEF Metas, Snapshots, States, Stops
<1>5. 1 \in Int /\ s.cycle \in Int /\ s.iteration \in Int /\ s.ckpt \in Int /\ s.harness \in Int
      /\ s.score \in Int /\ s.plateau \in Int /\ s.cost \in Int
  BY DEF Snapshots
<1>2. Like(s, n)
  <2> HIDE DEF m
  <2> DEFINE x == [NoSnapshot EXCEPT !.state = "STOPPED", !.cycle = s.cycle,
                             !.iteration = s.iteration, !.ckpt = s.ckpt,
                             !.peak = s.ckpt, !.harness = s.harness,
                             !.score = s.score, !.plateau = s.plateau,
                             !.cost = s.cost, !.stop = "CYCLE_LIMIT", !.meta = m]
  <2>1. x \in Snapshots /\ x.ckpt = s.ckpt /\ x.harness = s.harness
    BY <1>1, <1>5, NoSnapshotType DEF Snapshots
  <2>2. n = x
    BY NoSnapshotType DEF Snapshots, m
  <2> QED BY <2>1, <2>2 DEF Like
<1> HIDE DEF n
<1>3. e.snap = n
  BY DEF Edge
<1>4. Loops!StopStep(r, s) = << e >>
  BY OneVocabulary DEF Loops!StopStep, n
<1> HIDE DEF e
<1> QED BY <1>2, <1>3, <1>4, OneLike

\* A dataset review and its answer move neither model nor Harness.
LEMMA DatasetFields ==
  ASSUME NEW s \in Snapshots
  PROVE  LET t == Loops!DatasetReviewSnapshot(s)
         IN  /\ Like(s, t) /\ t.iteration = s.iteration /\ t.meta.dataset = s.meta.dataset
<1> DEFINE m == [s.meta EXCEPT !.review = "REQUESTED"]
           t == [s EXCEPT !.state = "DATA_REVIEW_PENDING", !.meta = m]
<1>1. m \in Metas /\ m.dataset = s.meta.dataset
  BY DEF Snapshots, Metas
<1>2. Loops!DatasetReviewSnapshot(s) = t
  BY DEF Loops!DatasetReviewSnapshot, Snapshots
<1> HIDE DEF m
<1>3. Like(s, t) /\ t.iteration = s.iteration /\ t.meta = m
  BY <1>1 DEF Snapshots, States, Like
<1> QED BY <1>1, <1>2, <1>3

LEMMA DatasetReviewedEnds ==
  ASSUME NEW s \in Snapshots, NEW approved
  PROVE  LET step == Loops!DatasetReviewed(s, approved) IN Ends(step) /\ Like(s, Final(step))
<1> DEFINE answer == IF approved THEN "GRANTED" ELSE "DENIED"
           state == IF approved THEN "TRAIN_MODEL" ELSE "STOPPED"
           stop == IF approved THEN "NONE" ELSE "APPROVAL_NOT_GRANTED"
           action == IF approved THEN "ACCEPT" ELSE "REJECT"
           m == [s.meta EXCEPT !.review = answer]
           t == [s EXCEPT !.state = state, !.stop = stop, !.meta = m]
           e == Edge(action, "DATASET", s.meta.dataset, t)
<1>1. m \in Metas /\ state \in States /\ stop \in Stops
  BY DEF Snapshots, Metas, States, Stops
<1> HIDE DEF answer, state, stop, action
<1>2. [s EXCEPT !.state = state, !.stop = stop, !.meta.review = answer] = t
  BY DEF Snapshots
<1> HIDE DEF m
<1>3. Like(s, t)
  BY <1>1 DEF Snapshots, Like
<1>4. e.snap = t
  BY DEF Edge
<1>5. Loops!DatasetReviewed(s, approved) = << e >>
  BY <1>2, OneVocabulary DEF Loops!DatasetReviewed, answer, state, stop, action
<1> HIDE DEF e, t
<1> QED BY <1>3, <1>4, <1>5, OneLike

\* The input of the model policy differs only in the score of the model.
LEMMA InputFields ==
  ASSUME NEW s \in Snapshots, NEW r, r.modelScore \in Int
  PROVE  Like(s, Loops!PolicyInput(r, s))
<1> DEFINE m == [s.meta EXCEPT !.modelScore = r.modelScore]
<1>1. m \in Metas
  BY DEF Snapshots, Metas
<1>2. Loops!PolicyInput(r, s) = [s EXCEPT !.meta = m]
  BY DEF Loops!PolicyInput, Snapshots
<1> HIDE DEF m
<1>3. Like(s, [s EXCEPT !.meta = m])
  BY <1>1 DEF Snapshots, Like
<1> QED BY <1>2, <1>3

-----------------------------------------------------------------------------
(* Plans: what each operation may count on once those before it were       *)
(* performed.                                                              *)

\* What stays of an operation that was performed.
Performed(op) ==
  /\ op.do = "commit" => \E t \in disk.txs : t.name = op.name /\ t.edges = op.edges
  /\ op.do = "bundle" /\ op.which \in Stores => \E b \in disk.bundles[op.which] : b.id = op.of.id
  /\ op.do = "request" => op.id \in disk.requests
  /\ op.do = "create" => disk.record # NoRecord

Every(q) == \A i \in 1..Len(q) : Performed(q[i])

\* A run record has all its fields.
Sized(m) ==
  /\ m # NoRecord
  /\ m.run.snap \in Snapshots /\ m.run.modelScore \in Int
  /\ m.run.pending \in {"none", "harness", "dataset", "checkpoint"}

\* What a handler is entered with: the snapshot is committed and has its
\* bundles, and whoever had to grant it did.
Prepared(job, snap) ==
  /\ disk.record # NoRecord
  /\ Backed(snap) /\ snap \in Snapshots
  /\ job = "request" => snap.state \in DOMAIN Loops!ReviewOf
  /\ job = "promotion" /\ conf.model.approval => Granted("checkpoint", snap.candCkpt)

\* The effect of an operation is one that the controller may have.
Warranted(op) ==
  /\ op.do \in {"create", "update"} => Settled(op.to.run) /\ Sized(op.to)
  /\ op.do = "reload" => op.job \in {"request", "dataset-review", "promotion", "rollback"}
                         /\ Prepared(op.job, op.snap)
  /\ op.do = "point" => /\ op.which \in Stores /\ Authorised(op.which, op.to)
                        /\ op.to.score \in Int /\ op.to # NoPointer

IsSeq(q) == \E S : q \in Seq(S)

\* Every operation is warranted by those before it.
Good(q) ==
  /\ IsSeq(q)
  /\ \A k \in 1..Len(q) : (\A i \in 1..(k - 1) : Performed(q[i])) => Warranted(q[k])

\* Plans are put together: the second part may count on all of the first.
LEMMA Join ==
  ASSUME NEW a, NEW b, Good(a), IsSeq(b), Every(a) => Good(b)
  PROVE  /\ Good(a \o b) /\ (Every(a \o b) <=> Every(a) /\ Every(b))
         /\ Len(a) >= 1 => Len(a \o b) >= 1
<1>1. PICK A : a \in Seq(A)
  BY DEF Good, IsSeq
<1>2. PICK B : b \in Seq(B)
  BY DEF IsSeq
<1> DEFINE q == a \o b
           m == Len(a)
           n == Len(b)
<1>3. a \in Seq(A \cup B) /\ b \in Seq(A \cup B)
  BY <1>1, <1>2
<1>4. /\ q \in Seq(A \cup B) /\ Len(q) = m + n
      /\ \A i \in 1..(m + n) : q[i] = IF i <= m THEN a[i] ELSE b[i - m]
  BY <1>3, ConcatProperties
<1>5. m \in Nat /\ n \in Nat
  BY <1>1, <1>2
<1>6. \A i \in 1..m : i \in 1..Len(q) /\ q[i] = a[i]
  <2> HIDE DEF q
  <2> QED BY <1>4, <1>5
<1>7. \A i \in 1..n : i + m \in 1..Len(q) /\ q[i + m] = b[i]
  <2> HIDE DEF q
  <2> QED BY <1>4, <1>5
<1>8. \A k \in 1..Len(q) : k \in 1..m \/ \E i \in 1..n : k = i + m
  <2> SUFFICES ASSUME NEW k \in 1..Len(q), k \notin 1..m PROVE \E i \in 1..n : k = i + m
    OBVIOUS
  <2> HIDE DEF q
  <2>1. k - m \in 1..n /\ k = (k - m) + m
    BY <1>4, <1>5
  <2> QED BY <2>1
<1> HIDE DEF q, m, n
<1>9. Every(q) <=> Every(a) /\ Every(b)
  <2>1. ASSUME Every(q) PROVE Every(a) /\ Every(b)
    BY <2>1, <1>6, <1>7 DEF Every, m, n
  <2>2. ASSUME Every(a), Every(b) PROVE Every(q)
    <3> SUFFICES ASSUME NEW k \in 1..Len(q) PROVE Performed(q[k])
      BY DEF Every
    <3>1. CASE k \in 1..m
      BY <2>2, <3>1, <1>6 DEF Every, m
    <3>2. CASE \E i \in 1..n : k = i + m
      <4>1. PICK i \in 1..n : k = i + m
        BY <3>2
      <4>2. q[k] = b[i] /\ Performed(b[i])
        BY <2>2, <4>1, <1>7 DEF Every, n
      <4> QED BY <4>2
    <3> QED BY <1>8, <3>1, <3>2
  <2> QED BY <2>1, <2>2
<1>10. IsSeq(q)
  BY <1>4 DEF IsSeq
<1>11. ASSUME NEW k \in 1..Len(q), \A i \in 1..(k - 1) : Performed(q[i])
       PROVE  Warranted(q[k])
  <2>1. CASE k \in 1..m
    <3>1. \A i \in 1..(k - 1) : i \in 1..m
      BY <1>5, <2>1
    <3>2. \A i \in 1..(k - 1) : Performed(a[i])
      BY <1>6, <1>11, <3>1
    <3> QED BY <1>6, <2>1, <3>2 DEF Good, m
  <2>2. CASE \E j \in 1..n : k = j + m
    <3>1. PICK j \in 1..n : k = j + m
      BY <2>2
    <3>2. \A i \in 1..m : i \in 1..(k - 1)
      BY <1>5, <3>1
    <3>3. Every(a)
      BY <1>6, <1>11, <3>2 DEF Every, m
    <3>4. \A i \in 1..(j - 1) : i \in 1..n /\ i + m \in 1..(k - 1)
      BY <1>5, <3>1
    <3>5. \A i \in 1..(j - 1) : Performed(b[i])
      BY <1>7, <1>11, <3>4
    <3>6. Warranted(b[j])
      BY <3>3, <3>5 DEF Good, n
    <3> QED BY <1>7, <3>1, <3>6
  <2> QED BY <1>8, <2>1, <2>2
<1>12. m >= 1 => Len(q) >= 1
  BY <1>4, <1>5 DEF q, m, n
<1> QED BY <1>9, <1>10, <1>11, <1>12 DEF Good, q, m

\* The empty plan, and the plan of one operation.
LEMMA Nothing == Good(<<>>) /\ Every(<<>>)
<1>1. <<>> \in Seq({}) /\ Len(<<>>) = 0
  OBVIOUS
<1> QED BY <1>1 DEF Good, IsSeq, Every

LEMMA Single ==
  ASSUME NEW op
  PROVE  /\ IsSeq(<< op >>) /\ Len(<< op >>) = 1
         /\ Warranted(op) => Good(<< op >>)
         /\ Every(<< op >>) <=> Performed(op)
<1> DEFINE q == << op >>
<1>1. q \in Seq({op}) /\ Len(q) = 1 /\ q[1] = op
  OBVIOUS
<1> HIDE DEF q
<1>2. \A k \in 1..Len(q) : q[k] = op
  BY <1>1
<1>3. IsSeq(q)
  BY <1>1 DEF IsSeq
<1>4. Warranted(op) => Good(q)
  BY <1>2, <1>3 DEF Good
<1>5. Every(q) <=> Performed(op)
  BY <1>1, <1>2 DEF Every
<1> QED BY <1>1, <1>3, <1>4, <1>5 DEF q

\* A plain file is asked for nothing.
LEMMA GoodFile ==
  ASSUME NEW kind, NEW id
  PROVE  Good(File(kind, id)) /\ Len(File(kind, id)) = 1
  BY Single DEF File, Warranted

\* The records of a step are committed, in whichever transaction.
LEMMA GoodCommits ==
  ASSUME NEW label, NEW subject, NEW at, NEW step, NEW reads
  PROVE  LET q == Commits(label, subject, at, step, reads)
         IN  /\ Good(q) /\ Len(q) >= 1
             /\ Every(q) => /\ \A k \in DOMAIN step : step[k] \in CommittedEdges
                            /\ \E t \in disk.txs : t.name = <<label, at, subject>>
<1> DEFINE first == {k \in DOMAIN step : step[k].snap.iteration = at}
           other == DOMAIN step \ first
           Tx(iter, group) ==
             [do |-> "commit", name |-> <<label, iter, subject>>,
              edges |-> [k \in group |-> step[k]],
              evidenceAt |-> at, reads |-> reads]
           a == << Tx(at, first) >>
           b == << Tx(Final(step).iteration, other) >>
           c == IF other = {} THEN <<>> ELSE b
<1>1. Commits(label, subject, at, step, reads) = a \o c
  BY DEF Commits
<1>2. \A iter, group : Warranted(Tx(iter, group))
  BY DEF Warranted
<1>3. ASSUME NEW iter, NEW group, Performed(Tx(iter, group))
      PROVE  /\ \A k \in group : step[k] \in CommittedEdges
             /\ \E t \in disk.txs : t.name = <<label, iter, subject>>
  <2>1. PICK t \in disk.txs : t.name = <<label, iter, subject>> /\ t.edges = [k \in group |-> step[k]]
    BY <1>3 DEF Performed
  <2>2. ASSUME NEW k \in group PROVE step[k] \in {t.edges[j] : j \in DOMAIN t.edges}
    BY <2>1
  <2> QED BY <2>1, <2>2 DEF CommittedEdges
<1> HIDE DEF Tx
<1>4. Good(a) /\ Len(a) = 1 /\ Good(b)
  BY <1>2, Single
<1>5. Good(c)
  BY <1>4, Nothing
<1>6. Good(a \o c) /\ (Every(a \o c) <=> Every(a) /\ Every(c)) /\ Len(a \o c) >= 1
  <2> HIDE DEF a, c
  <2>1. IsSeq(c)
    BY <1>5 DEF Good
  <2> QED BY <1>4, <1>5, <2>1, Join
<1>7. ASSUME Every(a), Every(c)
      PROVE  /\ \A k \in DOMAIN step : step[k] \in CommittedEdges
             /\ \E t \in disk.txs : t.name = <<label, at, subject>>
  <2>1. Performed(Tx(at, first))
    BY <1>7, Single
  <2>2. other # {} => Performed(Tx(Final(step).iteration, other))
    BY <1>7, Single
  <2> HIDE DEF a, b, c
  <2>3. \A k \in first : step[k] \in CommittedEdges
    BY <2>1, <1>3
  <2>4. \A k \in other : step[k] \in CommittedEdges
    BY <2>2, <1>3
  <2>5. \E t \in disk.txs : t.name = <<label, at, subject>>
    BY <2>1, <1>3
  <2>6. \A k \in DOMAIN step : k \in first \/ k \in other
    OBVIOUS
  <2> QED BY <2>3, <2>4, <2>5, <2>6
<1> QED BY <1>1, <1>6, <1>7

\* A step that is committed whole has its final snapshot committed.
LEMMA FinalCommitted ==
  ASSUME NEW step, Ends(step), \A k \in DOMAIN step : step[k] \in CommittedEdges
  PROVE  \E e \in CommittedEdges : e.snap = Final(step)
  BY DEF Ends, Final

\* A bundle and the pointer to it.
LEMMA GoodAdopt ==
  ASSUME NEW which \in Stores, NEW p, Authorised(which, p), p.score \in Int, p # NoPointer
  PROVE  /\ Good(Adopt(which, p))
         /\ Every(Adopt(which, p)) => \E b \in disk.bundles[which] : b.id = p.id
<1> DEFINE of == [id |-> p.id, order |-> p.order, score |-> p.score, by |-> p.by]
           a == [do |-> "bundle", which |-> which, of |-> of]
           b == [do |-> "point", which |-> which, to |-> p]
<1>1. Warranted(a) /\ Warranted(b)
  BY DEF Warranted
<1>2. Performed(a) => \E x \in disk.bundles[which] : x.id = p.id
  BY DEF Performed
<1>3. Adopt(which, p) = << a, b >>
  BY DEF Adopt
<1> HIDE DEF a, b
<1> DEFINE q == << a, b >>
<1>4. q \in Seq({a, b}) /\ Len(q) = 2 /\ q[1] = a /\ q[2] = b
  OBVIOUS
<1> HIDE DEF q
<1>5. \A k \in 1..Len(q) : q[k] \in {a, b}
  BY <1>4
<1>6. Good(q)
  BY <1>1, <1>4, <1>5 DEF Good, IsSeq
<1>7. Every(q) => Performed(a)
  BY <1>4 DEF Every
<1> QED BY <1>2, <1>3, <1>6, <1>7 DEF q

LEMMA AdoptIsSeq == ASSUME NEW which, NEW p PROVE IsSeq(Adopt(which, p))
<1> DEFINE a == [do |-> "bundle", which |-> which,
                 of |-> [id |-> p.id, order |-> p.order, score |-> p.score, by |-> p.by]]
           b == [do |-> "point", which |-> which, to |-> p]
<1>1. Adopt(which, p) = << a, b >>
  BY DEF Adopt
<1> HIDE DEF a, b
<1>2. << a, b >> \in Seq({a, b})
  OBVIOUS
<1> QED BY <1>1, <1>2 DEF IsSeq

\* What SetupAssumption says of the configuration of this run.
LEMMA ConfTypes ==
  ASSUME conf \in Setups
  PROVE  /\ Loops!Configuration(conf)
         /\ conf.modelScore \in Int /\ conf.harnessScore \in Int /\ conf.top \in Int
         /\ conf.outer.minImprovement \in Int /\ conf.model.minImprovement \in Int
         /\ conf.harvest.accepted \in Int /\ conf.harvest.raw \in Int
  BY SetupAssumption DEF Loops!Configuration, Loops!OuterLimits, Loops!ModelLimits

\* An update of the record takes the snapshot and the review it names.
LEMMA MovedFields ==
  ASSUME NEW r, NEW snap \in Snapshots, NEW completed, NEW pending
  PROVE  LET n == Loops!Moved(r, snap, completed, pending)
         IN  /\ n.snap = snap /\ n.pending = pending
             /\ r.modelScore \in Int => n.modelScore \in Int
  BY DEF Loops!Moved, Snapshots, Metas

LEMMA UpdateIsSeq ==
  ASSUME NEW m, NEW snap, NEW completed, NEW pending
  PROVE  IsSeq(Update(m, snap, completed, pending))
  BY Single DEF Update

\* The record may move to what is settled.
LEMMA GoodUpdate ==
  ASSUME NEW m, Sized(m), NEW snap \in Snapshots, NEW completed,
         NEW pending \in {"none", "harness", "dataset", "checkpoint"},
         Settled(Loops!Moved(m.run, snap, completed, pending))
  PROVE  /\ Good(Update(m, snap, completed, pending))
<1> DEFINE r == Loops!Moved(m.run, snap, completed, pending)
           to == [rev |-> m.rev + 1, cycle |-> IF snap.cycle > m.cycle THEN snap.cycle ELSE m.cycle,
                  run |-> r]
           op == [do |-> "update", to |-> to]
<1>1. r.snap = snap /\ r.pending = pending /\ r.modelScore \in Int
  BY MovedFields DEF Sized
<1> HIDE DEF r
<1>2. "cycle" \in DOMAIN to /\ "cycle" \notin DOMAIN NoRecord
  BY DEF NoRecord
<1>3. Sized(to)
  BY <1>1, <1>2 DEF Sized
<1>4. Settled(to.run)
  BY DEF r
<1> HIDE DEF to
<1>5. Warranted(op)
  BY <1>3, <1>4 DEF Warranted
<1>6. Update(m, snap, completed, pending) = << op >>
  BY DEF Update, to, r
<1> HIDE DEF op
<1> QED BY <1>5, <1>6, Single

\* Without a review, what is backed is settled.
LEMMA SettledIdle ==
  ASSUME NEW r, NEW snap \in Snapshots, Backed(snap), NEW completed
  PROVE  Settled(Loops!Moved(r, snap, completed, "none"))
<1> DEFINE n == Loops!Moved(r, snap, completed, "none")
<1>1. n.snap = snap /\ n.pending = "none"
  BY DEF Loops!Moved
<1> HIDE DEF n
<1>2. Settled(n)
  BY <1>1 DEF Settled
<1> QED BY <1>2 DEF n

\* The record follows a committed step.
LEMMA GoodFollow ==
  ASSUME NEW m, Sized(m), NEW step, Ends(step), Backed(Final(step))
  PROVE  Good(Follow(m, step))
<1>1. Final(step) \in Snapshots
  BY DEF Ends
<1> QED BY <1>1, GoodUpdate, SettledIdle DEF Follow

LEMMA FollowIsSeq == ASSUME NEW m, NEW step PROVE IsSeq(Follow(m, step))
  BY UpdateIsSeq DEF Follow

LEMMA CompleteIsSeq == ASSUME NEW m, NEW step PROVE IsSeq(CompleteCycle(m, step))
  BY Single DEF CompleteCycle

\* A completed cycle is a committed step as well.
LEMMA GoodComplete ==
  ASSUME NEW m, Sized(m), NEW step, Ends(step), Backed(Final(step))
  PROVE  Good(CompleteCycle(m, step))
<1> DEFINE r == Loops!Moved(m.run, Final(step), m.run.completed + 1, "none")
           to == [rev |-> m.rev + 1, cycle |-> Final(step).cycle, run |-> r]
           op == [do |-> "update", to |-> to]
<1>0. Final(step) \in Snapshots
  BY DEF Ends
<1>1. r.snap = Final(step) /\ r.pending = "none" /\ r.modelScore \in Int
  BY <1>0, MovedFields DEF Sized
<1>4. Settled(r)
  BY <1>0, SettledIdle
<1> HIDE DEF r
<1>2. "cycle" \in DOMAIN to /\ "cycle" \notin DOMAIN NoRecord
  BY DEF NoRecord
<1>3. Sized(to) /\ to.run = r
  BY <1>0, <1>1, <1>2 DEF Sized
<1> HIDE DEF to
<1>5. Warranted(op)
  BY <1>3, <1>4 DEF Warranted
<1>6. CompleteCycle(m, step) = << op >>
  BY DEF CompleteCycle, to, r
<1> HIDE DEF op
<1> QED BY <1>5, <1>6, Single

LEMMA GoOnIsSeq == ASSUME NEW job, NEW snap PROVE IsSeq(GoOn(job, snap))
  BY Single DEF GoOn

\* A handler goes on with what the next one asks for.
LEMMA GoodGoOn ==
  ASSUME NEW job \in {"request", "dataset-review", "promotion", "rollback"}, NEW snap,
         Prepared(job, snap)
  PROVE  Good(GoOn(job, snap))
<1> DEFINE op == [do |-> "reload", job |-> job, snap |-> snap]
<1>1. Warranted(op)
  BY DEF Warranted
<1>2. GoOn(job, snap) = << op >>
  BY DEF GoOn
<1> HIDE DEF op
<1> QED BY <1>1, <1>2, Single

\* A committed step that moves neither pointer.
LEMMA BackedLike ==
  ASSUME NEW s, Backed(s), NEW step, Ends(step), Like(s, Final(step)),
         \A k \in DOMAIN step : step[k] \in CommittedEdges
  PROVE  Backed(Final(step))
  BY FinalCommitted DEF Backed, Like

\* The scores of the reference runtime are numbers.
LEMMA ScoreTypes ==
  ASSUME conf \in Setups, NEW s \in Snapshots, NEW m, Sized(m)
  PROVE  HarnessScore(s) \in Int /\ ModelScore(m, s) \in Int
<1>1. s.score \in Int /\ m.run.modelScore \in Int
  BY DEF Snapshots, Sized
<1>2. \A n \in Int : Capped(n) \in Int
  BY ConfTypes DEF Capped
<1> QED BY <1>1, <1>2, ConfTypes DEF HarnessScore, ModelScore

LEMMA AfterIsSeq == ASSUME NEW step PROVE IsSeq(AfterDecision(step))
  BY GoOnIsSeq, Nothing DEF AfterDecision, Good

\* What a decision on a model goes on with.
LEMMA GoodAfter ==
  ASSUME disk.record # NoRecord, NEW step, Ends(step), Backed(Final(step)),
         Final(step).state = "PROMOTE_MODEL" /\ conf.model.approval =>
           Granted("checkpoint", Final(step).candCkpt)
  PROVE  Good(AfterDecision(step))
<1> DEFINE t == Final(step)
<1>1. t \in Snapshots
  BY DEF Ends
<1>2. DOMAIN AfterModel = {"MODEL_REVIEW_PENDING", "PROMOTE_MODEL", "ROLLBACK_MODEL"}
      /\ AfterModel["MODEL_REVIEW_PENDING"] = "request"
      /\ AfterModel["PROMOTE_MODEL"] = "promotion"
      /\ AfterModel["ROLLBACK_MODEL"] = "rollback"
  BY DEF AfterModel
<1> HIDE DEF t
<1>3. CASE t.state = "MODEL_REVIEW_PENDING"
  <2>1. Prepared("request", t)
    BY <1>1, <1>3 DEF Prepared, t, Loops!ReviewOf
  <2> QED BY <1>2, <1>3, <2>1, GoodGoOn DEF AfterDecision, t
<1>4. CASE t.state = "PROMOTE_MODEL"
  <2>1. Prepared("promotion", t)
    BY <1>1, <1>4 DEF Prepared, t
  <2> QED BY <1>2, <1>4, <2>1, GoodGoOn DEF AfterDecision, t
<1>5. CASE t.state = "ROLLBACK_MODEL"
  <2>1. Prepared("rollback", t)
    BY <1>1, <1>5 DEF Prepared, t
  <2> QED BY <1>2, <1>5, <2>1, GoodGoOn DEF AfterDecision, t
<1> QED BY <1>2, <1>3, <1>4, <1>5, Nothing DEF AfterDecision, t

\* _run_harness_attempt: the candidate becomes active only where no review is
\* asked for, after its evaluation was committed.
LEMMA GoodAttempt ==
  ASSUME conf \in Setups, NEW m, Sized(m), NEW s, Prepared("attempt", s)
  PROVE  Good(HarnessAttempt(m, s)) /\ Len(HarnessAttempt(m, s)) >= 1
<1> DEFINE candidate == Candidate(s.cycle, s.iteration)
           created == CandidateCreated(s, candidate)
           validated == ValidationCompleted(conf.outer, Final(created), TRUE)
           step == OuterEvaluation(conf.outer, Final(validated), HarnessScore(s), HarnessCost)
           accepts == step[1].snap.state = "ACCEPT_HARNESS"
           reviews == Final(step).state = "HARNESS_REVIEW_PENDING"
           pointer == Pointer(candidate, m.run.snap.harness, s.cycle, HarnessScore(s),
                              <<"harness-evaluated", s.iteration, candidate>>)
           q1 == << [do |-> "check", harness |-> m.run.snap.harness] >>
           q2 == File("candidate", candidate)
           q3 == Commits("harness-mutated", candidate, s.iteration, created, {})
           q4 == File("validation", candidate)
           q5 == Commits("harness-validated", candidate, s.iteration, validated, {})
           q6 == File("evaluation", candidate)
           q7 == Commits("harness-evaluated", candidate, s.iteration, step, {})
           q8 == IF accepts THEN Adopt("harness", pointer) ELSE <<>>
           q9 == Follow(m, step)
           q10 == IF reviews THEN GoOn("request", Final(step)) ELSE <<>>
           r2 == q1 \o q2
           r3 == r2 \o q3
           r4 == r3 \o q4
           r5 == r4 \o q5
           r6 == r5 \o q6
           r7 == r6 \o q7
           r8 == r7 \o q8
           r9 == r8 \o q9
           r10 == r9 \o q10
<1>1. s \in Snapshots /\ Backed(s)
  BY DEF Prepared
<1>2. candidate \in Int
  BY <1>1 DEF Candidate, IdSpan, Snapshots
<1> HIDE DEF candidate
<1>3. Like(s, Final(validated)) /\ Final(validated).candHarness = candidate
  BY <1>1, <1>2, PreparedFields
<1>4. HarnessScore(s) \in Int /\ HarnessCost \in Int
  BY <1>1, ScoreTypes DEF HarnessCost
<1>5. Final(validated) \in Snapshots
  BY <1>3 DEF Like
<1> HIDE DEF validated, created
<1>6. /\ Ends(step) /\ Final(step).ckpt = s.ckpt
      /\ IF accepts THEN Final(step).harness = candidate /\ ~conf.outer.approval
         ELSE Final(step).harness = s.harness
  <2>1. /\ Ends(step) /\ Final(step).ckpt = Final(validated).ckpt
        /\ IF accepts
           THEN Final(step).harness = Final(validated).candHarness /\ ~conf.outer.approval
           ELSE Final(step).harness = Final(validated).harness
    BY <1>4, <1>5, EvaluationEnds
  <2> QED BY <1>3, <2>1 DEF Like
<1> HIDE DEF step, accepts, reviews
<1>7. HarnessAttempt(m, s) = r10
  BY DEF HarnessAttempt, candidate, created, validated, step, accepts, reviews
<1>8. Good(q1) /\ Len(q1) >= 1
  <2>1. Len(q1) = 1 /\ Good(q1)
    BY Single DEF Warranted
  <2> QED BY <2>1
<1>9. Good(q2) /\ Good(q3) /\ Good(q4) /\ Good(q5) /\ Good(q6) /\ Good(q7)
  BY GoodFile, GoodCommits
<1>10. Every(q7) => \A k \in DOMAIN step : step[k] \in CommittedEdges
  BY GoodCommits
<1>11. Authorised("harness", pointer) \/ ~accepts
  BY <1>6 DEF Authorised
<1>12. pointer.score \in Int /\ pointer # NoPointer /\ pointer.id = candidate
  BY <1>4 DEF Pointer, NoPointer
<1> HIDE DEF pointer
<1>13. IsSeq(q8) /\ IsSeq(q9) /\ IsSeq(q10)
  BY AdoptIsSeq, FollowIsSeq, GoOnIsSeq, Nothing DEF Good
<1>14. Good(q8) /\ (Every(q8) /\ accepts => \E b \in disk.bundles["harness"] : b.id = candidate)
  BY <1>11, <1>12, GoodAdopt, Nothing DEF Stores
<1>15. ASSUME Every(q7), Every(q8) PROVE Backed(Final(step))
  BY <1>1, <1>6, <1>10, <1>14, <1>15, FinalCommitted DEF Backed
<1>16. Every(q7) /\ Every(q8) => Good(q9)
  BY <1>6, <1>15, GoodFollow
<1>17. Every(q7) /\ Every(q8) => Good(q10)
  <2> SUFFICES ASSUME Every(q7), Every(q8), reviews PROVE Good(GoOn("request", Final(step)))
    BY Nothing
  <2>1. Prepared("request", Final(step))
    BY <1>6, <1>15 DEF Prepared, Ends, reviews, Loops!ReviewOf
  <2> QED BY <2>1, GoodGoOn
<1> HIDE DEF q1, q2, q3, q4, q5, q6, q7, q8, q9, q10
<1>20. Good(r2) /\ Len(r2) >= 1
  BY <1>8, <1>9, Join DEF Good
<1> HIDE DEF r2
<1>21. Good(r3) /\ Len(r3) >= 1
  BY <1>9, <1>20, Join DEF Good
<1> HIDE DEF r3
<1>22. Good(r4) /\ Len(r4) >= 1
  BY <1>9, <1>21, Join DEF Good
<1> HIDE DEF r4
<1>23. Good(r5) /\ Len(r5) >= 1
  BY <1>9, <1>22, Join DEF Good
<1> HIDE DEF r5
<1>24. Good(r6) /\ Len(r6) >= 1
  BY <1>9, <1>23, Join DEF Good
<1> HIDE DEF r6
<1>25. Good(r7) /\ Len(r7) >= 1 /\ (Every(r7) => Every(q7))
  BY <1>9, <1>24, Join DEF Good
<1> HIDE DEF r7
<1>26. Good(r8) /\ Len(r8) >= 1 /\ (Every(r8) => Every(q7) /\ Every(q8))
  BY <1>13, <1>14, <1>25, Join
<1> HIDE DEF r8
<1>27. Good(r9) /\ Len(r9) >= 1 /\ (Every(r9) => Every(q7) /\ Every(q8))
  BY <1>13, <1>16, <1>26, Join
<1> HIDE DEF r9
<1>28. Good(r10) /\ Len(r10) >= 1
  BY <1>13, <1>17, <1>27, Join
<1> QED BY <1>7, <1>28

\* _run_trace_batch: a dataset review begins after the batch was verified.
LEMMA GoodBatch ==
  ASSUME conf \in Setups, NEW m, Sized(m), NEW s, Prepared("batch", s)
  PROVE  Good(TraceBatch(m, s)) /\ Len(TraceBatch(m, s)) >= 1
<1> DEFINE batch == Candidate(s.cycle, s.iteration)
           harvested == BatchHarvested(conf.trace, s, batch, HarvestCost)
           step == VerificationCompleted(conf.trace, Final(harvested),
                                         conf.harvest.accepted, conf.harvest.raw)
           reviews == Final(step).state = "TRAIN_MODEL" /\ conf.datasetReview
           aborts == Final(harvested).state = "ABORTED"
           q1 == File("traces", s.cycle)
           q2 == Commits("trace-harvested", batch, s.iteration, harvested, {})
           q3 == File("dataset", batch)
           q4 == Commits("trace-verified", batch, s.iteration, step, {})
           q5 == Follow(m, step)
           q6 == IF reviews THEN GoOn("dataset-review", Final(step)) ELSE <<>>
           t3 == q4 \o q5
           t4 == t3 \o q6
           x == << [do |-> "raise"] >>
           tail == IF aborts THEN x ELSE t4
           r2 == q1 \o q2
           r3 == r2 \o q3
           r4 == r3 \o tail
<1>1. s \in Snapshots /\ Backed(s)
  BY DEF Prepared
<1>2. batch \in Int /\ HarvestCost \in Int
  BY <1>1 DEF Candidate, IdSpan, Snapshots, HarvestCost
<1>3. Ends(harvested) /\ Like(s, Final(harvested))
  BY <1>1, <1>2, HarvestEnds
<1> HIDE DEF batch, harvested
<1>4. Ends(step) /\ Like(s, Final(step))
  <2>1. Final(harvested) \in Snapshots
    BY <1>3 DEF Like
  <2>2. Ends(step) /\ Like(Final(harvested), Final(step))
    BY <2>1, ConfTypes, VerificationEnds
  <2> QED BY <1>3, <2>2, Likes
<1>7. TraceBatch(m, s) = r4
  BY DEF TraceBatch, batch, harvested
<1> HIDE DEF step, reviews, aborts
<1>8. Good(q1) /\ Len(q1) >= 1 /\ Good(q2) /\ Good(q3) /\ Good(q4)
  <2>1. Len(q1) = 1 /\ Good(q1)
    BY GoodFile
  <2> QED BY <2>1, GoodFile, GoodCommits
<1>9. Every(q4) => Backed(Final(step))
  <2>1. Every(q4) => \A k \in DOMAIN step : step[k] \in CommittedEdges
    BY GoodCommits
  <2> QED BY <1>1, <1>4, <2>1, BackedLike
<1>10. IsSeq(q5) /\ IsSeq(q6)
  BY FollowIsSeq, GoOnIsSeq, Nothing DEF Good
<1>11. Every(q4) => Good(q5)
  BY <1>4, <1>9, GoodFollow
<1>12. Every(q4) => Good(q6)
  <2> SUFFICES ASSUME Every(q4), reviews PROVE Good(GoOn("dataset-review", Final(step)))
    BY Nothing
  <2>1. Prepared("dataset-review", Final(step))
    BY <1>4, <1>9 DEF Prepared, Ends
  <2> QED BY <2>1, GoodGoOn
<1>13. Good(x)
  BY Single DEF Warranted
<1> HIDE DEF q1, q2, q3, q4, q5, q6, x
<1>15. Good(t3) /\ (Every(t3) => Every(q4))
  BY <1>8, <1>10, <1>11, Join DEF Good
<1> HIDE DEF t3
<1>16. Good(t4)
  BY <1>10, <1>12, <1>15, Join
<1>17. Good(tail)
  BY <1>13, <1>16
<1> HIDE DEF t4, tail
<1>18. Good(r2) /\ Len(r2) >= 1
  BY <1>8, Join DEF Good
<1> HIDE DEF r2
<1>19. Good(r3) /\ Len(r3) >= 1
  BY <1>8, <1>18, Join DEF Good
<1> HIDE DEF r3
<1>20. Good(r4) /\ Len(r4) >= 1
  BY <1>17, <1>19, Join DEF Good
<1> QED BY <1>7, <1>20

\* _run_model_inner_loop: a promotion follows at once only without a review.
LEMMA GoodModel ==
  ASSUME conf \in Setups, NEW m, Sized(m), NEW s, Prepared("model", s)
  PROVE  Good(ModelLoop(m, s)) /\ Len(ModelLoop(m, s)) >= 1
<1> DEFINE input == Loops!PolicyInput(m.run, s)
           trained == TrainingCompleted(conf.model, input, s.cycle, TrainingCost(s))
           step == ModelEvaluation(conf.model, Final(trained), ModelScore(m, s),
                                   ModelEvaluationCost)
           aborts == Final(trained).state = "ABORTED"
           q1 == File("weights", s.cycle)
           q2 == Commits("model-trained", s.cycle, s.iteration, trained, {})
           q3 == Commits("model-evaluated", s.cycle, s.iteration, step, {})
           q4 == Follow(m, step)
           q5 == AfterDecision(step)
           t2 == q3 \o q4
           t3 == t2 \o q5
           x == << [do |-> "raise"] >>
           tail == IF aborts THEN x ELSE t3
           r2 == q1 \o q2
           r3 == r2 \o tail
<1>1. s \in Snapshots /\ Backed(s)
  BY DEF Prepared
<1>2. s.cycle \in Int /\ TrainingCost(s) \in Int /\ ModelEvaluationCost \in Int
      /\ ModelScore(m, s) \in Int
  <2>1. s.cycle \in Int /\ s.meta.accepted \in Int
    BY <1>1 DEF Snapshots, Metas
  <2> QED BY <1>1, <2>1, ScoreTypes DEF TrainingCost, ModelEvaluationCost
<1>3. Ends(trained) /\ Like(s, Final(trained))
  <2>1. Like(s, input)
    BY <1>1, InputFields DEF Sized
  <2> HIDE DEF input
  <2>2. Ends(trained) /\ Like(input, Final(trained))
    BY <1>2, <2>1, TrainingEnds DEF Like
  <2> QED BY <2>1, <2>2, Likes
<1> HIDE DEF input, trained
<1>4. /\ Ends(step) /\ Like(s, Final(step))
      /\ Final(step).state = "PROMOTE_MODEL" => ~conf.model.approval
  <2>1. Final(trained) \in Snapshots
    BY <1>3 DEF Like
  <2>2. /\ Ends(step) /\ Like(Final(trained), Final(step))
        /\ Final(step).state = "PROMOTE_MODEL" => ~conf.model.approval
    BY <1>2, <2>1, ModelEvaluationEnds
  <2> QED BY <1>3, <2>2, Likes
<1>7. ModelLoop(m, s) = r3
  BY DEF ModelLoop, input, trained
<1> HIDE DEF step, aborts
<1>8. Good(q1) /\ Len(q1) >= 1 /\ Good(q2) /\ Good(q3)
  <2>1. Len(q1) = 1 /\ Good(q1)
    BY GoodFile
  <2>2. Good(q2)
    BY GoodCommits
  <2>3. Good(q3)
    BY GoodCommits
  <2> HIDE DEF q1, q2, q3
  <2> QED BY <2>1, <2>2, <2>3
<1>9. Every(q3) => Backed(Final(step))
  <2>1. Every(q3) => \A k \in DOMAIN step : step[k] \in CommittedEdges
    BY GoodCommits
  <2> QED BY <1>1, <1>4, <2>1, BackedLike
<1>10. IsSeq(q4) /\ IsSeq(q5)
  BY FollowIsSeq, AfterIsSeq
<1>11. Every(q3) => Good(q4)
  BY <1>4, <1>9, GoodFollow
<1>12. Every(q3) => Good(q5)
  BY <1>4, <1>9, GoodAfter DEF Prepared
<1>13. Good(x)
  BY Single DEF Warranted
<1> HIDE DEF q1, q2, q3, q4, q5, x
<1>14. Good(t2) /\ (Every(t2) => Every(q3))
  BY <1>8, <1>10, <1>11, Join
<1> HIDE DEF t2
<1>15. Good(t3)
  BY <1>10, <1>12, <1>14, Join
<1>17. Good(tail)
  BY <1>13, <1>15
<1> HIDE DEF t3, tail
<1>18. Good(r2) /\ Len(r2) >= 1
  BY <1>8, Join DEF Good
<1> HIDE DEF r2
<1>19. Good(r3) /\ Len(r3) >= 1
  BY <1>17, <1>18, Join DEF Good
<1> QED BY <1>7, <1>19

\* _enter_dataset_review: the request and its evidence are there before the
\* record waits for the answer.
LEMMA GoodDatasetReview ==
  ASSUME NEW m, Sized(m), NEW s, Prepared("dataset-review", s)
  PROVE  Good(DatasetReview(m, s)) /\ Len(DatasetReview(m, s)) >= 1
<1> DEFINE review == Loops!DatasetReviewSnapshot(s)
           id == <<"dataset", s.meta.dataset, s.iteration>>
           op == [do |-> "request", id |-> id]
           edge == Edge("REQUEST_APPROVAL", "DATASET", s.meta.dataset, review)
           q1 == << op >>
           q2 == Commits("dataset-review-requested", s.meta.dataset, s.iteration, << edge >>, {})
           q3 == Update(m, review, m.run.completed, "dataset")
           r2 == q1 \o q2
           r3 == r2 \o q3
           n == Loops!Moved(m.run, review, m.run.completed, "dataset")
<1>1. s \in Snapshots /\ Backed(s)
  BY DEF Prepared
<1>2. Like(s, review) /\ review.iteration = s.iteration /\ review.meta.dataset = s.meta.dataset
  BY <1>1, DatasetFields
<1>3. DatasetReview(m, s) = r3
  BY DEF DatasetReview
<1> HIDE DEF review
<1>4. edge.snap = review
  BY DEF Edge
<1> HIDE DEF edge
<1>5. Good(q1) /\ Len(q1) >= 1 /\ (Every(q1) => id \in disk.requests)
  <2>1. Warranted(op) /\ (Performed(op) => id \in disk.requests)
    BY DEF Warranted, Performed
  <2> HIDE DEF op
  <2>2. Len(q1) = 1 /\ Good(q1) /\ (Every(q1) => Performed(op))
    BY <2>1, Single
  <2> QED BY <2>1, <2>2
<1>6. Good(q2)
  BY GoodCommits
<1>7. Every(q2) =>
        /\ Backed(review)
        /\ \E t \in disk.txs : t.name = <<"dataset-review-requested", s.iteration, s.meta.dataset>>
  <2> SUFFICES ASSUME Every(q2)
               PROVE  /\ Backed(review)
                      /\ \E t \in disk.txs : t.name = <<"dataset-review-requested", s.iteration, s.meta.dataset>>
    OBVIOUS
  <2>1. /\ \A k \in DOMAIN << edge >> : << edge >>[k] \in CommittedEdges
        /\ \E t \in disk.txs : t.name = <<"dataset-review-requested", s.iteration, s.meta.dataset>>
    BY GoodCommits
  <2>2. Ends(<< edge >>) /\ Final(<< edge >>) = review
    BY <1>2, <1>4, OneLike
  <2>3. Backed(Final(<< edge >>))
    BY <1>1, <1>2, <2>1, <2>2, BackedLike
  <2> QED BY <2>1, <2>2, <2>3
<1>8. review \in Snapshots
  BY <1>2 DEF Like
<1>9. n.snap = review /\ n.pending = "dataset"
  BY DEF Loops!Moved
<1> HIDE DEF n, q1, q2
<1>10. ASSUME Every(q1), Every(q2) PROVE Settled(n)
  <2>1. RequestId("dataset", review) = id
    BY <1>2 DEF RequestId
  <2>2. RequestId(n.pending, n.snap) \in disk.requests
    BY <1>5, <1>9, <1>10, <2>1
  <2>3. HasRequest(n)
    BY <1>2, <1>7, <1>9, <1>10 DEF HasRequest
  <2> QED BY <1>7, <1>9, <1>10, <2>2, <2>3 DEF Settled
<1>11. Every(q1) /\ Every(q2) => Good(q3)
  BY <1>8, <1>10, GoodUpdate DEF n
<1>12. IsSeq(q3)
  BY UpdateIsSeq
<1> HIDE DEF q3
<1>13. Good(r2) /\ Len(r2) >= 1 /\ (Every(r2) => Every(q1) /\ Every(q2))
  BY <1>5, <1>6, Join DEF Good
<1> HIDE DEF r2
<1>14. Good(r3) /\ Len(r3) >= 1
  BY <1>11, <1>12, <1>13, Join
<1> QED BY <1>3, <1>14

\* _create_approval_request: the same for a Harness and for a model.
LEMMA GoodRequest ==
  ASSUME NEW m, Sized(m), NEW s, Prepared("request", s)
  PROVE  Good(CreateRequest(m, s)) /\ Len(CreateRequest(m, s)) >= 1
<1> DEFINE subject == Loops!ReviewOf[s.state]
           id == RequestId(subject, s)
           op == [do |-> "request", id |-> id]
           q1 == << op >>
           q2 == Commits("approval-requested", id, s.iteration, <<>>, {})
           q3 == Update(m, s, m.run.completed, subject)
           r2 == q1 \o q2
           r3 == r2 \o q3
           n == Loops!Moved(m.run, s, m.run.completed, subject)
<1>1. s \in Snapshots /\ Backed(s)
  BY DEF Prepared
<1>2. subject \in {"harness", "checkpoint"}
  BY DEF Prepared, Loops!ReviewOf
<1>3. CreateRequest(m, s) = r3
  BY DEF CreateRequest
<1> HIDE DEF subject
<1>9. n.snap = s /\ n.pending = subject
  BY DEF Loops!Moved
<1> HIDE DEF id
<1>5. Good(q1) /\ Len(q1) >= 1 /\ (Every(q1) => id \in disk.requests)
  <2>1. Warranted(op) /\ (Performed(op) => id \in disk.requests)
    BY DEF Warranted, Performed
  <2> HIDE DEF op
  <2>2. Len(q1) = 1 /\ Good(q1) /\ (Every(q1) => Performed(op))
    BY <2>1, Single
  <2> QED BY <2>1, <2>2
<1>6. Good(q2)
  BY GoodCommits
<1>7. Every(q2) => \E t \in disk.txs : t.name = <<"approval-requested", s.iteration, id>>
  BY GoodCommits
<1> HIDE DEF n, q1, q2
<1>10. ASSUME Every(q1), Every(q2) PROVE Settled(n)
  <2>1. RequestId(n.pending, n.snap) = id
    BY <1>9 DEF id
  <2>2. HasRequest(n)
    BY <1>2, <1>7, <1>9, <1>10, <2>1 DEF HasRequest
  <2> QED BY <1>1, <1>5, <1>9, <1>10, <2>1, <2>2 DEF Settled
<1>11. Every(q1) /\ Every(q2) => Good(q3)
  BY <1>1, <1>2, <1>10, GoodUpdate DEF n
<1>12. IsSeq(q3)
  BY UpdateIsSeq
<1> HIDE DEF q3
<1>13. Good(r2) /\ Len(r2) >= 1 /\ (Every(r2) => Every(q1) /\ Every(q2))
  BY <1>5, <1>6, Join DEF Good
<1> HIDE DEF r2
<1>14. Good(r3) /\ Len(r3) >= 1
  BY <1>11, <1>12, <1>13, Join
<1> QED BY <1>3, <1>14

\* The fields of a pointer.
LEMMA PointerFields ==
  ASSUME NEW id, NEW prev, NEW order, NEW score, NEW a, NEW b, NEW c
  PROVE  LET p == Pointer(id, prev, order, score, <<a, b, c>>)
         IN  p.id = id /\ p.score = score /\ p # NoPointer
<1>1. <<a, b, c>> # <<>>
  OBVIOUS
<1> QED BY <1>1 DEF Pointer, NoPointer

\* _commit_model_promotion: the record moves to a model that has its bundle.
LEMMA GoodPromotion ==
  ASSUME NEW m, Sized(m), NEW s, Prepared("promotion", s)
  PROVE  Good(Promotion(m, s)) /\ Len(Promotion(m, s)) >= 1
<1> DEFINE decided == IF conf.model.approval THEN "model-review-completed" ELSE "model-evaluated"
           step == PromotionCommitted(s)
           pointer == Pointer(s.candCkpt, m.run.snap.ckpt, s.iteration, s.candScore,
                              <<decided, s.iteration, s.candCkpt>>)
           q1 == Adopt("peak", pointer)
           q2 == Commits("model-promotion-committed", s.candCkpt, s.iteration, step, {"peak"})
           q3 == Follow(m, step)
           r2 == q1 \o q2
           r3 == r2 \o q3
<1>1. s \in Snapshots /\ Backed(s) /\ s.candScore \in Int
  BY DEF Prepared, Snapshots
<1>2. Ends(step) /\ Final(step).ckpt = s.candCkpt /\ Final(step).harness = s.harness
  BY <1>1, PromotionEnds
<1>3. Promotion(m, s) = r3
  BY DEF Promotion
<1>4. pointer.id = s.candCkpt /\ pointer.score = s.candScore /\ pointer # NoPointer
  BY PointerFields
<1> HIDE DEF pointer, step
<1>5. Authorised("peak", pointer)
  BY <1>4 DEF Authorised, Prepared
<1>6. Good(q1) /\ (Every(q1) => \E b \in disk.bundles["peak"] : b.id = s.candCkpt)
  BY <1>1, <1>4, <1>5, GoodAdopt DEF Stores
<1>7. Good(q2)
  BY GoodCommits
<1>8. ASSUME Every(q1), Every(q2) PROVE Backed(Final(step))
  <2>1. \A k \in DOMAIN step : step[k] \in CommittedEdges
    BY <1>8, GoodCommits
  <2> QED BY <1>1, <1>2, <1>6, <1>8, <2>1, FinalCommitted DEF Backed
<1>9. Every(q1) /\ Every(q2) => Good(q3)
  BY <1>2, <1>8, GoodFollow
<1>10. IsSeq(q3)
  BY FollowIsSeq
<1>11. Len(q1) >= 1
  BY DEF Adopt
<1> HIDE DEF q1, q2, q3
<1>13. Good(r2) /\ Len(r2) >= 1 /\ (Every(r2) => Every(q1) /\ Every(q2))
  BY <1>6, <1>7, <1>11, Join DEF Good
<1> HIDE DEF r2
<1>14. Good(r3) /\ Len(r3) >= 1
  BY <1>9, <1>10, <1>13, Join
<1> QED BY <1>3, <1>14

\* _commit_model_rollback: the record keeps the model it had.
LEMMA GoodRollback ==
  ASSUME NEW m, Sized(m), NEW s, Prepared("rollback", s)
  PROVE  Good(Rollback(m, s)) /\ Len(Rollback(m, s)) >= 1
<1> DEFINE step == Loops!RollbackStep(s)
           q1 == << [do |-> "mark", id |-> <<s.candCkpt, s.iteration>>] >>
           q2 == Commits("model-rollback-committed", s.candCkpt, s.iteration, step, {})
           q3 == CompleteCycle(m, step)
           r2 == q1 \o q2
           r3 == r2 \o q3
<1>1. s \in Snapshots /\ Backed(s)
  BY DEF Prepared
<1>2. Ends(step) /\ Like(s, Final(step))
  BY <1>1, RollbackEnds
<1>3. Rollback(m, s) = r3
  BY DEF Rollback
<1> HIDE DEF step
<1>4. Good(q1) /\ Len(q1) >= 1
  <2>1. Len(q1) = 1 /\ Good(q1)
    BY Single DEF Warranted
  <2> QED BY <2>1
<1>5. Good(q2) /\ (Every(q2) => Backed(Final(step)))
  <2>1. Good(q2) /\ (Every(q2) => \A k \in DOMAIN step : step[k] \in CommittedEdges)
    BY GoodCommits
  <2> QED BY <1>1, <1>2, <2>1, BackedLike
<1>6. Every(q2) => Good(q3)
  BY <1>2, <1>5, GoodComplete
<1>7. IsSeq(q3)
  BY CompleteIsSeq
<1> HIDE DEF q1, q2, q3
<1>13. Good(r2) /\ Len(r2) >= 1 /\ (Every(r2) => Every(q2))
  BY <1>4, <1>5, Join DEF Good
<1> HIDE DEF r2
<1>14. Good(r3) /\ Len(r3) >= 1
  BY <1>6, <1>7, <1>13, Join
<1> QED BY <1>3, <1>14

\* A slim Harness is not a searched one: nobody reviews it.
LEMMA SlimIsOwn == ASSUME NEW n \in Int PROVE Slim(n) % IdSpan = 0 /\ Slim(n) \in Int
  BY DEF Slim, IdSpan

\* _slim_harness_after_model_promotion: the slim Harness has its bundle first.
LEMMA GoodSlim ==
  ASSUME conf \in Setups, NEW m, Sized(m), NEW s, Prepared("slim", s)
  PROVE  Good(SlimHarness(m, s)) /\ Len(SlimHarness(m, s)) >= 1
<1> DEFINE step == Loops!SlimStep(conf, m.run, s)
           slim == Slim(s.cycle)
           pointer == Pointer(slim, m.run.snap.harness, s.cycle, Final(step).score,
                              <<"harness-slimmed", 0, slim>>)
           q1 == File("slim", slim)
           q2 == Commits("harness-slimmed", slim, 0, step, {})
           q3 == Adopt("harness", pointer)
           q4 == CompleteCycle(m, step)
           r2 == q1 \o q2
           r3 == r2 \o q3
           r4 == r3 \o q4
<1>1. s \in Snapshots /\ Backed(s) /\ s.cycle \in Int
  BY DEF Prepared, Snapshots
<1>2. Ends(step) /\ Final(step).ckpt = s.ckpt /\ Final(step).harness = slim
  BY <1>1, SlimEnds, ConfTypes DEF Sized
<1>3. SlimHarness(m, s) = r4
  BY DEF SlimHarness
<1> HIDE DEF step
<1>4. pointer.id = slim /\ pointer.score \in Int /\ pointer # NoPointer
  BY <1>2, PointerFields DEF Ends, Snapshots
<1> HIDE DEF pointer
<1>5. Authorised("harness", pointer)
  BY <1>1, <1>4, SlimIsOwn DEF Authorised
<1> HIDE DEF slim
<1>6. Good(q1) /\ Len(q1) >= 1
  <2>1. Len(q1) = 1 /\ Good(q1)
    BY GoodFile
  <2> QED BY <2>1
<1>7. Good(q2) /\ (Every(q2) => \A k \in DOMAIN step : step[k] \in CommittedEdges)
  BY GoodCommits
<1>8. Good(q3) /\ (Every(q3) => \E b \in disk.bundles["harness"] : b.id = slim)
  BY <1>4, <1>5, GoodAdopt DEF Stores
<1>9. Every(q2) /\ Every(q3) => Backed(Final(step))
  BY <1>1, <1>2, <1>7, <1>8, FinalCommitted DEF Backed
<1>10. Every(q2) /\ Every(q3) => Good(q4)
  BY <1>2, <1>9, GoodComplete
<1>11. IsSeq(q4)
  BY CompleteIsSeq
<1> HIDE DEF q1, q2, q3, q4
<1>12. Good(r2) /\ Len(r2) >= 1 /\ (Every(r2) => Every(q2))
  BY <1>6, <1>7, Join DEF Good
<1> HIDE DEF r2
<1>13. Good(r3) /\ Len(r3) >= 1 /\ (Every(r3) => Every(q2) /\ Every(q3))
  BY <1>8, <1>12, Join DEF Good
<1> HIDE DEF r3
<1>14. Good(r4) /\ Len(r4) >= 1
  BY <1>10, <1>11, <1>13, Join
<1> QED BY <1>3, <1>14

\* One commit and the update of the record.
LEMMA GoodTurn ==
  ASSUME NEW m, Sized(m), NEW s, Backed(s), NEW step, Ends(step), Like(s, Final(step)),
         NEW label, NEW subject, NEW at, NEW reads
  PROVE  LET q == Commits(label, subject, at, step, reads) \o Follow(m, step)
         IN  Good(q) /\ Len(q) >= 1 /\ (Every(q) => Backed(Final(step)))
<1> DEFINE q1 == Commits(label, subject, at, step, reads)
           q2 == Follow(m, step)
<1>1. Good(q1) /\ Len(q1) >= 1 /\ (Every(q1) => \A k \in DOMAIN step : step[k] \in CommittedEdges)
  BY GoodCommits
<1>2. Every(q1) => Backed(Final(step))
  BY <1>1, BackedLike
<1>3. Every(q1) => Good(q2)
  BY <1>2, GoodFollow
<1>4. IsSeq(q2)
  BY FollowIsSeq
<1> HIDE DEF q1, q2
<1>5. Good(q1 \o q2) /\ Len(q1 \o q2) >= 1 /\ (Every(q1 \o q2) => Every(q1))
  BY <1>1, <1>3, <1>4, Join
<1> QED BY <1>2, <1>5 DEF q1, q2

\* _begin_outer_cycle and _stop_cycle_limit: one commit and the update.
LEMMA GoodBegin ==
  ASSUME NEW m, Sized(m), NEW s, Prepared("begin", s)
  PROVE  Good(BeginCycle(m, s)) /\ Len(BeginCycle(m, s)) >= 1
<1>1. s \in Snapshots /\ Backed(s) /\ m.run.modelScore \in Int
  BY DEF Prepared, Sized
<1>2. Ends(Loops!BeginStep(m.run, s)) /\ Like(s, Final(Loops!BeginStep(m.run, s)))
  BY <1>1, BeginEnds
<1> QED BY <1>1, <1>2, GoodTurn DEF BeginCycle

LEMMA GoodStop ==
  ASSUME NEW m, Sized(m), NEW s, Prepared("stop", s)
  PROVE  Good(StopAtLimit(m, s)) /\ Len(StopAtLimit(m, s)) >= 1
<1>1. s \in Snapshots /\ Backed(s) /\ m.run.modelScore \in Int
  BY DEF Prepared, Sized
<1>2. Ends(Loops!StopStep(m.run, s)) /\ Like(s, Final(Loops!StopStep(m.run, s)))
  BY <1>1, StopEnds
<1> QED BY <1>1, <1>2, GoodTurn DEF StopAtLimit

\* What a reviewer approved is granted.
LEMMA ApprovedIsGranted ==
  ASSUME NEW m, Approved(m)
  PROVE  /\ m.run.pending = "harness" => Granted("harness", m.run.snap.candHarness)
         /\ m.run.pending = "checkpoint" => Granted("checkpoint", m.run.snap.candCkpt)
<1> DEFINE a == <<RequestId(m.run.pending, m.run.snap), TRUE>>
<1>1. a \in disk.answers /\ a[1] = RequestId(m.run.pending, m.run.snap) /\ a[2]
  BY DEF Approved
<1> HIDE DEF a
<1>2. ASSUME m.run.pending = "harness"
      PROVE  a[1][1] = "harness" /\ a[1][2] = m.run.snap.candHarness
  BY <1>1, <1>2 DEF RequestId
<1>3. ASSUME m.run.pending = "checkpoint"
      PROVE  a[1][1] = "checkpoint" /\ a[1][2] = m.run.snap.candCkpt
  BY <1>1, <1>3 DEF RequestId
<1> QED BY <1>1, <1>2, <1>3 DEF Granted

\* _resume_pending_approval of a Harness: it is adopted only when approved.
LEMMA GoodHarnessResume ==
  ASSUME NEW m, Sized(m), NEW s, s = m.run.snap, Prepared("resume", s),
         m.run.pending = "harness"
  PROVE  Good(Resume(m, s)) /\ Len(Resume(m, s)) >= 1
<1> DEFINE step == HarnessReview(conf.outer, s, Approved(m))
           accepts == step[1].snap.state = "ACCEPT_HARNESS"
           pointer == Pointer(s.candHarness, m.run.snap.harness, s.cycle, s.candScore,
                              <<"harness-review-completed", s.iteration, s.candHarness>>)
           q1 == Commits("harness-review-completed", s.candHarness, s.iteration, step, {})
           q2 == IF accepts THEN Adopt("harness", pointer) ELSE <<>>
           q3 == Follow(m, step)
           r2 == q1 \o q2
           r3 == r2 \o q3
<1>1. s \in Snapshots /\ Backed(s) /\ s.candScore \in Int
  BY DEF Prepared, Snapshots
<1>2. /\ Ends(step) /\ Final(step).ckpt = s.ckpt
      /\ IF accepts THEN Final(step).harness = s.candHarness /\ Approved(m)
         ELSE Final(step).harness = s.harness
  BY <1>1, HarnessReviewEnds
<1>3. Resume(m, s) = r3
  BY DEF Resume
<1> HIDE DEF step, accepts
<1>4. pointer.id = s.candHarness /\ pointer.score \in Int /\ pointer # NoPointer
  BY <1>1, PointerFields
<1> HIDE DEF pointer
<1>5. Authorised("harness", pointer) \/ ~accepts
  BY <1>2, <1>4, ApprovedIsGranted DEF Authorised
<1>6. Good(q1) /\ Len(q1) >= 1 /\ (Every(q1) => \A k \in DOMAIN step : step[k] \in CommittedEdges)
  BY GoodCommits
<1>7. Good(q2) /\ (Every(q2) /\ accepts => \E b \in disk.bundles["harness"] : b.id = s.candHarness)
  BY <1>4, <1>5, GoodAdopt, Nothing DEF Stores
<1>8. ASSUME Every(q1), Every(q2) PROVE Backed(Final(step))
  BY <1>1, <1>2, <1>6, <1>7, <1>8, FinalCommitted DEF Backed
<1>9. Every(q1) /\ Every(q2) => Good(q3)
  BY <1>2, <1>8, GoodFollow
<1>10. IsSeq(q2) /\ IsSeq(q3)
  BY AdoptIsSeq, FollowIsSeq, Nothing DEF Good
<1> HIDE DEF q1, q2, q3
<1>11. Good(r2) /\ Len(r2) >= 1 /\ (Every(r2) => Every(q1) /\ Every(q2))
  BY <1>6, <1>7, <1>10, Join
<1> HIDE DEF r2
<1>12. Good(r3) /\ Len(r3) >= 1
  BY <1>9, <1>10, <1>11, Join
<1> QED BY <1>3, <1>12

\* _resume_pending_approval: the answer decides, in every kind of review.
LEMMA GoodResume ==
  ASSUME NEW m, Sized(m), NEW s, s = m.run.snap, Prepared("resume", s),
         m.run.pending # "none"
  PROVE  Good(Resume(m, s)) /\ Len(Resume(m, s)) >= 1
<1>1. s \in Snapshots /\ Backed(s) /\ disk.record # NoRecord
  BY DEF Prepared
<1>2. CASE m.run.pending = "harness"
  BY <1>2, GoodHarnessResume
<1>3. CASE m.run.pending = "dataset"
  <2> DEFINE step == Loops!DatasetReviewed(s, Approved(m))
             q == Commits("dataset-review-completed", s.meta.dataset, s.iteration, step, {})
                  \o Follow(m, step)
  <2>1. Resume(m, s) = q
    BY <1>3 DEF Resume
  <2>2. Ends(step) /\ Like(s, Final(step))
    BY <1>1, DatasetReviewedEnds
  <2> HIDE DEF step
  <2>3. Good(q) /\ Len(q) >= 1
    BY <1>1, <2>2, GoodTurn
  <2> QED BY <2>1, <2>3
<1>4. CASE m.run.pending = "checkpoint"
  <2> DEFINE step == ModelReview(s, Approved(m))
             q1 == Commits("model-review-completed", s.candCkpt, s.iteration, step, {})
                  \o Follow(m, step)
             q2 == AfterDecision(step)
  <2>1. Resume(m, s) = q1 \o q2
    BY <1>4 DEF Resume
  <2>2. /\ Ends(step) /\ Like(s, Final(step))
        /\ Final(step).state = "PROMOTE_MODEL" => Approved(m) /\ Final(step).candCkpt = s.candCkpt
    BY <1>1, ModelReviewEnds
  <2> HIDE DEF step
  <2>3. Good(q1) /\ Len(q1) >= 1 /\ (Every(q1) => Backed(Final(step)))
    BY <1>1, <2>2, GoodTurn
  <2>4. Every(q1) => Good(q2)
    <3>1. Final(step).state = "PROMOTE_MODEL" => Granted("checkpoint", Final(step).candCkpt)
      BY <1>4, <2>2, ApprovedIsGranted
    <3> QED BY <1>1, <2>2, <2>3, <3>1, GoodAfter
  <2>5. IsSeq(q2)
    BY AfterIsSeq
  <2> HIDE DEF q1, q2
  <2>6. Good(q1 \o q2) /\ Len(q1 \o q2) >= 1
    BY <2>3, <2>4, <2>5, Join
  <2> QED BY <2>1, <2>6
<1> QED BY <1>2, <1>3, <1>4 DEF Sized

\* The last operation of a plan.
LEMMA LastOf ==
  ASSUME NEW a, IsSeq(a), NEW op
  PROVE  \E i \in 1..Len(a \o << op >>) : (a \o << op >>)[i] = op
<1>1. PICK A : a \in Seq(A)
  BY DEF IsSeq
<1>2. a \in Seq(A \cup {op}) /\ << op >> \in Seq(A \cup {op})
  BY <1>1
<1>3. << op >>[1] = op /\ Len(<< op >>) = 1 /\ Len(a) \in Nat
  BY <1>1
<1> DEFINE q == a \o << op >>
<1>4. /\ Len(q) = Len(a) + Len(<< op >>)
      /\ \A i \in 1..(Len(a) + Len(<< op >>)) :
           q[i] = IF i <= Len(a) THEN a[i] ELSE << op >>[i - Len(a)]
  BY <1>2, ConcatProperties
<1> HIDE DEF q
<1>5. Len(a) + 1 \in 1..Len(q) /\ q[Len(a) + 1] = op
  BY <1>3, <1>4
<1> QED BY <1>5 DEF q

\* _bootstrap: the record is created last, over committed bundles and pointers.
LEMMA GoodBootstrap ==
  ASSUME conf \in Setups
  PROVE  /\ Good(Bootstrap) /\ Len(Bootstrap) >= 1
         /\ \E i \in 1..Len(Bootstrap) : Bootstrap[i].do = "create"
<1> DEFINE start == OuterStart(1, 0, 0, conf.harnessScore, 0)
           frozen == [start[1].snap EXCEPT !.meta.modelScore = conf.modelScore]
           op == [do |-> "create", to |-> FirstRecord]
           qa == File("model", 0)
           qb == File("config", 0)
           qc == Commits("bootstrap-model", 0, 0, <<Edge("PROMOTE", "CHECKPOINT", 0, frozen)>>, {})
           qd == Adopt("peak", BootModel)
           qe == File("harness", 0)
           qf == Commits("bootstrap-harness", 0, 0, <<Edge("ACCEPT", "HARNESS", 0, frozen)>>, {})
           qg == Adopt("harness", BootHarness)
           qh == Commits("outer-start", 0, 0, start, {"peak", "harness"})
           qi == << op >>
           rb == qa \o qb
           rc == rb \o qc
           rd == rc \o qd
           re == rd \o qe
           rf == re \o qf
           rg == rf \o qg
           rh == rg \o qh
           ri == rh \o qi
<1>1. Bootstrap = ri
  BY DEF Bootstrap
<1>2. Ends(start) /\ Final(start).ckpt = 0 /\ Final(start).harness = 0
  BY ConfTypes, StartEnds
<1>3. FirstRecord.run.snap = Final(start) /\ FirstRecord.run.pending = "none"
      /\ FirstRecord.run.modelScore \in Int /\ FirstRecord # NoRecord
  <2>1. "cycle" \in DOMAIN FirstRecord /\ "cycle" \notin DOMAIN NoRecord
    BY DEF FirstRecord, NoRecord
  <2> QED BY <2>1, ConfTypes DEF FirstRecord
<1> HIDE DEF start, frozen
<1>4. /\ BootModel.id = 0 /\ BootModel.score \in Int /\ BootModel # NoPointer
      /\ BootHarness.id = 0 /\ BootHarness.score \in Int /\ BootHarness # NoPointer
  BY ConfTypes, PointerFields DEF BootModel, BootHarness
<1>5. Authorised("peak", BootModel) /\ Authorised("harness", BootHarness)
  BY <1>4 DEF Authorised, IdSpan
<1>6. /\ Good(qa) /\ Len(qa) >= 1 /\ Good(qb) /\ Good(qe)
  <2>1. Len(qa) = 1 /\ Good(qa)
    BY GoodFile
  <2> QED BY <2>1, GoodFile
<1>7. /\ Good(qc) /\ Good(qf) /\ Good(qh)
      /\ Every(qh) => \A k \in DOMAIN start : start[k] \in CommittedEdges
  BY GoodCommits
<1>8. /\ Good(qd) /\ (Every(qd) => \E b \in disk.bundles["peak"] : b.id = 0)
      /\ Good(qg) /\ (Every(qg) => \E b \in disk.bundles["harness"] : b.id = 0)
  BY <1>4, <1>5, GoodAdopt DEF Stores
<1>9. ASSUME Every(qd), Every(qg), Every(qh) PROVE Warranted(op)
  <2>1. Backed(Final(start))
    BY <1>2, <1>7, <1>8, <1>9, FinalCommitted DEF Backed
  <2>2. Settled(FirstRecord.run)
    BY <1>3, <2>1 DEF Settled
  <2>3. Sized(FirstRecord)
    BY <1>2, <1>3 DEF Sized, Ends
  <2> HIDE DEF op
  <2>4. op.do = "create" /\ op.to = FirstRecord
    BY DEF op
  <2> QED BY <2>2, <2>3, <2>4 DEF Warranted
<1>10. /\ Every(qd) /\ Every(qg) /\ Every(qh) => Good(qi)
       /\ IsSeq(qi)
  <2> HIDE DEF op
  <2> QED BY <1>9, Single
<1>19. op.do = "create" /\ qi = << op >>
  OBVIOUS
<1> HIDE DEF op
<1> HIDE DEF qa, qb, qc, qd, qe, qf, qg, qh, qi
<1>11. Good(rb) /\ Len(rb) >= 1
  BY <1>6, Join DEF Good
<1> HIDE DEF rb
<1>12. Good(rc) /\ Len(rc) >= 1
  BY <1>7, <1>11, Join DEF Good
<1> HIDE DEF rc
<1>13. Good(rd) /\ Len(rd) >= 1 /\ (Every(rd) => Every(qd))
  BY <1>8, <1>12, Join DEF Good
<1> HIDE DEF rd
<1>14. Good(re) /\ Len(re) >= 1 /\ (Every(re) => Every(qd))
  BY <1>6, <1>13, Join DEF Good
<1> HIDE DEF re
<1>15. Good(rf) /\ Len(rf) >= 1 /\ (Every(rf) => Every(qd))
  BY <1>7, <1>14, Join DEF Good
<1> HIDE DEF rf
<1>16. Good(rg) /\ Len(rg) >= 1 /\ (Every(rg) => Every(qd) /\ Every(qg))
  BY <1>8, <1>15, Join DEF Good
<1> HIDE DEF rg
<1>17. Good(rh) /\ Len(rh) >= 1 /\ (Every(rh) => Every(qd) /\ Every(qg) /\ Every(qh))
  BY <1>7, <1>16, Join DEF Good
<1> HIDE DEF rh
<1>18. Good(ri) /\ Len(ri) >= 1
  BY <1>10, <1>17, Join
<1>20. \E i \in 1..Len(ri) : ri[i] = op
  BY <1>17, <1>19, LastOf DEF Good
<1> HIDE DEF ri
<1> QED BY <1>1, <1>18, <1>19, <1>20

\* What a process in a handler other than the bootstrap was given.
Ready(p) ==
  /\ Prepared(p.job, p.snap) /\ Sized(p.meta)
  /\ p.job = "resume" => /\ p.snap = p.meta.run.snap /\ p.meta.run.pending # "none"
                         /\ Answered(p.meta)

\* Every handler does only what is warranted.
LEMMA PlanIsGood ==
  ASSUME conf \in Setups, NEW p, p.job \in Handlers, p.job # "bootstrap" => Ready(p)
  PROVE  Good(Plan(p)) /\ Len(Plan(p)) >= 1
<1>1. CASE p.job = "bootstrap"
  BY <1>1, GoodBootstrap DEF Plan
<1>2. CASE p.job = "attempt"
  BY <1>2, GoodAttempt DEF Plan, Ready
<1>3. CASE p.job = "batch"
  BY <1>3, GoodBatch DEF Plan, Ready
<1>4. CASE p.job = "dataset-review"
  BY <1>4, GoodDatasetReview DEF Plan, Ready
<1>5. CASE p.job = "model"
  BY <1>5, GoodModel DEF Plan, Ready
<1>6. CASE p.job = "request"
  BY <1>6, GoodRequest DEF Plan, Ready
<1>7. CASE p.job = "promotion"
  BY <1>7, GoodPromotion DEF Plan, Ready
<1>8. CASE p.job = "rollback"
  BY <1>8, GoodRollback DEF Plan, Ready
<1>9. CASE p.job = "slim"
  BY <1>9, GoodSlim DEF Plan, Ready
<1>10. CASE p.job = "begin"
  BY <1>10, GoodBegin DEF Plan, Ready
<1>11. CASE p.job = "stop"
  BY <1>11, GoodStop DEF Plan, Ready
<1>12. CASE p.job = "resume"
  BY <1>12, GoodResume DEF Plan, Ready
<1> QED BY <1>1, <1>2, <1>3, <1>4, <1>5, <1>6, <1>7, <1>8, <1>9, <1>10, <1>11, <1>12
        DEF Handlers

-----------------------------------------------------------------------------
(* What every step keeps.                                                  *)

Keeps ==
  /\ conf' = conf /\ Grows
  /\ disk.record # NoRecord => disk'.record # NoRecord
  /\ \A id : (\E a \in disk.answers : a[1] = id)
               => (<<id, TRUE>> \in disk'.answers <=> <<id, TRUE>> \in disk.answers)

\* What was granted, committed, requested or performed stays so.
LEMMA GrantedStays ==
  ASSUME Keeps, NEW subject, NEW id, Granted(subject, id)
  PROVE  Granted(subject, id)'
  BY DEF Keeps, Grows, Granted

LEMMA AuthorisedStays ==
  ASSUME Keeps, NEW which, NEW p, Authorised(which, p)
  PROVE  Authorised(which, p)'
  BY GrantedStays DEF Authorised, Keeps

LEMMA BackedStays ==
  ASSUME Keeps, NEW s, Backed(s)
  PROVE  Backed(s)'
<1>1. /\ disk.txs \subseteq disk'.txs
      /\ disk.bundles["peak"] \subseteq disk'.bundles["peak"]
      /\ disk.bundles["harness"] \subseteq disk'.bundles["harness"]
  BY DEF Keeps, Grows, Stores
<1>2. CommittedEdges \subseteq CommittedEdges'
  BY <1>1 DEF CommittedEdges
<1> QED BY <1>1, <1>2 DEF Backed

LEMMA SettledStays ==
  ASSUME Keeps, NEW r, Settled(r)
  PROVE  Settled(r)'
<1>1. Backed(r.snap)'
  BY BackedStays DEF Settled
<1>2. HasRequest(r) => HasRequest(r)'
  BY DEF HasRequest, Keeps, Grows
<1>3. disk.requests \subseteq disk'.requests
  BY DEF Keeps, Grows
<1> QED BY <1>1, <1>2, <1>3 DEF Settled

LEMMA PerformedStays ==
  ASSUME Keeps, NEW op, Performed(op)
  PROVE  Performed(op)'
  BY DEF Performed, Keeps, Grows

LEMMA PreparedStays ==
  ASSUME Keeps, NEW job, NEW snap, Prepared(job, snap)
  PROVE  Prepared(job, snap)'
  BY BackedStays, GrantedStays DEF Prepared, Keeps

LEMMA ReadyStays ==
  ASSUME Keeps, NEW p, Ready(p)
  PROVE  Ready(p)'
<1>1. Prepared(p.job, p.snap)'
  BY PreparedStays DEF Ready
<1>2. Answered(p.meta) => Answered(p.meta)'
  BY DEF Answered, Keeps, Grows
<1> QED BY <1>1, <1>2 DEF Ready, Sized

\* The plan of a handler does not change under it.
LEMMA PlanStays ==
  ASSUME Keeps, NEW p, p.job # "bootstrap" => Ready(p)
  PROVE  Plan(p)' = Plan(p)
<1>1. conf' = conf
  BY DEF Keeps
<1>2. p.job = "resume" => (Approved(p.meta)' <=> Approved(p.meta))
  BY DEF Keeps, Ready, Answered, Approved
<1> QED BY <1>1, <1>2 DEF Plan, Bootstrap, FirstRecord, BootModel, BootHarness,
     HarnessAttempt, HarnessScore, Capped, TraceBatch, ModelLoop, ModelScore,
     Promotion, SlimHarness, Resume

\* A process has the record and snapshot it needs, and has performed the
\* operations of its plan before the one it is at.
Busy(p) ==
  /\ p.job \in Handlers =>
       /\ p.job # "bootstrap" => Ready(p)
       /\ p.at \in 1..Len(Plan(p))
       /\ \A i \in 1..(p.at - 1) : Performed(Plan(p)[i])
  /\ p.job = "loop" => disk.record # NoRecord

\* What a process counts on is not taken from it by any other.
LEMMA BusyStays ==
  ASSUME Keeps, NEW p, Busy(p)
  PROVE  Busy(p)'
<1>1. ASSUME p.job \in Handlers
      PROVE  /\ (p.job # "bootstrap" => Ready(p)')
             /\ p.at \in 1..Len(Plan(p)')
             /\ \A i \in 1..(p.at - 1) : Performed(Plan(p)[i])'
  <2>1. p.job # "bootstrap" => Ready(p) /\ Ready(p)'
    BY <1>1, ReadyStays DEF Busy
  <2>2. Plan(p)' = Plan(p)
    BY <2>1, PlanStays
  <2>3. ASSUME NEW i \in 1..(p.at - 1) PROVE Performed(Plan(p)[i])'
    <3>1. PICK op : op = Plan(p)[i]
      OBVIOUS
    <3>2. Performed(op)'
      BY <1>1, <3>1, PerformedStays DEF Busy
    <3>3. op = Plan(p)'[i]
      BY <2>2, <3>1
    <3> QED BY <3>2, <3>3 DEF Performed
  <2> QED BY <1>1, <2>1, <2>2, <2>3 DEF Busy
<1>2. p.job = "loop" => disk'.record # NoRecord
  BY DEF Busy, Keeps
<1> QED BY <1>1, <1>2 DEF Busy

\* A handler is entered.
LEMMA Begun ==
  ASSUME conf \in Setups, NEW p, p.at = 1, p.job \in Handlers,
         p.job # "bootstrap" => Ready(p)
  PROVE  Busy(p)
<1>1. Len(Plan(p)) >= 1 /\ IsSeq(Plan(p))
  BY PlanIsGood DEF Good
<1>2. PICK S : Plan(p) \in Seq(S)
  BY <1>1 DEF IsSeq
<1>3. Len(Plan(p)) \in Nat
  BY <1>2
<1>4. p.job # "loop"
  BY DEF Handlers
<1> QED BY <1>1, <1>3, <1>4 DEF Busy

\* One more operation of a plan was performed.
LEMMA Onward ==
  ASSUME Keeps, conf \in Setups, NEW p, Busy(p), p.job \in Handlers, p.at < Len(Plan(p)),
         {"job", "meta", "snap", "at"} \subseteq DOMAIN p,
         NEW op, op = Plan(p)[p.at], Performed(op)'
  PROVE  Busy([p EXCEPT !.at = @ + 1])'
<1> DEFINE q == [p EXCEPT !.at = @ + 1]
<1>1. q.job = p.job /\ q.meta = p.meta /\ q.snap = p.snap /\ q.at = p.at + 1
  OBVIOUS
<1>2. PICK r : r = q
  OBVIOUS
<1>3. r.job = p.job /\ r.meta = p.meta /\ r.snap = p.snap /\ r.at = p.at + 1
  BY <1>1, <1>2
<1> HIDE DEF q
<1>4. p.job # "bootstrap" => Ready(p) /\ Ready(r) /\ Ready(r)'
  <2>1. p.job # "bootstrap" => Ready(p)
    BY DEF Busy
  <2>2. p.job # "bootstrap" => Ready(r)
    BY <1>3, <2>1 DEF Ready
  <2> QED BY <2>1, <2>2, ReadyStays
<1>5. Plan(r) = Plan(p)
  BY <1>3 DEF Plan
<1>6. Plan(r)' = Plan(p)
  BY <1>3, <1>4, <1>5, PlanStays
<1>7. PICK n : n = Len(Plan(p)) /\ n \in Nat
  <2>1. IsSeq(Plan(p))
    BY <1>4, PlanIsGood DEF Good
  <2>2. PICK S : Plan(p) \in Seq(S)
    BY <2>1 DEF IsSeq
  <2> QED BY <2>2
<1>8. r.at \in 1..Len(Plan(r)')
  BY <1>3, <1>6, <1>7 DEF Busy
<1>9. ASSUME NEW i \in 1..(r.at - 1) PROVE Performed(Plan(r)[i])'
  <2>1. p.at \in Nat
    BY <1>7 DEF Busy
  <2>2. PICK o : o = Plan(p)[i]
    OBVIOUS
  <2>3. Performed(o)'
    <3>1. CASE i = p.at
      BY <2>2, <3>1
    <3>2. CASE i # p.at
      <4>1. i \in 1..(p.at - 1)
        BY <1>3, <2>1, <3>2
      <4> QED BY <2>2, <4>1, PerformedStays DEF Busy
    <3> QED BY <3>1, <3>2
  <2>4. o = Plan(r)'[i]
    BY <1>6, <2>2
  <2> QED BY <2>3, <2>4 DEF Performed
<1>10. Busy(r)'
  BY <1>3, <1>4, <1>8, <1>9 DEF Busy, Handlers
<1> QED BY <1>2, <1>10 DEF q

CrewShape ==
  \A c \in DOMAIN crew : {"job", "meta", "snap", "at"} \subseteq DOMAIN crew[c]

CrewAtWork == \A p \in {crew[c] : c \in DOMAIN crew} : Busy(p)

RecordStands == \A m \in {disk.record} : m # NoRecord => Sized(m) /\ Settled(m.run)

\* Every pointer there ever was had its authority, and the present one is the
\* best of them.
Tenure ==
  \A w \in Stores :
    /\ \A p \in disk.history[w] : Authorised(w, p) /\ p.score \in Int
    /\ disk.history[w] # {} =>
         /\ disk.active[w] # NoPointer /\ disk.active[w] \in disk.history[w]
         /\ \A p \in disk.history[w] :
              p # disk.active[w] => p.score < disk.active[w].score

IInv ==
  /\ conf \in Setups /\ PointerInv /\ CrewShape /\ CrewAtWork /\ RecordStands /\ Tenure

\* The operation a process is at is one that it may perform.
LEMMA NextIsWarranted ==
  ASSUME IInv, NEW c \in DOMAIN crew, crew[c].job \in Handlers,
         NEW op, op = Plan(crew[c])[crew[c].at]
  PROVE  Warranted(op)
<1>1. PICK p : p = crew[c]
  OBVIOUS
<1>2. Busy(p) /\ p.job \in Handlers
  BY <1>1 DEF IInv, CrewAtWork
<1>3. Good(Plan(p))
  BY <1>2, PlanIsGood DEF Busy, IInv
<1> QED BY <1>1, <1>2, <1>3 DEF Busy, Good

\* What a performed operation leaves, or a refused one.
LEMMA Effects ==
  ASSUME Shape, NEW c, NEW op, Warranted(op),
         \/ WriteFile(c, op) \/ Commit(c, op) \/ StoreBundle(c, op)
         \/ MovePointer(c, op) \/ CheckHarness(c, op) \/ Mark(c, op)
         \/ Request(c, op) \/ CreateRun(c, op) \/ UpdateRun(c, op)
         \/ Raise(c, op)
  PROVE  /\ disk'.answers = disk.answers
         /\ \/ disk'.record = disk.record
            \/ disk'.record = op.to /\ op.do \in {"create", "update"}
         /\ Rests(c, "failed") \/ (Advances(c) /\ Performed(op)')
<1>1. CASE disk' = disk /\ Rests(c, "failed")
  BY <1>1
<1>2. CASE WriteFile(c, op) /\ disk' = [disk EXCEPT !.files = @ \cup {op.path}] /\ Advances(c)
  BY <1>2 DEF Shape, Performed, WriteFile
<1>3. CASE Commit(c, op) /\ disk' = [disk EXCEPT !.txs = @ \cup {Transaction(c, op)}] /\ Advances(c)
  <2>1. op.do = "commit" /\ Transaction(c, op) \in disk'.txs
    BY <1>3 DEF Shape, Commit
  <2>2. Transaction(c, op).name = op.name /\ Transaction(c, op).edges = op.edges
    BY DEF Transaction
  <2>3. PICK t : t = Transaction(c, op)
    OBVIOUS
  <2>4. Performed(op)'
    BY <2>1, <2>2, <2>3 DEF Performed
  <2>5. disk'.answers = disk.answers /\ disk'.record = disk.record
    BY <1>3 DEF Shape
  <2> QED BY <1>3, <2>4, <2>5
<1>4. CASE StoreBundle(c, op) /\ disk' = [disk EXCEPT !.bundles[op.which] = @ \cup {op.of}] /\ Advances(c)
  <2>1. op.which \in Stores => op.of \in disk'.bundles[op.which]
    BY <1>4 DEF Shape
  <2>2. Performed(op)'
    BY <1>4, <2>1 DEF Performed, StoreBundle
  <2>3. disk'.answers = disk.answers /\ disk'.record = disk.record
    BY <1>4 DEF Shape
  <2> QED BY <1>4, <2>2, <2>3
<1>5. CASE MovePointer(c, op) /\ disk' = [disk EXCEPT !.active[op.which] = op.to,
                                           !.history[op.which] = @ \cup {op.to}] /\ Advances(c)
  BY <1>5 DEF Shape, Performed, MovePointer
<1>6. CASE CheckHarness(c, op) /\ disk' = disk /\ Advances(c)
  BY <1>6 DEF Performed, CheckHarness
<1>7. CASE Mark(c, op) /\ disk' = [disk EXCEPT !.markers = @ \cup {op.id}] /\ Advances(c)
  BY <1>7 DEF Shape, Performed, Mark
<1>8. CASE Request(c, op) /\ disk' = [disk EXCEPT !.requests = @ \cup {op.id}] /\ Advances(c)
  BY <1>8 DEF Shape, Performed, Request
<1>9. CASE /\ CreateRun(c, op) \/ UpdateRun(c, op)
           /\ disk' = [disk EXCEPT !.record = op.to] /\ Advances(c)
  <2>1. op.do \in {"create", "update"} /\ op.to # NoRecord
    BY <1>9 DEF CreateRun, UpdateRun, Warranted, Sized
  <2>2. disk'.record = op.to /\ disk'.answers = disk.answers
    BY <1>9 DEF Shape
  <2> QED BY <1>9, <2>1, <2>2 DEF Performed, NoRecord
<1> QED BY <1>1, <1>2, <1>3, <1>4, <1>5, <1>6, <1>7, <1>8, <1>9
        DEF WriteFile, Commit, StoreBundle, MovePointer, CheckHarness, Mark, Request,
            CreateRun, UpdateRun, Raise, Effect

\* The record moves only to what is settled, and stays settled.
LEMMA RecordKept ==
  ASSUME IInv, Shape', Keeps,
         \/ disk'.record = disk.record
         \/ \E op : /\ op.do \in {"create", "update"} /\ Warranted(op)
                    /\ disk'.record = op.to
  PROVE  RecordStands'
<1>1. PICK m : m = disk'.record
  OBVIOUS
<1>2. m # NoRecord => Sized(m) /\ Settled(m.run)
  BY <1>1 DEF IInv, RecordStands, Warranted
<1>3. PICK r : r = m.run
  OBVIOUS
<1>4. m # NoRecord => Settled(r)'
  BY <1>2, <1>3, SettledStays
<1>5. m # NoRecord => Settled(m.run)'
  BY <1>3, <1>4 DEF Settled, Backed, HasRequest
<1> QED BY <1>1, <1>2, <1>5 DEF RecordStands, Sized, NoRecord

\* One process goes on, the others stay.
LEMMA CrewKept ==
  ASSUME IInv, Keeps, NEW c \in DOMAIN crew, NEW q, crew' = [crew EXCEPT ![c] = q],
         {"job", "meta", "snap", "at"} \subseteq DOMAIN q, Busy(q)'
  PROVE  CrewShape' /\ CrewAtWork'
<1>1. DOMAIN crew' = DOMAIN crew /\ \A d \in DOMAIN crew : crew'[d] = IF d = c THEN q ELSE crew[d]
  OBVIOUS
<1>2. CrewShape'
  BY <1>1 DEF IInv, CrewShape
<1>3. ASSUME NEW p \in {crew'[d] : d \in DOMAIN crew'} PROVE Busy(p)'
  <2>1. p = q \/ p \in {crew[d] : d \in DOMAIN crew}
    BY <1>1
  <2>2. p = q => Busy(p)'
    OBVIOUS
  <2>3. p \in {crew[d] : d \in DOMAIN crew} => Busy(p)'
    BY BusyStays DEF IInv, CrewAtWork
  <2> QED BY <2>1, <2>2, <2>3
<1>4. CrewAtWork'
  BY <1>3 DEF CrewAtWork
<1> QED BY <1>2, <1>4

\* A process ends, fails, dies or goes back to the loop.
LEMMA CrewRests ==
  ASSUME IInv, Keeps, NEW c \in DOMAIN crew, NEW how, how \notin Handlers, Rests(c, how),
         how = "loop" => disk'.record # NoRecord
  PROVE  CrewShape' /\ CrewAtWork'
<1> DEFINE q == [job |-> how, meta |-> NoRecord, snap |-> NoSnapshot, at |-> 0]
<1>1. crew' = [crew EXCEPT ![c] = q]
  BY DEF Rests, Sets
<1>2. q.job = how /\ {"job", "meta", "snap", "at"} \subseteq DOMAIN q
  OBVIOUS
<1> HIDE DEF q
<1>3. PICK r : r = q
  BY DEF q
<1>4. Busy(r)'
  BY <1>2, <1>3 DEF Busy
<1> QED BY <1>1, <1>2, <1>3, <1>4, CrewKept

\* A handler is entered, by the loop or by another handler.
LEMMA CrewEnters ==
  ASSUME IInv, Keeps, NEW c \in DOMAIN crew, NEW job \in Handlers, NEW meta, NEW snap,
         Sets(c, job, meta, snap, 1),
         \/ job = "bootstrap"
         \/ /\ Prepared(job, snap) /\ Sized(meta)
            /\ job = "resume" => snap = meta.run.snap /\ meta.run.pending # "none" /\ Answered(meta)
  PROVE  CrewShape' /\ CrewAtWork'
<1> DEFINE q == [job |-> job, meta |-> meta, snap |-> snap, at |-> 1]
<1>1. crew' = [crew EXCEPT ![c] = q]
  BY DEF Sets
<1>2. q.job = job /\ q.meta = meta /\ q.snap = snap /\ q.at = 1
      /\ {"job", "meta", "snap", "at"} \subseteq DOMAIN q
  OBVIOUS
<1> HIDE DEF q
<1>3. q.job # "bootstrap" => Ready(q)
  BY <1>2 DEF Ready
<1>4. Busy(q)
  BY <1>2, <1>3, Begun DEF IInv
<1>5. PICK r : r = q
  BY DEF q
<1>6. Busy(r)'
  BY <1>4, <1>5, BusyStays
<1> QED BY <1>1, <1>2, <1>5, <1>6, CrewKept

\* A process performs the operation it is at.
LEMMA CrewAdvances ==
  ASSUME IInv, Keeps, NEW c \in DOMAIN crew, crew[c].job \in Handlers, Advances(c),
         NEW op, op = Plan(crew[c])[crew[c].at], Performed(op)'
  PROVE  CrewShape' /\ CrewAtWork'
<1>1. PICK p : p = crew[c]
  OBVIOUS
<1>2. /\ Busy(p) /\ p.job \in Handlers /\ op = Plan(p)[p.at]
      /\ {"job", "meta", "snap", "at"} \subseteq DOMAIN p /\ conf \in Setups
  BY <1>1 DEF IInv, CrewAtWork, CrewShape
<1>3. CASE p.at < Len(Plan(p))
  <2> DEFINE q == [p EXCEPT !.at = @ + 1]
  <2>1. crew' = [crew EXCEPT ![c] = q]
    BY <1>1, <1>3 DEF Advances
  <2>2. {"job", "meta", "snap", "at"} \subseteq DOMAIN q
    BY <1>2
  <2>3. PICK r : r = q
    OBVIOUS
  <2>4. Busy(q)'
    BY <1>2, <1>3, Onward
  <2>5. Busy(r)'
    BY <2>3, <2>4
  <2> HIDE DEF q
  <2> QED BY <2>1, <2>2, <2>3, <2>5, CrewKept
<1>4. CASE ~(p.at < Len(Plan(p)))
  <2>1. Rests(c, "loop")
    BY <1>1, <1>4 DEF Advances
  <2>2. p.job # "bootstrap" => disk'.record # NoRecord
    BY <1>2 DEF Busy, Ready, Prepared, Keeps
  <2>3. p.job = "bootstrap" => disk'.record # NoRecord
    <3> SUFFICES ASSUME p.job = "bootstrap" PROVE disk'.record # NoRecord
      OBVIOUS
    <3>1. Plan(p) = Bootstrap /\ Plan(p)' = Plan(p)
      <4>1. Plan(p) = Bootstrap
        BY DEF Plan
      <4> QED BY <4>1, PlanStays
    <3>2. PICK i \in 1..Len(Plan(p)) : Plan(p)[i].do = "create"
      BY <1>2, <3>1, GoodBootstrap
    <3>3. PICK o : o = Plan(p)[i]
      OBVIOUS
    <3>4. i = p.at \/ i \in 1..(p.at - 1)
      <4>1. IsSeq(Plan(p))
        BY <1>2, <3>1, GoodBootstrap DEF Good
      <4>2. PICK S : Plan(p) \in Seq(S)
        BY <4>1 DEF IsSeq
      <4>3. PICK n : n = Len(Plan(p)) /\ n \in Nat
        BY <4>2
      <4> QED BY <1>2, <1>4, <4>3 DEF Busy
    <3>5. Performed(o)'
      BY <1>2, <3>3, <3>4, PerformedStays DEF Busy
    <3> QED BY <3>2, <3>3, <3>5 DEF Performed, NoRecord
  <2>4. "loop" \notin Handlers
    BY DEF Handlers
  <2> QED BY <2>1, <2>2, <2>3, <2>4, CrewRests
<1> QED BY <1>3, <1>4

\* A pointer moves only to a higher score, with the authority it needs.
LEMMA TenureKept ==
  ASSUME IInv, [Next]_vars, Keeps
  PROVE  Tenure'
<1>1. Shape' /\ Grows /\ (Still \/ Moves)
  BY Step DEF IInv, PointerInv
<1>2. ASSUME NEW v \in Stores, StillOf(v)
      PROVE  /\ \A p \in disk'.history[v] : Authorised(v, p)' /\ p.score \in Int
             /\ disk'.history[v] # {} =>
                  /\ disk'.active[v] # NoPointer /\ disk'.active[v] \in disk'.history[v]
                  /\ \A p \in disk'.history[v] :
                       p # disk'.active[v] => p.score < disk'.active[v].score
  <2>1. disk'.active[v] = disk.active[v] /\ disk'.history[v] = disk.history[v]
    BY <1>2 DEF StillOf
  <2>2. /\ \A p \in disk.history[v] : Authorised(v, p) /\ p.score \in Int
        /\ disk.history[v] # {} =>
             /\ disk.active[v] # NoPointer /\ disk.active[v] \in disk.history[v]
             /\ \A p \in disk.history[v] :
                  p # disk.active[v] => p.score < disk.active[v].score
    BY DEF IInv, Tenure
  <2>3. \A p \in disk'.history[v] : Authorised(v, p)'
    BY <2>1, <2>2, AuthorisedStays
  <2> QED BY <2>1, <2>2, <2>3
<1>3. CASE Still
  BY <1>2, <1>3 DEF Still, Tenure, NoPointer
<1>4. CASE Moves
  <2>0. PICK w \in Stores : \E p : /\ Asked(w, p) /\ MayPoint(w, p)
                                   /\ disk'.active[w] = p
                                   /\ disk'.history[w] = disk.history[w] \cup {p}
                                   /\ \A v \in Stores \ {w} : StillOf(v)
    BY <1>4 DEF Moves
  <2>1. PICK p : /\ Asked(w, p) /\ MayPoint(w, p)
                 /\ disk'.active[w] = p
                 /\ disk'.history[w] = disk.history[w] \cup {p}
                 /\ \A v \in Stores \ {w} : StillOf(v)
    BY <2>0
  <2>2. Authorised(w, p) /\ p.score \in Int /\ p # NoPointer
    <3>1. PICK c \in DOMAIN crew :
            /\ crew[c].job \in Handlers
            /\ Plan(crew[c])[crew[c].at].do = "point"
            /\ Plan(crew[c])[crew[c].at].which = w
            /\ Plan(crew[c])[crew[c].at].to = p
      BY <2>1 DEF Asked
    <3>2. PICK op : op = Plan(crew[c])[crew[c].at]
      OBVIOUS
    <3>3. Warranted(op)
      BY <3>1, <3>2, NextIsWarranted
    <3> QED BY <3>1, <3>2, <3>3 DEF Warranted
  <2>3. /\ \A q \in disk.history[w] : Authorised(w, q) /\ q.score \in Int
        /\ disk.history[w] # {} =>
             /\ disk.active[w] # NoPointer /\ disk.active[w] \in disk.history[w]
             /\ \A q \in disk.history[w] :
                  q # disk.active[w] => q.score < disk.active[w].score
    BY DEF IInv, Tenure
  <2>4. \A q \in disk'.history[w] : Authorised(w, q)' /\ q.score \in Int
    BY <2>1, <2>2, <2>3, AuthorisedStays
  <2>5. ASSUME NEW q \in disk'.history[w], q # p PROVE q.score < p.score
    <3>1. q \in disk.history[w]
      BY <2>1, <2>5
    <3>2. CASE disk.active[w] = p
      BY <2>3, <2>5, <3>1, <3>2
    <3>3. CASE disk.active[w] # NoPointer => p.score > disk.active[w].score
      <4>1. disk.active[w].score < p.score
        BY <2>3, <3>1, <3>3
      <4>2. q.score \in Int /\ disk.active[w].score \in Int
        BY <2>3, <3>1
      <4>3. q = disk.active[w] \/ q.score < disk.active[w].score
        BY <2>3, <3>1
      <4> QED BY <2>2, <4>1, <4>2, <4>3
    <3> QED BY <2>1, <3>2, <3>3 DEF MayPoint
  <2>6. /\ \A q \in disk'.history[w] : Authorised(w, q)' /\ q.score \in Int
        /\ disk'.history[w] # {} =>
             /\ disk'.active[w] # NoPointer /\ disk'.active[w] \in disk'.history[w]
             /\ \A q \in disk'.history[w] :
                  q # disk'.active[w] => q.score < disk'.active[w].score
    BY <2>1, <2>2, <2>4, <2>5
  <2>7. \A v \in Stores : v = w \/ StillOf(v)
    BY <2>1
  <2> QED BY <1>2, <2>6, <2>7 DEF Tenure, NoPointer
<1> QED BY <1>1, <1>3, <1>4

\* A step that only moves one process.
LEMMA DiskKept ==
  ASSUME IInv, disk' = disk, conf' = conf
  PROVE  Keeps /\ RecordStands'
<1>1. Shape' /\ Grows
  BY Refused DEF IInv, PointerInv
<1>2. Keeps
  BY <1>1 DEF Keeps
<1> QED BY <1>1, <1>2, RecordKept

\* Each kind of step keeps the parts of the invariant.
LEMMA PerformKept ==
  ASSUME IInv, NEW c \in DOMAIN crew, Perform(c), Shape', Grows
  PROVE  Keeps /\ RecordStands' /\ CrewShape' /\ CrewAtWork'
<1>1. PICK op : /\ op = Plan(crew[c])[crew[c].at]
                /\ \/ WriteFile(c, op) \/ Commit(c, op) \/ StoreBundle(c, op)
                   \/ MovePointer(c, op) \/ CheckHarness(c, op) \/ Mark(c, op)
                   \/ Request(c, op) \/ CreateRun(c, op) \/ UpdateRun(c, op)
                   \/ Reload(c, op) \/ Raise(c, op)
  BY DEF Perform, NextOp
<1>2. crew[c].job \in Handlers /\ conf' = conf
  BY DEF Perform
<1>3. Warranted(op)
  BY <1>1, <1>2, NextIsWarranted
<1>4. CASE Reload(c, op)
  <2>1. /\ disk' = disk /\ Sets(c, op.job, disk.record, op.snap, 1)
        /\ op.job \in {"request", "dataset-review", "promotion", "rollback"}
        /\ Prepared(op.job, op.snap)
    BY <1>3, <1>4 DEF Reload, Warranted
  <2>2. Sized(disk.record)
    BY <2>1 DEF IInv, RecordStands, Prepared
  <2>3. Keeps /\ RecordStands'
    BY <1>2, <2>1, DiskKept
  <2>4. op.job \in Handlers /\ op.job # "resume"
    BY <2>1 DEF Handlers
  <2> QED BY <2>1, <2>2, <2>3, <2>4, CrewEnters
<1>5. CASE ~Reload(c, op)
  <2>1. /\ disk'.answers = disk.answers
        /\ \/ disk'.record = disk.record
           \/ disk'.record = op.to /\ op.do \in {"create", "update"}
        /\ Rests(c, "failed") \/ (Advances(c) /\ Performed(op)')
    BY <1>1, <1>3, <1>5, Effects DEF IInv, PointerInv
  <2>2. disk.record # NoRecord => disk'.record # NoRecord
    BY <1>3, <2>1 DEF Warranted, Sized
  <2>3. Keeps
    BY <1>2, <2>1, <2>2 DEF Keeps
  <2>4. RecordStands'
    BY <1>3, <2>1, <2>3, RecordKept
  <2>5. "failed" \notin Handlers
    BY DEF Handlers
  <2> QED BY <1>1, <1>2, <2>1, <2>3, <2>4, <2>5, CrewRests, CrewAdvances
<1> QED BY <1>4, <1>5

LEMMA DispatchKept ==
  ASSUME IInv, NEW c \in DOMAIN crew, Dispatch(c)
  PROVE  Keeps /\ RecordStands' /\ CrewShape' /\ CrewAtWork'
<1> DEFINE m == disk.record
           job == IF m.run.pending = "none" THEN HandlerOf(m)
                  ELSE IF Answered(m) THEN "resume" ELSE "returned"
<1>1. /\ crew[c].job = "loop" /\ conf' = conf /\ disk' = disk
      /\ IF Ended(m) \/ job \in {"failed", "returned"}
         THEN Rests(c, IF Ended(m) THEN "returned" ELSE job)
         ELSE Sets(c, job, m, m.run.snap, 1)
  BY DEF Dispatch
<1>2. Keeps /\ RecordStands'
  BY <1>1, DiskKept
<1>3. m # NoRecord
  BY <1>1 DEF IInv, CrewAtWork, Busy
<1>4. Sized(m) /\ Settled(m.run)
  BY <1>3 DEF IInv, RecordStands
<1>5. /\ job \in {"attempt", "batch", "model", "slim", "stop", "begin", "failed", "resume",
                  "returned"}
      /\ job = "resume" => m.run.pending # "none" /\ Answered(m)
  BY DEF HandlerOf
<1> HIDE DEF job
<1>6. CASE Ended(m) \/ job \in {"failed", "returned"}
  <2> DEFINE how == IF Ended(m) THEN "returned" ELSE job
  <2>1. Rests(c, how) /\ how \in {"failed", "returned"}
    BY <1>1, <1>6
  <2> HIDE DEF how
  <2>2. how \notin Handlers /\ how # "loop"
    BY <2>1 DEF Handlers
  <2> QED BY <1>2, <2>1, <2>2, CrewRests
<1>7. CASE ~(Ended(m) \/ job \in {"failed", "returned"})
  <2>1. Sets(c, job, m, m.run.snap, 1)
    BY <1>1, <1>7
  <2>2. job \in Handlers /\ job # "request" /\ job # "promotion"
    BY <1>5, <1>7 DEF Handlers
  <2>3. Prepared(job, m.run.snap)
    BY <1>3, <1>4, <2>2 DEF Prepared, Settled, Sized
  <2> QED BY <1>2, <1>4, <1>5, <2>1, <2>2, <2>3, CrewEnters
<1> QED BY <1>6, <1>7

LEMMA StartKept ==
  ASSUME IInv, NEW c \in DOMAIN crew, Start(c)
  PROVE  Keeps /\ RecordStands' /\ CrewShape' /\ CrewAtWork'
<1>1. Keeps /\ RecordStands'
  BY DiskKept DEF Start
<1>2. "loop" \notin Handlers /\ "bootstrap" \in Handlers
  BY DEF Handlers
<1>3. CASE disk.record = NoRecord
  BY <1>1, <1>2, <1>3, CrewEnters DEF Start
<1>4. CASE disk.record # NoRecord
  BY <1>1, <1>2, <1>4, CrewRests DEF Start, Keeps
<1> QED BY <1>3, <1>4

LEMMA CrashKept ==
  ASSUME IInv, NEW c \in DOMAIN crew, Crash(c) \/ CrashInWrite(c), Shape', Grows
  PROVE  Keeps /\ RecordStands' /\ CrewShape' /\ CrewAtWork'
<1>1. /\ disk'.answers = disk.answers /\ disk'.record = disk.record /\ conf' = conf
      /\ Rests(c, "idle")
  BY DEF Crash, CrashInWrite, IInv, PointerInv, Shape
<1>2. Keeps
  BY <1>1 DEF Keeps
<1>3. "idle" \notin Handlers
  BY DEF Handlers
<1> QED BY <1>1, <1>2, <1>3, RecordKept, CrewRests

\* The processes that do not take the step stay.
LEMMA CrewStays ==
  ASSUME IInv, Keeps, crew' = crew
  PROVE  CrewShape' /\ CrewAtWork'
<1>1. CrewShape'
  BY DEF IInv, CrewShape
<1>2. \A p \in {crew[d] : d \in DOMAIN crew} : Busy(p)'
  BY BusyStays DEF IInv, CrewAtWork
<1> QED BY <1>1, <1>2 DEF CrewAtWork

\* An answer is given once.
LEMMA ReviewKept ==
  ASSUME IInv, NEW id, NEW approved, Review(id, approved), Shape', Grows
  PROVE  Keeps /\ RecordStands' /\ CrewShape' /\ CrewAtWork'
<1>1. /\ disk'.answers = disk.answers \cup {<<id, approved>>} /\ disk'.record = disk.record
      /\ conf' = conf /\ crew' = crew
      /\ \A a \in disk.answers : a[1] # id
  BY DEF Review, IInv, PointerInv, Shape
<1>2. Keeps
  BY <1>1 DEF Keeps
<1> QED BY <1>1, <1>2, RecordKept, CrewStays

\* The invariant is inductive.
LEMMA InvKept == IInv /\ [Next]_vars => IInv'
<1> SUFFICES ASSUME IInv, [Next]_vars PROVE IInv'
  OBVIOUS
<1>1. Shape' /\ Grows
  BY Step DEF IInv, PointerInv
<1>2. PointerInv'
  BY <1>1, ChainKept DEF IInv, PointerInv
<1>3. Keeps /\ RecordStands' /\ CrewShape' /\ CrewAtWork'
  <2>1. CASE UNCHANGED vars
    <3>1. disk' = disk /\ conf' = conf /\ crew' = crew
      BY <2>1 DEF vars
    <3> QED BY <3>1, DiskKept, CrewStays
  <2>2. ASSUME NEW c \in DOMAIN crew, Goes(c) \/ Crash(c) \/ CrashInWrite(c)
        PROVE  Keeps /\ RecordStands' /\ CrewShape' /\ CrewAtWork'
    BY <1>1, <2>2, PerformKept, DispatchKept, StartKept, CrashKept DEF Goes
  <2>3. ASSUME NEW id \in disk.requests, NEW approved \in BOOLEAN, Review(id, approved)
        PROVE  Keeps /\ RecordStands' /\ CrewShape' /\ CrewAtWork'
    BY <1>1, <2>3, ReviewKept
  <2> QED BY <2>1, <2>2, <2>3 DEF Next
<1>4. Tenure'
  BY <1>3, TenureKept
<1>5. conf' \in Setups
  BY <1>3 DEF Keeps, IInv
<1> QED BY <1>2, <1>3, <1>4, <1>5 DEF IInv

LEMMA InvInit == Init => IInv
<1> SUFFICES ASSUME Init PROVE IInv
  OBVIOUS
<1>1. PointerInv
  BY DEF Init, EmptyDisk, PointerInv, Shape, ActiveIsKept, PointerChain, Stores
<1>2. \A c \in DOMAIN crew : crew[c] = Resting
  BY DEF Init
<1>3. CrewShape
  BY <1>2 DEF CrewShape, Resting
<1>4. Busy(Resting)
  BY DEF Busy, Resting, Handlers
<1>5. CrewAtWork
  BY <1>2, <1>4 DEF CrewAtWork
<1>6. RecordStands /\ Tenure
  BY DEF Init, EmptyDisk, RecordStands, Tenure, Stores
<1> QED BY <1>1, <1>3, <1>5, <1>6 DEF IInv, Init

-----------------------------------------------------------------------------
(* What follows from it.                                                   *)

\* The run record is never ahead of the stores: whatever process wrote it,
\* after whatever crash, its snapshot is committed, the active model and
\* Harness of the snapshot have their bundles, and the review it waits for was
\* requested with its evidence (CoEvolutionRunStore, _update_run).
THEOREM RecordNeverAhead == Spec => []RecordIsCommitted
<1>1. IInv => RecordIsCommitted
  BY DEF IInv, RecordStands, RecordIsCommitted, Record
<1> QED BY <1>1, InvInit, InvKept, PTL DEF Spec

\* No pointer ever moved to a searched Harness or a trained model that needed a
\* reviewer's grant and did not have it: the first part of HumanAuthority
\* (_resume_pending_approval, compare_and_swap of the two pointer stores).
THEOREM OnlyAuthorised == Spec => []PointersAuthorised
<1>1. IInv => PointersAuthorised
  BY DEF IInv, Tenure, PointersAuthorised, Stores
<1> QED BY <1>1, InvInit, InvKept, PTL DEF Spec

\* The pointer of the moment has the highest score of all there were: the
\* second part of PointersJustified (HarnessPointerStore, PeakPointerStore).
THEOREM PresentIsBest == Spec => []Present
<1>1. IInv => Present
  BY DEF IInv, Tenure, Present, Stores
<1> QED BY <1>1, InvInit, InvKept, PTL DEF Spec

-----------------------------------------------------------------------------
(* One process: how far a pointer is ahead of the record.                  *)

\* The operations that move the record or a pointer, or depend on them.
Moving(op) == op.do \notin {"file", "commit", "bundle", "mark", "request", "raise"}

Recording == {"update", "create"}

\* What an operation may move.
Tag(op) == IF op.do = "point" THEN op.which ELSE op.do

\* What may come after what in a plan: each pointer moves once, before the
\* record, and a handler is left after its update.
MayFollow(a, b) ==
  /\ a \in Stores => b # a /\ b # "check"
  /\ a \in Recording \cup {"reload"} => b \notin Stores \cup Recording \cup {"check"}

Ordered(q) ==
  \A i \in 1..Len(q), j \in 1..Len(q) : i < j => MayFollow(Tag(q[i]), Tag(q[j]))

\* A plan in order, with the operations X that move something.
Course(q, X) ==
  IsSeq(q) /\ Ordered(q) /\ X = {op \in {q[i] : i \in 1..Len(q)} : Moving(op)}

\* Plans are put together: what moves in the second may follow what moves in
\* the first.
LEMMA CourseJoin ==
  ASSUME NEW a, NEW A, Course(a, A), NEW b, NEW B, Course(b, B),
         \A x \in A, y \in B : MayFollow(Tag(x), Tag(y))
  PROVE  Course(a \o b, A \cup B)
<1>1. PICK S : a \in Seq(S)
  BY DEF Course, IsSeq
<1>2. PICK T : b \in Seq(T)
  BY DEF Course, IsSeq
<1> DEFINE q == a \o b
<1>3. PICK m \in Nat : m = Len(a)
  BY <1>1
<1>4. PICK n \in Nat : n = Len(b)
  BY <1>2
<1>5. a \in Seq(S \cup T) /\ b \in Seq(S \cup T)
  BY <1>1, <1>2
<1>6. /\ q \in Seq(S \cup T) /\ Len(q) = m + n
      /\ \A i \in 1..(m + n) : q[i] = IF i <= m THEN a[i] ELSE b[i - m]
  BY <1>3, <1>4, <1>5, ConcatProperties
<1> HIDE DEF q
<1>7. \A i \in 1..m : i \in 1..Len(q) /\ q[i] = a[i]
  BY <1>6
<1>8. \A i \in 1..n : i + m \in 1..Len(q) /\ q[i + m] = b[i]
  BY <1>6
<1>9. ASSUME NEW k \in 1..Len(q)
      PROVE  (k \in 1..m /\ q[k] = a[k]) \/ (k > m /\ (k - m) \in 1..n /\ q[k] = b[k - m])
  BY <1>6, <1>9
<1>10. A \cup B = {op \in {q[i] : i \in 1..Len(q)} : Moving(op)}
  <2>1. A = {op \in {a[i] : i \in 1..m} : Moving(op)} /\ B = {op \in {b[i] : i \in 1..n} : Moving(op)}
    BY <1>3, <1>4 DEF Course
  <2>2. {q[i] : i \in 1..Len(q)} = {a[i] : i \in 1..m} \cup {b[i] : i \in 1..n}
    BY <1>7, <1>8, <1>9
  <2> QED BY <2>1, <2>2
<1>11. ASSUME NEW x, ~Moving(x), NEW y PROVE MayFollow(Tag(x), Tag(y)) /\ MayFollow(Tag(y), Tag(x))
  <2>1. Tag(x) \in {"file", "commit", "bundle", "mark", "request", "raise"}
    BY <1>11 DEF Moving, Tag
  <2> QED BY <2>1 DEF MayFollow, Stores, Recording
<1>12. ASSUME NEW i \in 1..Len(q), NEW j \in 1..Len(q), i < j
       PROVE  MayFollow(Tag(q[i]), Tag(q[j]))
  <2>1. CASE j \in 1..m /\ q[j] = a[j]
    <3>1. i \in 1..m /\ q[i] = a[i]
      BY <1>3, <1>9, <1>12, <2>1
    <3> QED BY <1>3, <1>12, <2>1, <3>1 DEF Course, Ordered
  <2>2. CASE i > m /\ (i - m) \in 1..n /\ q[i] = b[i - m]
    <3>0. i \in Int /\ j \in Int /\ m \in Int /\ j > m
      BY <1>6, <1>12, <2>2
    <3>1. (j - m) \in 1..n /\ q[j] = b[j - m] /\ i - m < j - m
      <4>1. j \notin 1..m /\ i - m < j - m
        BY <1>12, <3>0
      <4> QED BY <1>9, <4>1
    <3> QED BY <1>4, <2>2, <3>1 DEF Course, Ordered
  <2>3. CASE i \in 1..m /\ q[i] = a[i] /\ j > m /\ (j - m) \in 1..n /\ q[j] = b[j - m]
    <3>1. Moving(q[i]) => q[i] \in A
      BY <1>3, <2>3 DEF Course
    <3>2. Moving(q[j]) => q[j] \in B
      BY <1>4, <2>3 DEF Course
    <3> QED BY <1>11, <3>1, <3>2
  <2> QED BY <1>9, <2>1, <2>2, <2>3
<1> QED BY <1>6, <1>10, <1>12 DEF Course, Ordered, IsSeq, q

\* The plan without operations and the plan of one.
LEMMA CourseNone == Course(<<>>, {})
<1>1. <<>> \in Seq({}) /\ Len(<<>>) = 0
  OBVIOUS
<1> QED BY <1>1 DEF Course, IsSeq, Ordered

LEMMA CourseOne ==
  ASSUME NEW op
  PROVE  /\ Moving(op) => Course(<< op >>, {op})
         /\ ~Moving(op) => Course(<< op >>, {})
<1> DEFINE q == << op >>
<1>1. q \in Seq({op}) /\ Len(q) = 1 /\ q[1] = op
  OBVIOUS
<1> HIDE DEF q
<1>2. {q[i] : i \in 1..Len(q)} = {op}
  BY <1>1
<1>3. Ordered(q) /\ IsSeq(q)
  BY <1>1 DEF Ordered, IsSeq
<1> QED BY <1>2, <1>3 DEF Course, q

\* Nothing is moved by files and commits.
LEMMA CourseFile == ASSUME NEW kind, NEW id PROVE Course(File(kind, id), {})
  BY CourseOne DEF File, Moving

LEMMA CourseCommits ==
  ASSUME NEW label, NEW subject, NEW at, NEW step, NEW reads
  PROVE  Course(Commits(label, subject, at, step, reads), {})
<1> DEFINE first == {k \in DOMAIN step : step[k].snap.iteration = at}
           other == DOMAIN step \ first
           Tx(iter, group) ==
             [do |-> "commit", name |-> <<label, iter, subject>>,
              edges |-> [k \in group |-> step[k]],
              evidenceAt |-> at, reads |-> reads]
           a == << Tx(at, first) >>
           b == << Tx(Final(step).iteration, other) >>
           c == IF other = {} THEN <<>> ELSE b
<1>1. Commits(label, subject, at, step, reads) = a \o c
  BY DEF Commits
<1>2. \A iter, group : ~Moving(Tx(iter, group))
  BY DEF Moving
<1> HIDE DEF Tx
<1>3. Course(a, {}) /\ Course(b, {})
  BY <1>2, CourseOne
<1>4. Course(c, {})
  BY <1>3, CourseNone
<1> HIDE DEF a, c
<1>5. Course(a \o c, {})
  <2>1. Course(a \o c, {} \cup {})
    BY <1>3, <1>4, CourseJoin
  <2> QED BY <2>1
<1> QED BY <1>1, <1>5

\* A bundle and its pointer.
LEMMA CourseAdopt ==
  ASSUME NEW which, NEW p
  PROVE  Course(Adopt(which, p), {[do |-> "point", which |-> which, to |-> p]})
<1> DEFINE a == [do |-> "bundle", which |-> which,
                 of |-> [id |-> p.id, order |-> p.order, score |-> p.score, by |-> p.by]]
           b == [do |-> "point", which |-> which, to |-> p]
<1>1. Adopt(which, p) = << a, b >>
  BY DEF Adopt
<1>2. ~Moving(a) /\ Moving(b) /\ Tag(a) = "bundle"
  BY DEF Moving, Tag
<1> HIDE DEF a, b
<1> DEFINE q == << a, b >>
<1>3. q \in Seq({a, b}) /\ Len(q) = 2 /\ q[1] = a /\ q[2] = b
  OBVIOUS
<1> HIDE DEF q
<1>4. {q[i] : i \in 1..Len(q)} = {a, b}
  BY <1>3
<1>5. Ordered(q)
  BY <1>2, <1>3 DEF Ordered, MayFollow, Stores, Recording
<1>6. Course(q, {b})
  BY <1>2, <1>3, <1>4, <1>5 DEF Course, IsSeq
<1> QED BY <1>1, <1>6 DEF q, b

\* Parts in front of and behind which nothing moves.
LEMMA CourseOn ==
  ASSUME NEW a, NEW A, Course(a, A), NEW b, Course(b, {})
  PROVE  Course(a \o b, A) /\ Course(b \o a, A)
<1>1. Course(a \o b, A \cup {}) /\ Course(b \o a, {} \cup A)
  BY CourseJoin
<1> QED BY <1>1
-----------------------------------------------------------------------------

\* The model or the Harness of a snapshot.
Of(s, w) == IF w = "peak" THEN s.ckpt ELSE s.harness

\* Where a handler that began with the run r may adopt: a crash may then leave
\* the pointer ahead.
Adopting(w, r) ==
  \/ w = "peak" /\ r.snap.state = "PROMOTE_MODEL"
  \/ w = "harness" /\ r.snap.state \in {"MUTATE_HARNESS", "SLIM_HARNESS"}
  \/ /\ w = "harness" /\ r.snap.state = "HARNESS_REVIEW_PENDING" /\ r.pending = "harness"
     /\ <<RequestId("harness", r.snap), TRUE>> \in disk.answers

\* The state of a run that waits for a review.
PendingState == [harness |-> "HARNESS_REVIEW_PENDING", dataset |-> "DATA_REVIEW_PENDING",
                 checkpoint |-> "MODEL_REVIEW_PENDING"]

Pends(snap, pending) == pending # "none" => snap.state = PendingState[pending]

\* The state a handler is entered in.
Entered(job, state) ==
  /\ job = "attempt" => state = "MUTATE_HARNESS"
  /\ job = "batch" => state = "HARVEST_TRACES"
  /\ job \in {"model", "dataset-review"} => state = "TRAIN_MODEL"
  /\ job = "request" => state \in {"HARNESS_REVIEW_PENDING", "MODEL_REVIEW_PENDING"}
  /\ job = "promotion" => state = "PROMOTE_MODEL"
  /\ job = "rollback" => state = "ROLLBACK_MODEL"
  /\ job = "slim" => state = "SLIM_HARNESS"
  /\ job \in {"begin", "stop"} => state = "FREEZE_MODEL"

\* Some operation of X moves the pointer of w.
Points(X, w) == \E x \in X : x.do = "point" /\ x.which = w

\* The pointer of w is where the snapshot wants it when the record is written:
\* it was moved there, or it was there before and could not have been ahead.
Reaches(X, w, snap, m) ==
  \/ \E x \in X : x.do = "point" /\ x.which = w /\ x.to.id = Of(snap, w)
  \/ /\ m # NoRecord /\ Of(snap, w) = Of(m.run.snap, w)
     /\ \/ ~Adopting(w, m.run)
        \/ /\ w = "harness" /\ ~Points(X, w)
           /\ \E x \in X : x.do = "check" /\ x.harness = Of(snap, w)

\* What the moving operations X of a handler do, given the record m.
Aimed(X, m) ==
  \A op \in X :
    /\ op.do = "point" =>
         /\ op.which \in Stores
         /\ m # NoRecord =>
              op.to.prev = Of(m.run.snap, op.which) /\ Adopting(op.which, m.run)
    /\ op.do \in Recording =>
         /\ Pends(op.to.run.snap, op.to.run.pending)
         /\ \A w \in Stores : Reaches(X, w, op.to.run.snap, m)
    /\ op.do = "reload" =>
         \E u \in X : /\ u.do = "update" /\ u.to.run.snap = op.snap
                      /\ u.to.run.pending = "none" /\ Entered(op.job, op.snap.state)

Steers(q, m) == \E X : Course(q, X) /\ Aimed(X, m)

\* A part of a plan that writes the record.
Updating(q, snap, pending) ==
  \E to : /\ Course(q, {[do |-> "update", to |-> to]})
          /\ to.run.snap = snap /\ to.run.pending = pending

LEMMA Updates ==
  ASSUME NEW m, NEW snap, NEW completed, NEW pending
  PROVE  Updating(Update(m, snap, completed, pending), snap, pending)
<1> DEFINE to == [rev |-> m.rev + 1, cycle |-> IF snap.cycle > m.cycle THEN snap.cycle ELSE m.cycle,
                  run |-> Loops!Moved(m.run, snap, completed, pending)]
           op == [do |-> "update", to |-> to]
<1>1. to.run.snap = snap /\ to.run.pending = pending
  BY DEF Loops!Moved
<1> HIDE DEF to
<1>2. Moving(op)
  BY DEF Moving
<1>3. Update(m, snap, completed, pending) = << op >>
  BY DEF Update, to
<1>4. Course(<< op >>, {op})
  BY <1>2, CourseOne
<1> QED BY <1>1, <1>3, <1>4 DEF Updating

LEMMA Follows == ASSUME NEW m, NEW step PROVE Updating(Follow(m, step), Final(step), "none")
  BY Updates DEF Follow

LEMMA Completing ==
  ASSUME NEW m, NEW step PROVE Updating(CompleteCycle(m, step), Final(step), "none")
<1> DEFINE to == [rev |-> m.rev + 1, cycle |-> Final(step).cycle,
                  run |-> Loops!Moved(m.run, Final(step), m.run.completed + 1, "none")]
           op == [do |-> "update", to |-> to]
<1>1. to.run.snap = Final(step) /\ to.run.pending = "none"
  BY DEF Loops!Moved
<1> HIDE DEF to
<1>2. Moving(op)
  BY DEF Moving
<1>3. CompleteCycle(m, step) = << op >>
  BY DEF CompleteCycle, to
<1>4. Course(<< op >>, {op})
  BY <1>2, CourseOne
<1> QED BY <1>1, <1>3, <1>4 DEF Updating

\* What a handler does before it writes the record: at most one pointer moves,
\* which the handler may adopt.
Approach(q, A, m) ==
  /\ Course(q, A)
  /\ \A op \in A :
       \/ op.do = "check"
       \/ /\ op.do = "point" /\ op.which \in Stores
          /\ op.to.prev = Of(m.run.snap, op.which) /\ Adopting(op.which, m.run)

\* A handler: the approach, the record, and perhaps another handler.
LEMMA Turning ==
  ASSUME NEW m, m # NoRecord, NEW a, NEW A, Approach(a, A, m),
         NEW u, NEW snap, NEW pending, Updating(u, snap, pending), Pends(snap, pending),
         \A w \in Stores : Reaches(A, w, snap, m)
  PROVE  /\ Steers(a \o u, m)
         /\ \A d, D : /\ Course(d, D)
                      /\ \A op \in D : /\ op.do = "reload" /\ op.snap = snap /\ pending = "none"
                                       /\ Entered(op.job, snap.state)
                     => Steers((a \o u) \o d, m)
<1>1. PICK to : /\ Course(u, {[do |-> "update", to |-> to]})
                /\ to.run.snap = snap /\ to.run.pending = pending
  BY DEF Updating
<1> DEFINE op == [do |-> "update", to |-> to]
           U == A \cup {op}
<1>2. op.do = "update" /\ op.to = to /\ Tag(op) = "update"
  BY DEF Tag
<1>3. Course(u, {op})
  BY <1>1
<1> HIDE DEF op
<1>4. Course(a \o u, U)
  <2>1. \A x \in A : Tag(x) \in Stores \cup {"check"}
    BY DEF Approach, Tag
  <2>2. \A x \in A, y \in {op} : MayFollow(Tag(x), Tag(y))
    BY <1>2, <2>1 DEF MayFollow, Stores, Recording
  <2> QED BY <1>3, <2>2, CourseJoin DEF Approach
<1>5. ASSUME NEW D, \A x \in D : x.do = "reload", NEW w \in Stores
      PROVE  Reaches(U \cup D, w, snap, m)
  <2>1. Reaches(A, w, snap, m)
    OBVIOUS
  <2>2. Points(U \cup D, w) => Points(A, w)
    BY <1>2, <1>5 DEF Points
  <2> QED BY <2>1, <2>2 DEF Reaches
<1>6. ASSUME NEW D, \A x \in D : /\ x.do = "reload" /\ x.snap = snap /\ pending = "none"
                                 /\ Entered(x.job, snap.state)
      PROVE  Aimed(U \cup D, m)
  <2>1. \A w \in Stores : Reaches(U \cup D, w, snap, m)
    BY <1>5, <1>6
  <2>2. op \in U \cup D
    OBVIOUS
  <2>3. \A x \in A : \/ x.do = "check"
                     \/ /\ x.do = "point" /\ x.which \in Stores
                        /\ x.to.prev = Of(m.run.snap, x.which) /\ Adopting(x.which, m.run)
    BY DEF Approach
  <2> HIDE DEF U
  <2>4. \A x \in U \cup D : x \in A \/ x = op \/ x \in D
    BY DEF U
  <2> QED BY <1>1, <1>2, <1>6, <2>1, <2>2, <2>3, <2>4 DEF Aimed, Recording
<1>7. Steers(a \o u, m)
  <2>1. Aimed(U \cup {}, m)
    BY <1>6
  <2>2. U \cup {} = U
    OBVIOUS
  <2> QED BY <1>4, <2>1, <2>2 DEF Steers
<1>8. ASSUME NEW d, NEW D, Course(d, D),
             \A x \in D : /\ x.do = "reload" /\ x.snap = snap /\ pending = "none"
                          /\ Entered(x.job, snap.state)
      PROVE  Steers((a \o u) \o d, m)
  <2>1. Aimed(U \cup D, m)
    BY <1>6, <1>8
  <2>2. \A x \in U, y \in D : MayFollow(Tag(x), Tag(y))
    <3>1. \A y \in D : Tag(y) = "reload"
      BY <1>8 DEF Tag
    <3> QED BY <3>1 DEF MayFollow, Stores, Recording
  <2>3. Course((a \o u) \o d, U \cup D)
    <3> HIDE DEF U
    <3> QED BY <1>4, <1>8, <2>2, CourseJoin
  <2> QED BY <2>1, <2>3 DEF Steers
<1> QED BY <1>7, <1>8

-----------------------------------------------------------------------------
(* Each handler.                                                           *)

\* Something quiet in front of a handler, and a handler that only raises.
LEMMA SteersBehind ==
  ASSUME NEW m, NEW a, Course(a, {}), NEW b, Steers(b, m)
  PROVE  Steers(a \o b, m)
  BY CourseOn DEF Steers

LEMMA SteersRaise == ASSUME NEW m PROVE Steers(<<[do |-> "raise"]>>, m)
<1>1. ~Moving([do |-> "raise"])
  BY DEF Moving
<1>2. Course(<<[do |-> "raise"]>>, {})
  BY <1>1, CourseOne
<1>3. Aimed({}, m)
  BY DEF Aimed
<1> QED BY <1>2, <1>3 DEF Steers

\* A handler that adopts nothing, and whose snapshot has the same model and
\* Harness, finds both pointers where they were.
LEMMA Unmoved ==
  ASSUME NEW m, m # NoRecord, NEW snap, Like(m.run.snap, snap),
         \A w \in Stores : ~Adopting(w, m.run), NEW A
  PROVE  \A w \in Stores : Reaches(A, w, snap, m)
  BY DEF Reaches, Like, Of

LEMMA Calm ==
  ASSUME NEW r,
         \/ /\ r.pending # "harness"
            /\ r.snap.state \notin {"PROMOTE_MODEL", "MUTATE_HARNESS", "SLIM_HARNESS"}
         \/ /\ r.snap.state = "HARNESS_REVIEW_PENDING"
            /\ <<RequestId("harness", r.snap), TRUE>> \notin disk.answers
  PROVE  \A w \in Stores : ~Adopting(w, r)
  BY DEF Adopting

\* What follows on a decision on a model.
LEMMA CourseAfter ==
  ASSUME NEW step
  PROVE  \E D : /\ Course(AfterDecision(step), D)
                /\ \A op \in D : /\ op.do = "reload" /\ op.snap = Final(step)
                                 /\ Entered(op.job, Final(step).state)
<1> DEFINE t == Final(step)
           op == [do |-> "reload", job |-> AfterModel[t.state], snap |-> t]
<1>1. CASE t.state \in DOMAIN AfterModel
  <2>1. AfterDecision(step) = << op >>
    BY <1>1 DEF AfterDecision, GoOn
  <2>2. Moving(op) /\ op.do = "reload" /\ op.snap = t
    BY DEF Moving
  <2>3. Entered(op.job, t.state)
    <3>1. op.job = AfterModel[t.state]
      OBVIOUS
    <3> HIDE DEF op, t
    <3> QED BY <1>1, <3>1 DEF AfterModel, Entered
  <2> HIDE DEF op
  <2>4. Course(<< op >>, {op})
    BY <2>2, CourseOne
  <2> QED BY <2>1, <2>2, <2>3, <2>4
<1>2. CASE t.state \notin DOMAIN AfterModel
  <2>1. AfterDecision(step) = <<>>
    BY <1>2 DEF AfterDecision
  <2> QED BY <2>1, CourseNone
<1> QED BY <1>1, <1>2

\* One commit and the update of the record, and perhaps another handler.
LEMMA SteersTurn ==
  ASSUME NEW m, m # NoRecord, NEW step, Like(m.run.snap, Final(step)),
         \A w \in Stores : ~Adopting(w, m.run),
         NEW a, Course(a, {})
  PROVE  /\ Steers(a \o Follow(m, step), m)
         /\ Steers(a \o CompleteCycle(m, step), m)
         /\ \A d, D : /\ Course(d, D)
                      /\ \A op \in D : /\ op.do = "reload" /\ op.snap = Final(step)
                                       /\ Entered(op.job, Final(step).state)
                     => Steers((a \o Follow(m, step)) \o d, m)
<1>1. Approach(a, {}, m)
  BY DEF Approach
<1>2. \A w \in Stores : Reaches({}, w, Final(step), m)
  BY Unmoved
<1>3. Pends(Final(step), "none")
  BY DEF Pends
<1> QED BY <1>1, <1>2, <1>3, Follows, Completing, Turning

LEMMA SteersBegin ==
  ASSUME NEW m, Sized(m), NEW s, s = m.run.snap, m.run.pending = "none",
         Entered("begin", s.state)
  PROVE  Steers(BeginCycle(m, s), m)
<1>1. Like(s, Final(Loops!BeginStep(m.run, s)))
  BY BeginEnds DEF Sized
<1>2. \A w \in Stores : ~Adopting(w, m.run)
  BY Calm DEF Entered
<1> QED BY <1>1, <1>2, CourseCommits, SteersTurn DEF BeginCycle, Sized

LEMMA SteersStop ==
  ASSUME NEW m, Sized(m), NEW s, s = m.run.snap, m.run.pending = "none",
         Entered("stop", s.state)
  PROVE  Steers(StopAtLimit(m, s), m)
<1>1. Like(s, Final(Loops!StopStep(m.run, s)))
  BY StopEnds DEF Sized
<1>2. \A w \in Stores : ~Adopting(w, m.run)
  BY Calm DEF Entered
<1> QED BY <1>1, <1>2, CourseCommits, SteersTurn DEF StopAtLimit, Sized

LEMMA SteersRollback ==
  ASSUME NEW m, Sized(m), NEW s, s = m.run.snap, m.run.pending = "none",
         Entered("rollback", s.state)
  PROVE  Steers(Rollback(m, s), m)
<1> DEFINE step == Loops!RollbackStep(s)
           mark == [do |-> "mark", id |-> <<s.candCkpt, s.iteration>>]
           q == Commits("model-rollback-committed", s.candCkpt, s.iteration, step, {})
<1>1. Like(s, Final(step))
  BY RollbackEnds DEF Sized
<1>2. \A w \in Stores : ~Adopting(w, m.run)
  BY Calm DEF Entered
<1>3. ~Moving(mark)
  BY DEF Moving
<1>4. Rollback(m, s) = (<< mark >> \o q) \o CompleteCycle(m, step)
  BY DEF Rollback
<1> HIDE DEF mark, step
<1>5. Course(<< mark >>, {}) /\ Course(q, {})
  BY <1>3, CourseOne, CourseCommits
<1> HIDE DEF q
<1>6. Course(<< mark >> \o q, {})
  BY <1>5, CourseOn
<1> QED BY <1>1, <1>2, <1>4, <1>6, SteersTurn DEF Sized

\* _run_trace_batch: a dataset review follows a verified dataset.
LEMMA SteersBatch ==
  ASSUME conf \in Setups, NEW m, Sized(m), NEW s, s = m.run.snap, m.run.pending = "none",
         Entered("batch", s.state)
  PROVE  Steers(TraceBatch(m, s), m)
<1> DEFINE batch == Candidate(s.cycle, s.iteration)
           harvested == BatchHarvested(conf.trace, s, batch, HarvestCost)
           step == VerificationCompleted(conf.trace, Final(harvested),
                                         conf.harvest.accepted, conf.harvest.raw)
           q1 == File("traces", s.cycle)
           q2 == Commits("trace-harvested", batch, s.iteration, harvested, {})
           q3 == File("dataset", batch)
           q4 == Commits("trace-verified", batch, s.iteration, step, {})
           reviews == Final(step).state = "TRAIN_MODEL" /\ conf.datasetReview
           op == [do |-> "reload", job |-> "dataset-review", snap |-> Final(step)]
           q6 == IF reviews THEN << op >> ELSE <<>>
           rest == (q4 \o Follow(m, step)) \o q6
<1>1. s \in Snapshots /\ batch \in Int /\ HarvestCost \in Int
  BY DEF Candidate, IdSpan, Snapshots, Sized, HarvestCost
<1>2. Like(s, Final(harvested))
  <2> HIDE DEF batch
  <2> QED BY <1>1, HarvestEnds
<1>3. Like(s, Final(step))
  <2> HIDE DEF harvested
  <2>1. Final(harvested) \in Snapshots
    BY <1>2 DEF Like
  <2>2. Like(Final(harvested), Final(step))
    BY <2>1, ConfTypes, VerificationEnds
  <2> QED BY <1>2, <2>2, Likes
<1>4. \A w \in Stores : ~Adopting(w, m.run)
  BY Calm DEF Entered
<1>5. TraceBatch(m, s) = ((q1 \o q2) \o q3) \o (IF Final(harvested).state = "ABORTED"
                                               THEN <<[do |-> "raise"]>> ELSE rest)
  BY DEF TraceBatch, GoOn
<1>6. Course((q1 \o q2) \o q3, {}) /\ Course(q4, {})
  <2>1. Course(q1, {}) /\ Course(q2, {}) /\ Course(q3, {}) /\ Course(q4, {})
    BY CourseFile, CourseCommits
  <2> HIDE DEF q1, q2, q3, q4
  <2>2. Course(q1 \o q2, {})
    BY <2>1, CourseOn
  <2> QED BY <2>1, <2>2, CourseOn
<1>7. Moving(op) /\ op.do = "reload" /\ op.job = "dataset-review" /\ op.snap = Final(step)
  BY DEF Moving
<1> HIDE DEF op
<1>8. PICK D : /\ Course(q6, D)
               /\ \A x \in D : x = op /\ reviews
  <2>1. Course(<< op >>, {op})
    BY <1>7, CourseOne
  <2> HIDE DEF reviews
  <2> QED BY <2>1, CourseNone
<1>9. Steers(rest, m)
  <2>1. \A x \in D : x.do = "reload" /\ x.snap = Final(step) /\ Entered(x.job, Final(step).state)
    BY <1>7, <1>8 DEF Entered
  <2> HIDE DEF q4, q6, step
  <2> QED BY <1>3, <1>4, <1>6, <1>8, <2>1, SteersTurn DEF Sized
<1> HIDE DEF rest, q1, q2, q3, harvested
<1> QED BY <1>5, <1>6, <1>9, SteersRaise, SteersBehind

\* _run_model_inner_loop: what follows is what was decided.
LEMMA SteersModel ==
  ASSUME conf \in Setups, NEW m, Sized(m), NEW s, s = m.run.snap, m.run.pending = "none",
         Entered("model", s.state)
  PROVE  Steers(ModelLoop(m, s), m)
<1> DEFINE input == Loops!PolicyInput(m.run, s)
           trained == TrainingCompleted(conf.model, input, s.cycle, TrainingCost(s))
           step == ModelEvaluation(conf.model, Final(trained), ModelScore(m, s),
                                   ModelEvaluationCost)
           q1 == File("weights", s.cycle)
           q2 == Commits("model-trained", s.cycle, s.iteration, trained, {})
           q3 == Commits("model-evaluated", s.cycle, s.iteration, step, {})
           rest == (q3 \o Follow(m, step)) \o AfterDecision(step)
<1>1. /\ s \in Snapshots /\ m.run.modelScore \in Int /\ s.cycle \in Int
      /\ TrainingCost(s) \in Int /\ ModelEvaluationCost \in Int
  BY DEF Sized, Snapshots, Metas, TrainingCost, ModelEvaluationCost
<1>2. Like(s, input)
  BY <1>1, InputFields
<1> HIDE DEF input
<1>3. Like(s, Final(trained))
  <2>1. Like(input, Final(trained))
    BY <1>1, <1>2, TrainingEnds DEF Like
  <2> QED BY <1>2, <2>1, Likes
<1> HIDE DEF trained
<1>4. Like(s, Final(step))
  <2>1. Final(trained) \in Snapshots /\ ModelScore(m, s) \in Int
    BY <1>1, <1>3, ScoreTypes DEF Like
  <2>2. Like(Final(trained), Final(step))
    BY <1>1, <2>1, ModelEvaluationEnds
  <2> QED BY <1>3, <2>2, Likes
<1> HIDE DEF step
<1>5. \A w \in Stores : ~Adopting(w, m.run)
  BY Calm DEF Entered
<1>6. ModelLoop(m, s) = (q1 \o q2) \o (IF Final(trained).state = "ABORTED"
                                       THEN <<[do |-> "raise"]>> ELSE rest)
  BY DEF ModelLoop, input, trained, step
<1>7. Course(q1 \o q2, {}) /\ Course(q3, {})
  <2>1. Course(q1, {}) /\ Course(q2, {}) /\ Course(q3, {})
    BY CourseFile, CourseCommits
  <2> HIDE DEF q1, q2, q3
  <2> QED BY <2>1, CourseOn
<1>8. PICK D : /\ Course(AfterDecision(step), D)
               /\ \A op \in D : /\ op.do = "reload" /\ op.snap = Final(step)
                                /\ Entered(op.job, Final(step).state)
  BY CourseAfter
<1>9. Steers(rest, m)
  <2> HIDE DEF q3
  <2> QED BY <1>4, <1>5, <1>7, <1>8, SteersTurn DEF Sized
<1> HIDE DEF rest, q1, q2
<1> QED BY <1>6, <1>7, <1>9, SteersRaise, SteersBehind

\* A handler that asks a reviewer: the record names the review it waits for.
LEMMA SteersRequest ==
  ASSUME NEW m, Sized(m), NEW s, s = m.run.snap, m.run.pending = "none",
         Entered("request", s.state)
  PROVE  Steers(CreateRequest(m, s), m)
<1> DEFINE subject == Loops!ReviewOf[s.state]
           id == RequestId(subject, s)
           ask == [do |-> "request", id |-> id]
           q == Commits("approval-requested", id, s.iteration, <<>>, {})
           u == Update(m, s, m.run.completed, subject)
<1>1. Like(s, s)
  BY DEF Like, Sized
<1>2. \A w \in Stores : ~Adopting(w, m.run)
  BY Calm DEF Entered
<1>3. ~Moving(ask)
  BY DEF Moving
<1>4. CreateRequest(m, s) = (<< ask >> \o q) \o u
  BY DEF CreateRequest
<1>5. Pends(s, subject)
  BY DEF Pends, PendingState, Entered, Loops!ReviewOf
<1>6. Updating(u, s, subject)
  BY Updates
<1> HIDE DEF ask, id, subject
<1>7. Course(<< ask >>, {}) /\ Course(q, {})
  BY <1>3, CourseOne, CourseCommits
<1> HIDE DEF q, u
<1>8. Course(<< ask >> \o q, {})
  BY <1>7, CourseOn
<1>9. Approach(<< ask >> \o q, {}, m)
  BY <1>8 DEF Approach
<1>10. \A w \in Stores : Reaches({}, w, s, m)
  BY <1>1, <1>2, Unmoved DEF Sized
<1> QED BY <1>4, <1>5, <1>6, <1>9, <1>10, Turning DEF Sized

LEMMA SteersDatasetReview ==
  ASSUME NEW m, Sized(m), NEW s, s = m.run.snap, m.run.pending = "none",
         Entered("dataset-review", s.state)
  PROVE  Steers(DatasetReview(m, s), m)
<1> DEFINE review == Loops!DatasetReviewSnapshot(s)
           step == <<Edge("REQUEST_APPROVAL", "DATASET", s.meta.dataset, review)>>
           ask == [do |-> "request", id |-> <<"dataset", s.meta.dataset, s.iteration>>]
           q == Commits("dataset-review-requested", s.meta.dataset, s.iteration, step, {})
           u == Update(m, review, m.run.completed, "dataset")
<1>1. Like(s, review)
  BY DatasetFields DEF Sized
<1>2. \A w \in Stores : ~Adopting(w, m.run)
  BY Calm DEF Entered
<1>3. ~Moving(ask)
  BY DEF Moving
<1>4. DatasetReview(m, s) = (<< ask >> \o q) \o u
  BY DEF DatasetReview
<1>5. Pends(review, "dataset")
  BY DEF Pends, PendingState, Loops!DatasetReviewSnapshot, Sized, Snapshots
<1>6. Updating(u, review, "dataset")
  BY Updates
<1> HIDE DEF ask, step, review
<1>7. Course(<< ask >>, {}) /\ Course(q, {})
  BY <1>3, CourseOne, CourseCommits
<1> HIDE DEF q, u
<1>8. Course(<< ask >> \o q, {})
  BY <1>7, CourseOn
<1>9. Approach(<< ask >> \o q, {}, m)
  BY <1>8 DEF Approach
<1>10. \A w \in Stores : Reaches({}, w, review, m)
  BY <1>1, <1>2, Unmoved DEF Sized
<1> QED BY <1>4, <1>5, <1>6, <1>9, <1>10, Turning DEF Sized

\* A handler that adopts: the pointer comes after the record's.
LEMMA Adopts ==
  ASSUME NEW m, m # NoRecord, NEW w \in Stores, NEW p,
         p.prev = Of(m.run.snap, w), Adopting(w, m.run)
  PROVE  /\ Approach(Adopt(w, p), {[do |-> "point", which |-> w, to |-> p]}, m)
         /\ \A a, A : (/\ Approach(a, A, m) /\ \A op \in A : op.do = "check")
              => Approach(a \o Adopt(w, p), A \cup {[do |-> "point", which |-> w, to |-> p]}, m)
<1> DEFINE op == [do |-> "point", which |-> w, to |-> p]
<1>1. Course(Adopt(w, p), {op}) /\ op.do = "point" /\ op.which = w /\ op.to = p
  BY CourseAdopt
<1> HIDE DEF op
<1>2. Approach(Adopt(w, p), {op}, m)
  BY <1>1 DEF Approach
<1>3. ASSUME NEW a, NEW A, Approach(a, A, m), \A x \in A : x.do = "check"
      PROVE  Approach(a \o Adopt(w, p), A \cup {op}, m)
  <2>1. \A x \in A : Tag(x) = "check"
    BY <1>3 DEF Tag
  <2>2. \A x \in A, y \in {op} : MayFollow(Tag(x), Tag(y))
    BY <2>1 DEF MayFollow, Stores, Recording
  <2>3. Course(a \o Adopt(w, p), A \cup {op})
    BY <1>1, <1>3, <2>2, CourseJoin DEF Approach
  <2> QED BY <1>2, <1>3, <2>3 DEF Approach
<1> QED BY <1>2, <1>3 DEF op

LEMMA SteersPromotion ==
  ASSUME NEW m, Sized(m), NEW s, s = m.run.snap, m.run.pending = "none",
         Entered("promotion", s.state)
  PROVE  Steers(Promotion(m, s), m)
<1> DEFINE decided == IF conf.model.approval THEN "model-review-completed" ELSE "model-evaluated"
           step == PromotionCommitted(s)
           pointer == Pointer(s.candCkpt, m.run.snap.ckpt, s.iteration, s.candScore,
                              <<decided, s.iteration, s.candCkpt>>)
           q1 == Adopt("peak", pointer)
           q2 == Commits("model-promotion-committed", s.candCkpt, s.iteration, step, {"peak"})
           op == [do |-> "point", which |-> "peak", to |-> pointer]
<1>1. Final(step).ckpt = s.candCkpt /\ Final(step).harness = s.harness
  BY PromotionEnds DEF Sized
<1>2. Promotion(m, s) = (q1 \o q2) \o Follow(m, step)
  BY DEF Promotion
<1>3. pointer.id = s.candCkpt /\ pointer.prev = m.run.snap.ckpt
  BY DEF Pointer
<1> HIDE DEF pointer, step
<1>4. Adopting("peak", m.run) /\ ~Adopting("harness", m.run)
  BY DEF Adopting, Entered
<1>5. Approach(q1, {op}, m)
  BY <1>3, <1>4, Adopts DEF Of, Stores, Sized
<1>6. Approach(q1 \o q2, {op}, m)
  <2>1. Course(q2, {})
    BY CourseCommits
  <2> HIDE DEF q1, q2, op
  <2>2. Course(q1 \o q2, {op})
    BY <1>5, <2>1, CourseOn DEF Approach
  <2> QED BY <1>5, <2>2 DEF Approach
<1>7. op.do = "point" /\ op.which = "peak" /\ op.to = pointer
  OBVIOUS
<1> HIDE DEF op, q1, q2
<1>8. Reaches({op}, "peak", Final(step), m)
  BY <1>1, <1>3, <1>7 DEF Reaches, Of
<1>9. Reaches({op}, "harness", Final(step), m)
  BY <1>1, <1>4 DEF Reaches, Of, Sized
<1>10. \A w \in Stores : Reaches({op}, w, Final(step), m)
  BY <1>8, <1>9 DEF Stores
<1>11. Pends(Final(step), "none")
  BY DEF Pends
<1> QED BY <1>2, <1>6, <1>10, <1>11, Follows, Turning DEF Sized

LEMMA SteersSlim ==
  ASSUME conf \in Setups, NEW m, Sized(m), NEW s, s = m.run.snap, m.run.pending = "none",
         Entered("slim", s.state)
  PROVE  Steers(SlimHarness(m, s), m)
<1> DEFINE step == Loops!SlimStep(conf, m.run, s)
           slim == Slim(s.cycle)
           pointer == Pointer(slim, m.run.snap.harness, s.cycle, Final(step).score,
                              <<"harness-slimmed", 0, slim>>)
           q1 == File("slim", slim)
           q2 == Commits("harness-slimmed", slim, 0, step, {})
           q3 == Adopt("harness", pointer)
           op == [do |-> "point", which |-> "harness", to |-> pointer]
<1>1. Final(step).ckpt = s.ckpt /\ Final(step).harness = slim
  BY ConfTypes, SlimEnds DEF Sized
<1>2. SlimHarness(m, s) = ((q1 \o q2) \o q3) \o CompleteCycle(m, step)
  BY DEF SlimHarness
<1>3. pointer.id = slim /\ pointer.prev = m.run.snap.harness
  BY DEF Pointer
<1> HIDE DEF pointer, step, slim
<1>4. Adopting("harness", m.run) /\ ~Adopting("peak", m.run)
  BY DEF Adopting, Entered
<1>5. Approach(q3, {op}, m)
  BY <1>3, <1>4, Adopts DEF Of, Stores, Sized
<1>6. Approach((q1 \o q2) \o q3, {op}, m)
  <2>1. Course(q1, {}) /\ Course(q2, {})
    BY CourseFile, CourseCommits
  <2> HIDE DEF q1, q2, q3, op
  <2>2. Course((q1 \o q2) \o q3, {op})
    BY <1>5, <2>1, CourseOn DEF Approach
  <2> QED BY <1>5, <2>2 DEF Approach
<1>7. op.do = "point" /\ op.which = "harness" /\ op.to = pointer
  OBVIOUS
<1> HIDE DEF op, q1, q2, q3
<1>8. Reaches({op}, "harness", Final(step), m)
  BY <1>1, <1>3, <1>7 DEF Reaches, Of
<1>9. Reaches({op}, "peak", Final(step), m)
  BY <1>1, <1>4 DEF Reaches, Of, Sized
<1>10. \A w \in Stores : Reaches({op}, w, Final(step), m)
  BY <1>8, <1>9 DEF Stores
<1>11. Pends(Final(step), "none")
  BY DEF Pends
<1> QED BY <1>2, <1>6, <1>10, <1>11, Completing, Turning DEF Sized

\* An evaluation keeps the Harness unless it accepts the candidate.
LEMMA Evaluated ==
  ASSUME NEW L, NEW s \in Snapshots, NEW score \in Int, NEW cost \in Int
  PROVE  LET step == OuterEvaluation(L, s, score, cost)
         IN  /\ Final(step).ckpt = s.ckpt
             /\ Final(step).harness = IF step[1].snap.state = "ACCEPT_HARNESS"
                                      THEN s.candHarness ELSE s.harness
<1> DEFINE step == OuterEvaluation(L, s, score, cost)
<1>1. /\ Ends(step) /\ Final(step).ckpt = s.ckpt
      /\ IF step[1].snap.state = "ACCEPT_HARNESS"
         THEN Final(step).harness = s.candHarness /\ ~L.approval
         ELSE Final(step).harness = s.harness
  BY EvaluationEnds
<1> QED BY <1>1

\* The first lines of an attempt compare the pointer with the record, so that
\* a rejected candidate leaves it where the record wants it.
LEMMA SteersAttempt ==
  ASSUME conf \in Setups, NEW m, Sized(m), NEW s, s = m.run.snap, m.run.pending = "none",
         Entered("attempt", s.state)
  PROVE  Steers(HarnessAttempt(m, s), m)
<1> DEFINE candidate == Candidate(s.cycle, s.iteration)
           created == CandidateCreated(s, candidate)
           validated == ValidationCompleted(conf.outer, Final(created), TRUE)
           step == OuterEvaluation(conf.outer, Final(validated), HarnessScore(s), HarnessCost)
           accepts == step[1].snap.state = "ACCEPT_HARNESS"
           reviews == Final(step).state = "HARNESS_REVIEW_PENDING"
           pointer == Pointer(candidate, m.run.snap.harness, s.cycle, HarnessScore(s),
                              <<"harness-evaluated", s.iteration, candidate>>)
           check == [do |-> "check", harness |-> m.run.snap.harness]
           point == [do |-> "point", which |-> "harness", to |-> pointer]
           leave == [do |-> "reload", job |-> "request", snap |-> Final(step)]
           q1 == << check >>
           q2 == File("candidate", candidate)
           q3 == Commits("harness-mutated", candidate, s.iteration, created, {})
           q4 == File("validation", candidate)
           q5 == Commits("harness-validated", candidate, s.iteration, validated, {})
           q6 == File("evaluation", candidate)
           q7 == Commits("harness-evaluated", candidate, s.iteration, step, {})
           q8 == IF accepts THEN Adopt("harness", pointer) ELSE <<>>
           q10 == IF reviews THEN << leave >> ELSE <<>>
           r == (((((q1 \o q2) \o q3) \o q4) \o q5) \o q6) \o q7
           A == IF accepts THEN {check} \cup {point} ELSE {check}
<1>1. s \in Snapshots
  BY DEF Sized
<1>2. candidate \in Int
  BY <1>1 DEF Candidate, IdSpan, Snapshots
<1> HIDE DEF candidate
<1>3. Like(s, Final(validated)) /\ Final(validated).candHarness = candidate
  BY <1>1, <1>2, PreparedFields
<1>4. HarnessScore(s) \in Int /\ HarnessCost \in Int
  BY <1>1, ScoreTypes DEF HarnessCost
<1>5. Final(validated) \in Snapshots
  BY <1>3 DEF Like
<1> HIDE DEF validated, created
<1> DEFINE v == Final(validated)
<1> HIDE DEF v
<1>6. /\ Final(step).ckpt = s.ckpt
      /\ Final(step).harness = IF accepts THEN candidate ELSE s.harness
  <2>1. v \in Snapshots /\ v.ckpt = s.ckpt /\ v.harness = s.harness /\ v.candHarness = candidate
    BY <1>3, <1>5 DEF Like, v
  <2>2. step = OuterEvaluation(conf.outer, v, HarnessScore(s), HarnessCost)
    BY DEF v
  <2> QED BY <1>4, <2>1, <2>2, Evaluated
<1> HIDE DEF step, accepts, reviews
<1>7. HarnessAttempt(m, s) = ((r \o q8) \o Follow(m, step)) \o q10
  BY DEF HarnessAttempt, GoOn, candidate, created, validated, step, accepts, reviews
<1>8. pointer.id = candidate /\ pointer.prev = m.run.snap.harness
  BY DEF Pointer
<1> HIDE DEF pointer
<1>9. Adopting("harness", m.run) /\ ~Adopting("peak", m.run)
  BY DEF Adopting, Entered
<1>10. /\ Moving(check) /\ check.do = "check" /\ check.harness = m.run.snap.harness
       /\ point.do = "point" /\ point.which = "harness" /\ point.to = pointer
       /\ Moving(leave) /\ leave.do = "reload" /\ leave.snap = Final(step)
       /\ leave.job = "request"
  BY DEF Moving
<1>11. /\ Course(q1, {check}) /\ Course(q2, {}) /\ Course(q3, {}) /\ Course(q4, {})
       /\ Course(q5, {}) /\ Course(q6, {}) /\ Course(q7, {})
  <2> HIDE DEF check
  <2> QED BY <1>10, CourseOne, CourseFile, CourseCommits
<1>12. Approach(r, {check}, m)
  <2>1. Course(r, {check})
    <3> HIDE DEF q1, q2, q3, q4, q5, q6, q7, check
    <3>1. Course(((q1 \o q2) \o q3) \o q4, {check})
      BY <1>11, CourseOn
    <3> QED BY <1>11, <3>1, CourseOn
  <2> HIDE DEF r, check
  <2> QED BY <1>10, <2>1 DEF Approach
<1>13. Approach(r \o q8, A, m)
  <2>1. CASE accepts
    <3>1. m.run.snap.harness = Of(m.run.snap, "harness") /\ "harness" \in Stores /\ m # NoRecord
      BY DEF Of, Stores, Sized
    <3>2. \A x \in {check} : x.do = "check"
      BY <1>10
    <3> HIDE DEF r, check
    <3>3. Approach(r \o Adopt("harness", pointer), {check} \cup {point}, m)
      BY <1>8, <1>9, <1>12, <3>1, <3>2, Adopts
    <3> QED BY <2>1, <3>3
  <2>2. CASE ~accepts
    <3> HIDE DEF r, check
    <3>1. Course(r \o <<>>, {check})
      BY <1>12, CourseNone, CourseOn DEF Approach
    <3> QED BY <1>12, <2>2, <3>1 DEF Approach
  <2> QED BY <2>1, <2>2
<1>14. \A w \in Stores : Reaches(A, w, Final(step), m)
  <2> HIDE DEF check, point
  <2>1. Reaches(A, "peak", Final(step), m)
    BY <1>6, <1>9 DEF Reaches, Of, Sized
  <2>2. CASE accepts
    <3>1. point \in A
      BY <2>2
    <3>2. Reaches(A, "harness", Final(step), m)
      BY <1>6, <1>8, <1>10, <2>2, <3>1 DEF Reaches, Of
    <3> QED BY <2>1, <3>2 DEF Stores
  <2>3. CASE ~accepts
    <3>1. A = {check} /\ ~Points({check}, "harness")
      BY <1>10, <2>3 DEF Points
    <3>2. Reaches({check}, "harness", Final(step), m)
      BY <1>6, <1>10, <2>3, <3>1 DEF Reaches, Of, Sized
    <3> QED BY <2>1, <3>1, <3>2 DEF Stores
  <2> QED BY <2>2, <2>3
<1>15. PICK D : Course(q10, D) /\ \A x \in D : x = leave /\ reviews
  <2> HIDE DEF leave
  <2>1. Course(<< leave >>, {leave})
    BY <1>10, CourseOne
  <2> QED BY <2>1, CourseNone
<1>16. \A x \in D : x.do = "reload" /\ x.snap = Final(step) /\ Entered(x.job, Final(step).state)
  BY <1>10, <1>15 DEF Entered, reviews
<1>17. Pends(Final(step), "none")
  BY DEF Pends
<1> HIDE DEF r, q8, q10, A, check, point, leave
<1> QED BY <1>7, <1>13, <1>14, <1>15, <1>16, <1>17, Follows, Turning DEF Sized

\* An approved Harness is accepted.
LEMMA HarnessReviewed ==
  ASSUME NEW L, NEW s \in Snapshots, NEW approved, approved
  PROVE  HarnessReview(L, s, approved)[1].snap.state = "ACCEPT_HARNESS"
<1> DEFINE e == Accept(s, s.candScore)
<1>1. HarnessReview(L, s, approved) = Advance(L, << e >>)
  BY DEF HarnessReview
<1>2. e.snap \in Snapshots /\ e.snap.state = "ACCEPT_HARNESS"
  <2>1. s.candScore \in Int
    BY DEF Snapshots
  <2> QED BY <2>1, AcceptFields
<1> HIDE DEF e
<1>3. Advance(L, << e >>)[1] = e
  BY <1>2, AdvanceEnds
<1> QED BY <1>1, <1>2, <1>3

\* _resume_pending_approval of a Harness.
LEMMA SteersHarnessResume ==
  ASSUME NEW m, Sized(m), NEW s, s = m.run.snap, m.run.pending = "harness",
         Pends(m.run.snap, m.run.pending)
  PROVE  Steers(Resume(m, s), m)
<1> DEFINE step == HarnessReview(conf.outer, s, Approved(m))
           accepts == step[1].snap.state = "ACCEPT_HARNESS"
           pointer == Pointer(s.candHarness, m.run.snap.harness, s.cycle, s.candScore,
                              <<"harness-review-completed", s.iteration, s.candHarness>>)
           q1 == Commits("harness-review-completed", s.candHarness, s.iteration, step, {})
           q2 == IF accepts THEN Adopt("harness", pointer) ELSE <<>>
           point == [do |-> "point", which |-> "harness", to |-> pointer]
           A == IF accepts THEN {point} ELSE {}
<1>1. s \in Snapshots /\ m # NoRecord
  BY DEF Sized
<1>2. /\ Final(step).ckpt = s.ckpt
      /\ IF accepts THEN Final(step).harness = s.candHarness /\ Approved(m)
         ELSE Final(step).harness = s.harness
  BY <1>1, HarnessReviewEnds
<1>3. Approved(m) => accepts
  BY <1>1, HarnessReviewed
<1>4. Resume(m, s) = (q1 \o q2) \o Follow(m, step)
  BY DEF Resume
<1> HIDE DEF step, accepts
<1>5. pointer.id = s.candHarness /\ pointer.prev = m.run.snap.harness
  BY DEF Pointer
<1> HIDE DEF pointer
<1>6. m.run.snap.state = "HARNESS_REVIEW_PENDING"
  BY DEF Pends, PendingState
<1>7. ~Adopting("peak", m.run) /\ (Adopting("harness", m.run) <=> accepts)
  BY <1>2, <1>3, <1>6 DEF Adopting, Approved
<1>8. point.do = "point" /\ point.which = "harness" /\ point.to = pointer
  OBVIOUS
<1>9. Course(q1, {})
  BY CourseCommits
<1> HIDE DEF q1
<1>10. Approach(q1 \o q2, A, m)
  <2>1. CASE accepts
    <3>1. m.run.snap.harness = Of(m.run.snap, "harness") /\ "harness" \in Stores
      BY DEF Of, Stores
    <3>2. Approach(Adopt("harness", pointer), {point}, m)
      BY <1>1, <1>5, <1>7, <2>1, <3>1, Adopts
    <3> HIDE DEF point
    <3>3. Course(q1 \o Adopt("harness", pointer), {point})
      BY <1>9, <3>2, CourseOn DEF Approach
    <3> QED BY <2>1, <3>2, <3>3 DEF Approach
  <2>2. CASE ~accepts
    <3>1. Course(q1 \o <<>>, {})
      BY <1>9, CourseNone, CourseOn
    <3> QED BY <2>2, <3>1 DEF Approach
  <2> QED BY <2>1, <2>2
<1>11. \A w \in Stores : Reaches(A, w, Final(step), m)
  <2> HIDE DEF point
  <2>1. Reaches(A, "peak", Final(step), m)
    BY <1>1, <1>2, <1>7 DEF Reaches, Of
  <2>2. CASE accepts
    <3>1. Reaches(A, "harness", Final(step), m)
      BY <1>2, <1>5, <1>8, <2>2 DEF Reaches, Of
    <3> QED BY <2>1, <3>1 DEF Stores
  <2>3. CASE ~accepts
    <3>1. Reaches(A, "harness", Final(step), m)
      BY <1>1, <1>2, <1>7, <2>3 DEF Reaches, Of
    <3> QED BY <2>1, <3>1 DEF Stores
  <2> QED BY <2>2, <2>3
<1>12. Pends(Final(step), "none")
  BY DEF Pends
<1> HIDE DEF q2, A, point
<1> QED BY <1>1, <1>4, <1>10, <1>11, <1>12, Follows, Turning

\* _resume_pending_approval, whatever was reviewed.
LEMMA SteersResume ==
  ASSUME NEW m, Sized(m), NEW s, s = m.run.snap, m.run.pending # "none",
         Pends(m.run.snap, m.run.pending)
  PROVE  Steers(Resume(m, s), m)
<1>1. s \in Snapshots /\ m # NoRecord
  BY DEF Sized
<1>2. CASE m.run.pending = "harness"
  BY <1>2, SteersHarnessResume
<1>3. CASE m.run.pending = "dataset"
  <2> DEFINE step == Loops!DatasetReviewed(s, Approved(m))
             q == Commits("dataset-review-completed", s.meta.dataset, s.iteration, step, {})
  <2>1. Resume(m, s) = q \o Follow(m, step)
    BY <1>3 DEF Resume
  <2>2. Like(s, Final(step))
    BY <1>1, DatasetReviewedEnds
  <2>3. \A w \in Stores : ~Adopting(w, m.run)
    <3>1. m.run.snap.state = "DATA_REVIEW_PENDING"
      BY <1>3 DEF Pends, PendingState
    <3> QED BY <1>3, <3>1, Calm
  <2>4. Course(q, {})
    BY CourseCommits
  <2> HIDE DEF q, step
  <2> QED BY <1>1, <2>1, <2>2, <2>3, <2>4, SteersTurn
<1>4. CASE m.run.pending = "checkpoint"
  <2> DEFINE step == ModelReview(s, Approved(m))
             q == Commits("model-review-completed", s.candCkpt, s.iteration, step, {})
  <2>1. Resume(m, s) = (q \o Follow(m, step)) \o AfterDecision(step)
    BY <1>4 DEF Resume
  <2>2. Like(s, Final(step))
    BY <1>1, ModelReviewEnds
  <2>3. \A w \in Stores : ~Adopting(w, m.run)
    <3>1. m.run.snap.state = "MODEL_REVIEW_PENDING"
      BY <1>4 DEF Pends, PendingState
    <3> QED BY <1>4, <3>1, Calm
  <2>4. Course(q, {})
    BY CourseCommits
  <2> HIDE DEF q, step
  <2>5. PICK D : /\ Course(AfterDecision(step), D)
                 /\ \A op \in D : /\ op.do = "reload" /\ op.snap = Final(step)
                                  /\ Entered(op.job, Final(step).state)
    BY CourseAfter
  <2> QED BY <1>1, <2>1, <2>2, <2>3, <2>4, <2>5, SteersTurn
<1> QED BY <1>2, <1>3, <1>4 DEF Sized

\* _bootstrap: both pointers, and then the first record.
LEMMA SteersBootstrap ==
  ASSUME conf \in Setups
  PROVE  Steers(Bootstrap, NoRecord)
<1> DEFINE start == OuterStart(1, 0, 0, conf.harnessScore, 0)
           frozen == [start[1].snap EXCEPT !.meta.modelScore = conf.modelScore]
           model == [do |-> "point", which |-> "peak", to |-> BootModel]
           harness == [do |-> "point", which |-> "harness", to |-> BootHarness]
           create == [do |-> "create", to |-> FirstRecord]
           qa == File("model", 0)
           qb == File("config", 0)
           qc == Commits("bootstrap-model", 0, 0, <<Edge("PROMOTE", "CHECKPOINT", 0, frozen)>>, {})
           qd == Adopt("peak", BootModel)
           qe == File("harness", 0)
           qf == Commits("bootstrap-harness", 0, 0, <<Edge("ACCEPT", "HARNESS", 0, frozen)>>, {})
           qg == Adopt("harness", BootHarness)
           qh == Commits("outer-start", 0, 0, start, {"peak", "harness"})
           qi == << create >>
           r == (((((qa \o qb) \o qc) \o qd) \o qe) \o qf)
           X == ({model} \cup {harness}) \cup {create}
<1>1. Bootstrap = ((r \o qg) \o qh) \o qi
  BY DEF Bootstrap
<1>2. Final(start).ckpt = 0 /\ Final(start).harness = 0
  BY ConfTypes, StartEnds
<1>3. FirstRecord.run.snap = Final(start) /\ FirstRecord.run.pending = "none"
  BY DEF FirstRecord
<1>4. BootModel.id = 0 /\ BootHarness.id = 0
  BY DEF BootModel, BootHarness, Pointer
<1>5. /\ model.do = "point" /\ model.which = "peak" /\ model.to = BootModel
      /\ harness.do = "point" /\ harness.which = "harness" /\ harness.to = BootHarness
      /\ create.do = "create" /\ create.to = FirstRecord
  OBVIOUS
<1>6. /\ Course(qa, {}) /\ Course(qb, {}) /\ Course(qc, {}) /\ Course(qd, {model})
      /\ Course(qe, {}) /\ Course(qf, {}) /\ Course(qg, {harness}) /\ Course(qh, {})
  <2> HIDE DEF start, frozen
  <2> QED BY CourseFile, CourseCommits, CourseAdopt
<1>7. Course(qi, {create})
  <2>1. Moving(create)
    BY DEF Moving
  <2> HIDE DEF create
  <2> QED BY <2>1, CourseOne
<1> HIDE DEF qa, qb, qc, qd, qe, qf, qg, qh, qi, model, harness, create, start
<1>8. Course(r, {model})
  <2>1. Course(((qa \o qb) \o qc) \o qd, {model})
    BY <1>6, CourseOn
  <2> QED BY <1>6, <2>1, CourseOn
<1>9. Tag(model) = "peak" /\ Tag(harness) = "harness" /\ Tag(create) = "create"
  BY <1>5 DEF Tag
<1> HIDE DEF r
<1>10. Course(r \o qg, {model} \cup {harness})
  <2>1. MayFollow(Tag(model), Tag(harness))
    BY <1>9 DEF MayFollow, Stores, Recording
  <2> QED BY <1>6, <1>8, <2>1, CourseJoin
<1>11. Course((r \o qg) \o qh, {model} \cup {harness})
  BY <1>6, <1>10, CourseOn
<1>12. Course(((r \o qg) \o qh) \o qi, X)
  <2>1. \A x \in {model} \cup {harness}, y \in {create} : MayFollow(Tag(x), Tag(y))
    BY <1>9 DEF MayFollow, Stores, Recording
  <2> QED BY <1>7, <1>11, <2>1, CourseJoin
<1>13. Aimed(X, NoRecord)
  <2>1. \A w \in Stores : Reaches(X, w, FirstRecord.run.snap, NoRecord)
    <3>1. Reaches(X, "peak", FirstRecord.run.snap, NoRecord)
      BY <1>2, <1>3, <1>4, <1>5 DEF Reaches, Of
    <3>2. Reaches(X, "harness", FirstRecord.run.snap, NoRecord)
      BY <1>2, <1>3, <1>4, <1>5 DEF Reaches, Of
    <3> QED BY <3>1, <3>2 DEF Stores
  <2> QED BY <1>3, <1>5, <2>1 DEF Aimed, Stores, Recording, Pends
<1> HIDE DEF X
<1> QED BY <1>1, <1>12, <1>13 DEF Steers

\* What a handler was given: nothing, or the record with its snapshot, in the
\* state the handler is for.
Given(p) ==
  IF p.job = "bootstrap" THEN p.meta = NoRecord
  ELSE /\ p.snap = p.meta.run.snap
       /\ Pends(p.meta.run.snap, p.meta.run.pending)
       /\ IF p.job = "resume" THEN p.meta.run.pending # "none"
          ELSE p.meta.run.pending = "none" /\ Entered(p.job, p.snap.state)

LEMMA PlanSteers ==
  ASSUME conf \in Setups, NEW p, p.job \in Handlers, p.job # "bootstrap" => Ready(p), Given(p)
  PROVE  Steers(Plan(p), p.meta)
<1> DEFINE m == p.meta
           s == p.snap
<1>1. CASE p.job = "bootstrap"
  BY <1>1, SteersBootstrap DEF Plan, Given
<1>2. p.job # "bootstrap" => Sized(m) /\ s = m.run.snap
  BY DEF Ready, Given
<1>3. ASSUME p.job # "bootstrap", p.job # "resume"
      PROVE  m.run.pending = "none" /\ Entered(p.job, s.state)
  BY <1>3 DEF Given
<1>4. CASE p.job = "attempt"
  BY <1>2, <1>3, <1>4, SteersAttempt DEF Plan
<1>5. CASE p.job = "batch"
  BY <1>2, <1>3, <1>5, SteersBatch DEF Plan
<1>6. CASE p.job = "dataset-review"
  BY <1>2, <1>3, <1>6, SteersDatasetReview DEF Plan
<1>7. CASE p.job = "model"
  BY <1>2, <1>3, <1>7, SteersModel DEF Plan
<1>8. CASE p.job = "request"
  BY <1>2, <1>3, <1>8, SteersRequest DEF Plan
<1>9. CASE p.job = "promotion"
  BY <1>2, <1>3, <1>9, SteersPromotion DEF Plan
<1>10. CASE p.job = "rollback"
  BY <1>2, <1>3, <1>10, SteersRollback DEF Plan
<1>11. CASE p.job = "slim"
  BY <1>2, <1>3, <1>11, SteersSlim DEF Plan
<1>12. CASE p.job = "begin"
  BY <1>2, <1>3, <1>12, SteersBegin DEF Plan
<1>13. CASE p.job = "stop"
  BY <1>2, <1>3, <1>13, SteersStop DEF Plan
<1>14. CASE p.job = "resume"
  BY <1>2, <1>14, SteersResume DEF Plan, Given
<1> QED BY <1>1, <1>4, <1>5, <1>6, <1>7, <1>8, <1>9, <1>10, <1>11, <1>12, <1>13, <1>14
        DEF Handlers

-----------------------------------------------------------------------------
(* Each operation.                                                         *)

\* How far the pointers may be ahead of the record of the run r.
Near(r) ==
  \A w \in Stores :
    \/ disk.active[w].id = Of(r.snap, w)
    \/ disk.active[w].prev = Of(r.snap, w) /\ Adopting(w, r)

RecordNear ==
  \A m \in {disk.record} : m # NoRecord => Pends(m.run.snap, m.run.pending) /\ Near(m.run)

\* What the operations of the plan q before the k-th have left, in a handler
\* that was given the record m.
StandsAt(q, k, m) ==
  /\ \A i \in 1..(k - 1) : q[i].do \in Recording => disk.record = q[i].to
  /\ (\A i \in 1..(k - 1) : q[i].do \notin Recording) => disk.record = m
  /\ \A i \in 1..(k - 1) : q[i].do = "point" => disk.active[q[i].which] = q[i].to
  /\ (\A j \in 1..Len(q) : ~(q[j].do = "point" /\ q[j].which = "harness")) =>
       \A i \in 1..(k - 1) : q[i].do = "check" => disk.active["harness"].id = q[i].harness

\* What an operation that was not refused does to the record and the pointers.
Touches(op) ==
  /\ disk'.record = IF op.do \in Recording THEN op.to ELSE disk.record
  /\ \A w \in Stores :
       disk'.active[w] = IF op.do = "point" /\ op.which = w THEN op.to ELSE disk.active[w]
  /\ op.do = "check" => disk.active["harness"].id = op.harness

\* More answers leave an adoption an adoption.
LEMMA AdoptingStays ==
  ASSUME disk.answers \subseteq disk'.answers, NEW w, NEW r, Adopting(w, r)
  PROVE  Adopting(w, r)'
  BY DEF Adopting, RequestId

\* The record is written while it is the one the handler was given.
LEMMA FirstWrite ==
  ASSUME NEW q, NEW X, Course(q, X), NEW m, NEW k \in 1..Len(q), StandsAt(q, k, m),
         q[k].do \in Recording
  PROVE  disk.record = m
<1>1. Ordered(q)
  BY DEF Course
<1>2. PICK n \in Nat : n = Len(q)
  <2>1. PICK S : q \in Seq(S)
    BY DEF Course, IsSeq
  <2> QED BY <2>1
<1>3. ASSUME NEW i \in 1..(k - 1) PROVE q[i].do \notin Recording
  <2>1. i \in 1..Len(q) /\ i < k
    BY <1>2
  <2>2. MayFollow(Tag(q[i]), Tag(q[k]))
    BY <1>1, <2>1 DEF Ordered
  <2> QED BY <2>2 DEF MayFollow, Tag, Recording
<1> QED BY <1>3 DEF StandsAt

\* Where the record is moved to, the pointers are.
LEMMA Lands ==
  ASSUME NEW q, NEW X, Course(q, X), NEW m, Aimed(X, m), NEW k \in 1..Len(q),
         StandsAt(q, k, m), RecordNear, NEW op, op = q[k], op.do \in Recording,
         NEW w \in Stores
  PROVE  disk.active[w].id = Of(op.to.run.snap, w)
<1>1. X = {x \in {q[i] : i \in 1..Len(q)} : Moving(x)} /\ Ordered(q)
  BY DEF Course
<1>2. Tag(op) \in Recording
  BY DEF Tag, Recording
<1>3. op \in X
  BY <1>1 DEF Moving, Recording
<1>4. PICK n \in Nat : n = Len(q)
  <2>1. PICK S : q \in Seq(S)
    BY DEF Course, IsSeq
  <2> QED BY <2>1
<1>6. disk.record = m
  BY FirstWrite
<1>7. ASSUME NEW x \in X, Tag(x) \in Stores \cup {"check"}
      PROVE  \E j \in 1..(k - 1) : q[j] = x
  <2>1. PICK j \in 1..Len(q) : q[j] = x
    BY <1>1
  <2>2. Tag(q[k]) \notin Stores \cup {"check"}
    BY <1>2 DEF Recording, Stores
  <2>3. j # k
    BY <1>7, <2>1, <2>2
  <2>4. ~(k < j)
    BY <1>1, <1>2, <1>7, <2>1 DEF Ordered, MayFollow
  <2>5. j \in 1..(k - 1)
    BY <1>4, <2>3, <2>4
  <2> QED BY <2>1, <2>5
<1>8. Reaches(X, w, op.to.run.snap, m)
  BY <1>3 DEF Aimed
<1>9. CASE \E x \in X : x.do = "point" /\ x.which = w /\ x.to.id = Of(op.to.run.snap, w)
  <2>1. PICK x \in X : x.do = "point" /\ x.which = w /\ x.to.id = Of(op.to.run.snap, w)
    BY <1>9
  <2>2. PICK j \in 1..(k - 1) : q[j] = x
    BY <1>7, <2>1 DEF Tag
  <2> QED BY <2>1, <2>2 DEF StandsAt
<1>10. CASE m # NoRecord /\ Of(op.to.run.snap, w) = Of(m.run.snap, w) /\ ~Adopting(w, m.run)
  BY <1>6, <1>10 DEF RecordNear, Near
<1>11. CASE /\ w = "harness" /\ ~Points(X, w)
            /\ \E x \in X : x.do = "check" /\ x.harness = Of(op.to.run.snap, w)
  <2>1. PICK x \in X : x.do = "check" /\ x.harness = Of(op.to.run.snap, w)
    BY <1>11
  <2>2. PICK j \in 1..(k - 1) : q[j] = x
    BY <1>7, <2>1 DEF Tag
  <2>3. \A i \in 1..Len(q) : ~(q[i].do = "point" /\ q[i].which = "harness")
    BY <1>1, <1>11 DEF Points, Moving
  <2> QED BY <1>11, <2>1, <2>2, <2>3 DEF StandsAt
<1> QED BY <1>8, <1>9, <1>10, <1>11 DEF Reaches

\* A pointer moves while the record is the one the handler was given, from
\* where that record wants it.
LEMMA Leaves ==
  ASSUME NEW q, NEW X, Course(q, X), NEW m, Aimed(X, m), NEW k \in 1..Len(q),
         StandsAt(q, k, m), NEW op, op = q[k], op.do = "point"
  PROVE  /\ disk.record = m /\ op.which \in Stores
         /\ m # NoRecord =>
              op.to.prev = Of(m.run.snap, op.which) /\ Adopting(op.which, m.run)
         /\ \A i \in 1..(k - 1) : q[i].do = "point" => q[i].which # op.which
<1>1. X = {x \in {q[i] : i \in 1..Len(q)} : Moving(x)} /\ Ordered(q)
  BY DEF Course
<1>2. op \in X
  BY <1>1 DEF Moving
<1>3. op.which \in Stores /\ Tag(op) = op.which
  BY <1>2 DEF Aimed, Tag
<1>4. PICK n \in Nat : n = Len(q)
  <2>1. PICK S : q \in Seq(S)
    BY DEF Course, IsSeq
  <2> QED BY <2>1
<1>5. ASSUME NEW i \in 1..(k - 1)
      PROVE  /\ q[i].do \notin Recording
             /\ q[i].do = "point" => q[i].which # op.which
  <2>1. i \in 1..Len(q) /\ i < k
    BY <1>4
  <2>2. MayFollow(Tag(q[i]), Tag(op))
    BY <1>1, <2>1 DEF Ordered
  <2>3. q[i].do \in Recording => Tag(q[i]) = q[i].do
    BY DEF Tag, Recording
  <2>4. q[i].do = "point" => Tag(q[i]) = q[i].which
    BY DEF Tag
  <2> QED BY <1>3, <2>2, <2>3, <2>4 DEF MayFollow
<1>6. disk.record = m
  BY <1>5 DEF StandsAt
<1> QED BY <1>2, <1>3, <1>5, <1>6 DEF Aimed

\* An operation of a handler is performed.
LEMMA Worked ==
  ASSUME NEW q, NEW X, Course(q, X), NEW m, Aimed(X, m), NEW k \in 1..Len(q),
         StandsAt(q, k, m), RecordNear, NEW op, op = q[k], Touches(op),
         disk.answers \subseteq disk'.answers
  PROVE  RecordNear' /\ StandsAt(q, k + 1, m)'
<1>1. X = {x \in {q[i] : i \in 1..Len(q)} : Moving(x)} /\ Ordered(q)
  BY DEF Course
<1>2. PICK n \in Nat : n = Len(q)
  <2>1. PICK S : q \in Seq(S)
    BY DEF Course, IsSeq
  <2> QED BY <2>1
<1>3. /\ k \in 1..n /\ 1..((k + 1) - 1) = 1..k
      /\ \A i \in 1..k : i = k \/ i \in 1..(k - 1)
      /\ \A i \in 1..(k - 1) : i \in 1..k /\ i \in 1..Len(q) /\ i < k
      /\ k \in 1..k
  BY <1>2
<1>4. CASE op.do \in Recording
  <2>1. disk'.record = op.to /\ \A w \in Stores : disk'.active[w] = disk.active[w]
    BY <1>4 DEF Touches, Recording
  <2>2. op \in X
    BY <1>1, <1>4 DEF Moving, Recording
  <2>3. Pends(op.to.run.snap, op.to.run.pending)
    BY <1>4, <2>2 DEF Aimed
  <2>4. \A w \in Stores : disk.active[w].id = Of(op.to.run.snap, w)
    BY <1>4, Lands
  <2>5. RecordNear'
    BY <2>1, <2>3, <2>4 DEF RecordNear, Near, Pends, PendingState, Of
  <2>6. ASSUME NEW i \in 1..(k - 1) PROVE q[i].do \notin Recording
    <3>1. MayFollow(Tag(q[i]), Tag(op))
      BY <1>1, <1>3 DEF Ordered
    <3> QED BY <1>4, <3>1 DEF MayFollow, Tag, Recording
  <2>7. \A i \in 1..(k - 1) : q[i].do = "point" => q[i].which \in Stores
    BY <1>1, <1>3 DEF Aimed, Moving
  <2>8. "harness" \in Stores /\ op.do # "point" /\ op.do # "check"
    BY <1>4 DEF Stores, Recording
  <2>9. StandsAt(q, k + 1, m)'
    BY <1>3, <1>4, <2>1, <2>6, <2>7, <2>8 DEF StandsAt
  <2> QED BY <2>5, <2>9
<1>5. CASE op.do = "point"
  <2>1. /\ disk.record = m /\ op.which \in Stores
        /\ m # NoRecord =>
             op.to.prev = Of(m.run.snap, op.which) /\ Adopting(op.which, m.run)
        /\ \A i \in 1..(k - 1) : q[i].do = "point" => q[i].which # op.which
    BY <1>5, Leaves
  <2>2. /\ disk'.record = disk.record /\ disk'.active[op.which] = op.to
        /\ \A w \in Stores : w # op.which => disk'.active[w] = disk.active[w]
    BY <1>5, <2>1 DEF Touches, Recording
  <2>3. RecordNear'
    <3> SUFFICES ASSUME m # NoRecord
                 PROVE  Pends(m.run.snap, m.run.pending) /\ Near(m.run)'
      BY <2>1, <2>2 DEF RecordNear, NoRecord, Pends, PendingState
    <3>1. m # NoRecord /\ disk'.record = m
      BY <2>1, <2>2
    <3>2. PICK r : r = m.run
      OBVIOUS
    <3>3. Pends(m.run.snap, m.run.pending) /\ Near(r)
      BY <2>1, <3>1, <3>2 DEF RecordNear
    <3>4. \A w \in Stores : Adopting(w, r) => Adopting(w, r)'
      BY AdoptingStays
    <3>5. ASSUME NEW w \in Stores
          PROVE  \/ disk'.active[w].id = Of(r.snap, w)
                 \/ disk'.active[w].prev = Of(r.snap, w) /\ Adopting(w, r)'
      BY <2>1, <2>2, <3>1, <3>2, <3>3, <3>4 DEF Near
    <3>6. Near(r)'
      BY <3>5 DEF Near
    <3> QED BY <3>2, <3>3, <3>6
  <2>4. \A i \in 1..(k - 1) : q[i].do = "point" => q[i].which \in Stores
    BY <1>1, <1>3 DEF Aimed, Moving
  <2>5. op.do \notin Recording /\ op.do # "check" /\ "harness" \in Stores
    BY <1>5 DEF Stores, Recording
  <2>6. op.which # "harness" => disk'.active["harness"] = disk.active["harness"]
    BY <2>2, <2>5
  <2>7. StandsAt(q, k + 1, m)'
    BY <1>3, <1>5, <2>1, <2>2, <2>4, <2>5, <2>6 DEF StandsAt
  <2> QED BY <2>3, <2>7
<1>6. CASE op.do \notin Recording /\ op.do # "point"
  <2>1. /\ disk'.record = disk.record /\ \A w \in Stores : disk'.active[w] = disk.active[w]
        /\ op.do = "check" => disk.active["harness"].id = op.harness
    BY <1>6 DEF Touches
  <2>2. RecordNear'
    <3>0. PICK d : d = disk.record
      OBVIOUS
    <3> SUFFICES ASSUME d # NoRecord
                 PROVE  Pends(d.run.snap, d.run.pending) /\ Near(d.run)'
      BY <2>1, <3>0 DEF RecordNear, NoRecord, Pends, PendingState
    <3>1. PICK r : r = d.run
      OBVIOUS
    <3>2. Pends(r.snap, r.pending) /\ Near(r)
      BY <2>1, <3>0, <3>1 DEF RecordNear
    <3>3. \A w \in Stores : Adopting(w, r) => Adopting(w, r)'
      BY AdoptingStays
    <3>4. Near(r)'
      BY <2>1, <3>2, <3>3 DEF Near
    <3> QED BY <3>1, <3>2, <3>4
  <2>3. \A i \in 1..(k - 1) : q[i].do = "point" => q[i].which \in Stores
    BY <1>1, <1>3 DEF Aimed, Moving
  <2>4. "harness" \in Stores
    BY DEF Stores
  <2>5. StandsAt(q, k + 1, m)'
    BY <1>3, <1>6, <2>1, <2>3, <2>4 DEF StandsAt
  <2> QED BY <2>2, <2>5
<1> QED BY <1>4, <1>5, <1>6

\* A handler goes on with another: the record has its snapshot by then.
LEMMA HandsOver ==
  ASSUME NEW q, NEW X, Course(q, X), NEW m, Aimed(X, m), NEW k \in 1..Len(q),
         StandsAt(q, k, m), NEW op, op = q[k], op.do = "reload"
  PROVE  /\ disk.record.run.snap = op.snap /\ disk.record.run.pending = "none"
         /\ Entered(op.job, op.snap.state)
<1>1. X = {x \in {q[i] : i \in 1..Len(q)} : Moving(x)} /\ Ordered(q)
  BY DEF Course
<1>2. op \in X
  BY <1>1 DEF Moving
<1>3. PICK u \in X : /\ u.do = "update" /\ u.to.run.snap = op.snap
                     /\ u.to.run.pending = "none" /\ Entered(op.job, op.snap.state)
  BY <1>2 DEF Aimed
<1>4. PICK j \in 1..Len(q) : q[j] = u
  BY <1>1
<1>5. PICK n \in Nat : n = Len(q)
  <2>1. PICK S : q \in Seq(S)
    BY DEF Course, IsSeq
  <2> QED BY <2>1
<1>6. Tag(op) = "reload" /\ Tag(u) = "update" /\ j # k
  BY <1>3, <1>4 DEF Tag
<1>7. ~(k < j)
  <2>1. k < j => MayFollow(Tag(op), Tag(u))
    BY <1>1, <1>4 DEF Ordered
  <2> QED BY <1>6, <2>1 DEF MayFollow, Recording
<1>8. j \in 1..(k - 1)
  BY <1>5, <1>6, <1>7
<1>9. disk.record = u.to
  BY <1>3, <1>4, <1>8 DEF StandsAt, Recording
<1> QED BY <1>3, <1>9

\* An operation is refused, and the process fails, or does what it says.
LEMMA Touched ==
  ASSUME Shape, NEW c, NEW op, op.do = "point" => op.which \in Stores,
         \/ WriteFile(c, op) \/ Commit(c, op) \/ StoreBundle(c, op)
         \/ MovePointer(c, op) \/ CheckHarness(c, op) \/ Mark(c, op)
         \/ Request(c, op) \/ CreateRun(c, op) \/ UpdateRun(c, op)
         \/ Raise(c, op)
  PROVE  \/ disk' = disk /\ Rests(c, "failed")
         \/ Touches(op) /\ Advances(c)
<1>1. CASE disk' = disk /\ Rests(c, "failed")
  BY <1>1
<1>2. CASE WriteFile(c, op) /\ disk' = [disk EXCEPT !.files = @ \cup {op.path}] /\ Advances(c)
  BY <1>2 DEF Shape, Touches, WriteFile, Recording
<1>3. CASE Commit(c, op) /\ disk' = [disk EXCEPT !.txs = @ \cup {Transaction(c, op)}] /\ Advances(c)
  BY <1>3 DEF Shape, Touches, Commit, Recording
<1>4. CASE StoreBundle(c, op) /\ disk' = [disk EXCEPT !.bundles[op.which] = @ \cup {op.of}] /\ Advances(c)
  BY <1>4 DEF Shape, Touches, StoreBundle, Recording
<1>5. CASE MovePointer(c, op) /\ disk' = [disk EXCEPT !.active[op.which] = op.to,
                                           !.history[op.which] = @ \cup {op.to}] /\ Advances(c)
  <2>1. op.do = "point" /\ op.which \in Stores
    BY <1>5 DEF MovePointer
  <2>2. disk'.record = disk.record
    BY <1>5 DEF Shape
  <2>3. \A w \in Stores : disk'.active[w] = IF op.which = w THEN op.to ELSE disk.active[w]
    BY <1>5, <2>1 DEF Shape
  <2> QED BY <1>5, <2>1, <2>2, <2>3 DEF Touches, Recording
<1>6. CASE CheckHarness(c, op) /\ disk.active.harness.id = op.harness /\ disk' = disk /\ Advances(c)
  BY <1>6 DEF Touches, CheckHarness, Recording
<1>7. CASE Mark(c, op) /\ disk' = [disk EXCEPT !.markers = @ \cup {op.id}] /\ Advances(c)
  BY <1>7 DEF Shape, Touches, Mark, Recording
<1>8. CASE Request(c, op) /\ disk' = [disk EXCEPT !.requests = @ \cup {op.id}] /\ Advances(c)
  BY <1>8 DEF Shape, Touches, Request, Recording
<1>9. CASE /\ CreateRun(c, op) \/ UpdateRun(c, op)
           /\ disk' = [disk EXCEPT !.record = op.to] /\ Advances(c)
  <2>1. op.do \in Recording
    BY <1>9 DEF CreateRun, UpdateRun, Recording
  <2>2. disk'.record = op.to /\ \A w \in Stores : disk'.active[w] = disk.active[w]
    BY <1>9 DEF Shape
  <2>3. op.do # "point" /\ op.do # "check"
    BY <2>1 DEF Recording
  <2> QED BY <1>9, <2>1, <2>2, <2>3 DEF Touches
<1> QED BY <1>1, <1>2, <1>3, <1>4, <1>5, <1>6, <1>7, <1>8, <1>9
        DEF WriteFile, Commit, StoreBundle, MovePointer, CheckHarness, Mark, Request,
            CreateRun, UpdateRun, Raise, Effect

-----------------------------------------------------------------------------
(* Each step of one process.                                               *)

\* What one process has done is what its plan says, and the pointers are near.
AtWork(p) == p.job \in Handlers => Given(p) /\ StandsAt(Plan(p), p.at, p.meta)

OneInv ==
  OneProcess => DOMAIN crew = {1} /\ RecordNear /\ \A p \in {crew[1]} : AtWork(p)

\* Where nothing moves, all of it stays.
LEMMA Undisturbed ==
  ASSUME disk'.record = disk.record, disk'.active = disk.active,
         disk.answers \subseteq disk'.answers, RecordNear
  PROVE  /\ RecordNear'
         /\ \A q, k, m : StandsAt(q, k, m) => StandsAt(q, k, m)'
<1>1. PICK d : d = disk.record
  OBVIOUS
<1>2. ASSUME d # NoRecord PROVE Pends(d.run.snap, d.run.pending) /\ Near(d.run)'
  <2>1. PICK r : r = d.run
    OBVIOUS
  <2>2. Pends(r.snap, r.pending) /\ Near(r)
    BY <1>1, <1>2, <2>1 DEF RecordNear
  <2>3. \A w \in Stores : Adopting(w, r) => Adopting(w, r)'
    BY AdoptingStays
  <2>4. Near(r)'
    BY <2>2, <2>3 DEF Near
  <2> QED BY <2>1, <2>2, <2>4
<1>3. RecordNear'
  BY <1>1, <1>2 DEF RecordNear, NoRecord, Pends, PendingState
<1> QED BY <1>3 DEF StandsAt

\* A process that is in no handler, and one that enters a handler.
LEMMA OutOfWork ==
  ASSUME NEW c \in DOMAIN crew, NEW how, how \notin Handlers, Rests(c, how)
  PROVE  DOMAIN crew' = DOMAIN crew /\ \A p \in {crew'[c]} : AtWork(p)'
<1>1. DOMAIN crew' = DOMAIN crew /\ crew'[c].job = how
  BY DEF Rests, Sets
<1>2. PICK p : p = crew'[c]
  OBVIOUS
<1>3. AtWork(p)'
  BY <1>1, <1>2 DEF AtWork
<1> QED BY <1>1, <1>2, <1>3

LEMMA AtFirst ==
  ASSUME NEW c \in DOMAIN crew, NEW job, NEW meta, NEW snap, Sets(c, job, meta, snap, 1),
         meta = disk'.record,
         Given([job |-> job, meta |-> meta, snap |-> snap, at |-> 1])
  PROVE  DOMAIN crew' = DOMAIN crew /\ \A p \in {crew'[c]} : AtWork(p)'
<1> DEFINE r == [job |-> job, meta |-> meta, snap |-> snap, at |-> 1]
<1>1. DOMAIN crew' = DOMAIN crew /\ crew'[c] = r
  BY DEF Sets
<1>2. PICK p : p = r
  OBVIOUS
<1>3. p.at = 1 /\ p.meta = disk'.record /\ Given(p)
  BY <1>2
<1> HIDE DEF r
<1>4. \A q : StandsAt(q, p.at, p.meta)'
  BY <1>3 DEF StandsAt
<1>5. StandsAt(Plan(p), p.at, p.meta)'
  BY <1>3 DEF StandsAt
<1>6. AtWork(p)'
  BY <1>3, <1>5 DEF AtWork, Given, Pends, PendingState, Entered, NoRecord
<1> QED BY <1>1, <1>2, <1>6

\* A process performs the operation it is at.
LEMMA PerformOne ==
  ASSUME IInv, OneInv, OneProcess, NEW c \in DOMAIN crew, Perform(c), Shape', Grows
  PROVE  DOMAIN crew' = DOMAIN crew /\ RecordNear' /\ \A p \in {crew'[c]} : AtWork(p)'
<1>1. PICK p : p = crew[c]
  OBVIOUS
<1>2. Keeps
  BY PerformKept
<1>3. /\ RecordNear /\ AtWork(p) /\ p.job \in Handlers /\ Busy(p)
      /\ {"job", "meta", "snap", "at"} \subseteq DOMAIN p /\ conf \in Setups
  BY <1>1 DEF OneInv, Perform, IInv, CrewAtWork, CrewShape
<1>4. PICK q : q = Plan(p)
  OBVIOUS
<1>5. PICK m, k : m = p.meta /\ k = p.at
  OBVIOUS
<1>6. /\ Given(p) /\ StandsAt(q, k, m) /\ k \in 1..Len(q)
      /\ p.job # "bootstrap" => Ready(p)
  BY <1>3, <1>4, <1>5 DEF AtWork, Busy
<1>7. PICK X : Course(q, X) /\ Aimed(X, m)
  BY <1>3, <1>4, <1>5, <1>6, PlanSteers DEF Steers
<1>8. PICK op : /\ op = q[k]
                /\ \/ WriteFile(c, op) \/ Commit(c, op) \/ StoreBundle(c, op)
                   \/ MovePointer(c, op) \/ CheckHarness(c, op) \/ Mark(c, op)
                   \/ Request(c, op) \/ CreateRun(c, op) \/ UpdateRun(c, op)
                   \/ Reload(c, op) \/ Raise(c, op)
  BY <1>1, <1>4, <1>5 DEF Perform, NextOp
<1>9. Warranted(op)
  BY <1>1, <1>3, <1>4, <1>5, <1>8, NextIsWarranted
<1>10. disk.answers \subseteq disk'.answers
  BY <1>2 DEF Keeps, Grows
<1>11. CASE Reload(c, op)
  <2>1. op.do = "reload" /\ disk' = disk /\ Sets(c, op.job, disk.record, op.snap, 1)
    BY <1>11 DEF Reload
  <2>2. /\ disk.record.run.snap = op.snap /\ disk.record.run.pending = "none"
        /\ Entered(op.job, op.snap.state)
    BY <1>6, <1>7, <1>8, <2>1, HandsOver
  <2>3. op.job # "bootstrap" /\ op.job # "resume"
    BY <1>9, <2>1 DEF Warranted
  <2>4. PICK d : d = disk.record
    OBVIOUS
  <2>5. Given([job |-> op.job, meta |-> d, snap |-> op.snap, at |-> 1])
    BY <2>2, <2>3, <2>4 DEF Given, Pends
  <2>6. DOMAIN crew' = DOMAIN crew /\ \A r \in {crew'[c]} : AtWork(r)'
    BY <2>1, <2>4, <2>5, AtFirst
  <2>7. RecordNear'
    BY <1>3, <1>10, <2>1, Undisturbed
  <2> QED BY <2>6, <2>7
<1>12. CASE disk' = disk /\ Rests(c, "failed")
  <2>1. "failed" \notin Handlers
    BY DEF Handlers
  <2>2. RecordNear'
    BY <1>3, <1>10, <1>12, Undisturbed
  <2> QED BY <1>12, <2>1, <2>2, OutOfWork
<1>13. CASE Touches(op) /\ Advances(c)
  <2>1. RecordNear' /\ StandsAt(q, k + 1, m)'
    BY <1>3, <1>6, <1>7, <1>8, <1>10, <1>13, Worked
  <2>2. CASE Rests(c, "loop")
    <3>1. "loop" \notin Handlers
      BY DEF Handlers
    <3> QED BY <2>1, <2>2, <3>1, OutOfWork
  <2>3. CASE crew' = [crew EXCEPT ![c].at = @ + 1]
    <3>1. PICK r : r = [p EXCEPT !.at = @ + 1]
      OBVIOUS
    <3>2. /\ r.job = p.job /\ r.meta = m /\ r.snap = p.snap /\ r.at = k + 1
          /\ DOMAIN crew' = DOMAIN crew /\ crew'[c] = r
      BY <1>1, <1>3, <1>5, <2>3, <3>1
    <3>3. p.job # "bootstrap" => Ready(r)
      BY <1>5, <1>6, <3>2 DEF Ready
    <3>4. Plan(r) = q
      BY <1>4, <1>5, <3>2 DEF Plan
    <3>5. Plan(r)' = q
      BY <1>2, <3>2, <3>3, <3>4, PlanStays
    <3>6. Given(r)
      BY <1>5, <1>6, <3>2 DEF Given
    <3>7. StandsAt(Plan(r), r.at, r.meta)'
      BY <2>1, <3>2, <3>5 DEF StandsAt
    <3>8. AtWork(r)'
      BY <3>6, <3>7 DEF AtWork, Given, Pends, PendingState, Entered, NoRecord
    <3> QED BY <2>1, <3>2, <3>8
  <2> QED BY <1>13, <2>2, <2>3 DEF Advances
<1>14. CASE ~Reload(c, op)
  <2>1. op.do = "point" => op.which \in Stores
    BY <1>9 DEF Warranted
  <2> QED BY <1>8, <1>12, <1>13, <1>14, <2>1, Touched DEF IInv, PointerInv
<1> QED BY <1>11, <1>14

\* run() is called, or takes a turn of its loop.
LEMMA StartOne ==
  ASSUME IInv, OneInv, OneProcess, NEW c \in DOMAIN crew, Start(c)
  PROVE  DOMAIN crew' = DOMAIN crew /\ RecordNear' /\ \A p \in {crew'[c]} : AtWork(p)'
<1>1. disk' = disk
  BY DEF Start
<1>2. RecordNear'
  BY <1>1, Undisturbed DEF OneInv
<1>3. CASE disk.record = NoRecord
  <2>1. Given([job |-> "bootstrap", meta |-> NoRecord, snap |-> NoSnapshot, at |-> 1])
    BY DEF Given
  <2>2. Sets(c, "bootstrap", NoRecord, NoSnapshot, 1) /\ NoRecord = disk'.record
    BY <1>1, <1>3 DEF Start
  <2> QED BY <1>2, <2>1, <2>2, AtFirst
<1>4. CASE disk.record # NoRecord
  <2>1. "loop" \notin Handlers
    BY DEF Handlers
  <2> QED BY <1>2, <1>4, <2>1, OutOfWork DEF Start
<1> QED BY <1>3, <1>4

LEMMA DispatchOne ==
  ASSUME IInv, OneInv, OneProcess, NEW c \in DOMAIN crew, Dispatch(c)
  PROVE  DOMAIN crew' = DOMAIN crew /\ RecordNear' /\ \A p \in {crew'[c]} : AtWork(p)'
<1> DEFINE m == disk.record
           job == IF m.run.pending = "none" THEN HandlerOf(m)
                  ELSE IF Answered(m) THEN "resume" ELSE "returned"
<1>1. /\ crew[c].job = "loop" /\ disk' = disk
      /\ IF Ended(m) \/ job \in {"failed", "returned"}
         THEN Rests(c, IF Ended(m) THEN "returned" ELSE job)
         ELSE Sets(c, job, m, m.run.snap, 1)
  BY DEF Dispatch
<1>2. RecordNear'
  BY <1>1, Undisturbed DEF OneInv
<1>3. m # NoRecord
  BY <1>1 DEF IInv, CrewAtWork, Busy
<1>4. Pends(m.run.snap, m.run.pending)
  BY <1>3 DEF OneInv, RecordNear
<1>5. /\ job \in {"failed", "returned"} \/ job # "bootstrap"
      /\ job = "resume" => m.run.pending # "none"
      /\ job \notin {"failed", "returned", "resume"} =>
           m.run.pending = "none" /\ Entered(job, m.run.snap.state)
  BY DEF HandlerOf, Entered
<1> HIDE DEF job
<1>6. CASE Ended(m) \/ job \in {"failed", "returned"}
  <2> DEFINE how == IF Ended(m) THEN "returned" ELSE job
  <2>1. Rests(c, how) /\ how \in {"failed", "returned"}
    BY <1>1, <1>6
  <2> HIDE DEF how
  <2>2. how \notin Handlers
    BY <2>1 DEF Handlers
  <2> QED BY <1>2, <2>1, <2>2, OutOfWork
<1>7. CASE ~(Ended(m) \/ job \in {"failed", "returned"})
  <2>1. PICK d : d = m
    OBVIOUS
  <2>2. Sets(c, job, d, d.run.snap, 1) /\ d = disk'.record
    BY <1>1, <1>7, <2>1
  <2>3. Given([job |-> job, meta |-> d, snap |-> d.run.snap, at |-> 1])
    BY <1>4, <1>5, <1>7, <2>1 DEF Given
  <2> QED BY <1>2, <2>2, <2>3, AtFirst
<1> QED BY <1>6, <1>7

LEMMA CrashOne ==
  ASSUME IInv, OneInv, OneProcess, NEW c \in DOMAIN crew, Crash(c) \/ CrashInWrite(c)
  PROVE  DOMAIN crew' = DOMAIN crew /\ RecordNear' /\ \A p \in {crew'[c]} : AtWork(p)'
<1>1. /\ disk'.answers = disk.answers /\ disk'.record = disk.record
      /\ disk'.active = disk.active /\ Rests(c, "idle")
  BY DEF Crash, CrashInWrite, IInv, PointerInv, Shape
<1>2. "idle" \notin Handlers
  BY DEF Handlers
<1> QED BY <1>1, <1>2, Undisturbed, OutOfWork DEF OneInv

\* Nothing but an answer is added, or nothing at all happens.
LEMMA OthersOne ==
  ASSUME IInv, OneInv, OneProcess, Keeps, crew' = crew,
         disk'.record = disk.record, disk'.active = disk.active
  PROVE  RecordNear' /\ \A p \in {crew'[1]} : AtWork(p)'
<1>1. disk.answers \subseteq disk'.answers
  BY DEF Keeps, Grows
<1>2. RecordNear' /\ \A q, k, m : StandsAt(q, k, m) => StandsAt(q, k, m)'
  BY <1>1, Undisturbed DEF OneInv
<1>3. PICK p : p = crew[1]
  OBVIOUS
<1>4. AtWork(p) /\ Busy(p)
  BY <1>3 DEF OneInv, IInv, CrewAtWork
<1>5. ASSUME p.job \in Handlers PROVE Given(p) /\ StandsAt(Plan(p), p.at, p.meta)'
  <2>1. PICK q : q = Plan(p)
    OBVIOUS
  <2>2. Plan(p)' = q
    BY <1>4, <1>5, <2>1, PlanStays DEF Busy
  <2>3. StandsAt(q, p.at, p.meta)'
    BY <1>2, <1>4, <1>5, <2>1 DEF AtWork
  <2>4. StandsAt(Plan(p), p.at, p.meta)'
    BY <2>2, <2>3 DEF StandsAt
  <2> QED BY <1>4, <1>5, <2>4 DEF AtWork
<1>6. AtWork(p)'
  BY <1>5 DEF AtWork, Given, Pends, PendingState, Entered, NoRecord
<1> QED BY <1>2, <1>3, <1>6

LEMMA OneKept == IInv /\ OneInv /\ [Next]_vars => OneInv'
<1> SUFFICES ASSUME IInv, OneInv, [Next]_vars PROVE OneInv'
  OBVIOUS
<1>1. Shape' /\ Grows
  BY Step DEF IInv, PointerInv
<1>2. OneProcess' => OneProcess
  BY DEF OneProcess, Next, Goes, Start, Dispatch, Perform, Crash, CrashInWrite, Review, vars
<1>3. ASSUME OneProcess
      PROVE  DOMAIN crew' = {1} /\ RecordNear' /\ \A p \in {crew'[1]} : AtWork(p)'
  <2>0. DOMAIN crew = {1}
    BY <1>3 DEF OneInv
  <2>1. CASE UNCHANGED vars
    <3>1. disk' = disk /\ conf' = conf /\ crew' = crew
      BY <2>1 DEF vars
    <3> QED BY <1>3, <2>0, <3>1, DiskKept, OthersOne
  <2>2. ASSUME NEW c \in DOMAIN crew, Goes(c) \/ Crash(c) \/ CrashInWrite(c)
        PROVE  DOMAIN crew' = {1} /\ RecordNear' /\ \A p \in {crew'[1]} : AtWork(p)'
    <3>1. DOMAIN crew' = DOMAIN crew /\ RecordNear' /\ \A p \in {crew'[c]} : AtWork(p)'
      BY <1>1, <1>3, <2>2, PerformOne, DispatchOne, StartOne, CrashOne DEF Goes
    <3>2. c = 1
      BY <2>0
    <3> QED BY <2>0, <3>1, <3>2
  <2>3. ASSUME NEW id \in disk.requests, NEW approved \in BOOLEAN, Review(id, approved)
        PROVE  DOMAIN crew' = {1} /\ RecordNear' /\ \A p \in {crew'[1]} : AtWork(p)'
    <3>1. disk'.record = disk.record /\ disk'.active = disk.active /\ crew' = crew
      BY <2>3 DEF Review, IInv, PointerInv, Shape
    <3>2. Keeps
      BY <1>1, <2>3, ReviewKept
    <3> QED BY <1>3, <2>0, <3>1, <3>2, OthersOne
  <2> QED BY <2>1, <2>2, <2>3 DEF Next
<1> QED BY <1>2, <1>3 DEF OneInv

LEMMA OneInit == Init => OneInv
<1> SUFFICES ASSUME Init, OneProcess PROVE DOMAIN crew = {1} /\ RecordNear /\ \A p \in {crew[1]} : AtWork(p)
  BY DEF OneInv
<1>1. conf.controllers = 1 /\ crew = [c \in 1..conf.controllers |-> Resting]
  BY DEF Init, OneProcess
<1>2. DOMAIN crew = {1} /\ crew[1] = Resting
  BY <1>1
<1>3. AtWork(Resting)
  BY DEF AtWork, Resting, Handlers
<1>4. RecordNear
  BY DEF RecordNear, Init, EmptyDisk
<1> QED BY <1>2, <1>3, <1>4

\* Both pointers only rise, the present one is the best there was, and while
\* one process at a time drives the run a pointer is at most one adoption ahead
\* of the run record and never behind it, through every crash and restart
\* (_run_harness_attempt, _commit_model_promotion, HarnessPointerStore,
\* PeakPointerStore).
THEOREM PointersAreJustified == Spec => []PointersJustified
<1>1. IInv /\ OneInv => PointersJustified
  <2> SUFFICES ASSUME IInv, OneInv PROVE PointersJustified
    OBVIOUS
  <2>1. PointerChain /\ Present
    BY DEF IInv, PointerInv, Tenure, Present, Stores
  <2>2. ASSUME disk.record # NoRecord, OneProcess PROVE AtMostOneAhead
    <3>1. Near(disk.record.run) /\ Pends(disk.record.run.snap, disk.record.run.pending)
      BY <2>2 DEF OneInv, RecordNear
    <3> QED BY <3>1 DEF Near, Adopting, Of, Stores, AtMostOneAhead, Record
  <2> QED BY <2>1, <2>2 DEF PointersJustified
<1>2. Init => IInv /\ OneInv
  BY InvInit, OneInit
<1>3. (IInv /\ OneInv) /\ [Next]_vars => (IInv /\ OneInv)'
  BY InvKept, OneKept
<1> QED BY <1>1, <1>2, <1>3, PTL DEF Spec

-----------------------------------------------------------------------------
(* Where a dataset is reviewed before it trains a model.  First what the   *)
(* policies lead to: the cycle of their last record, and which of them     *)
(* record a trained model or a dataset.                                    *)

\* While the run is in one of these states, its next dataset is yet to come.
Searching == {"FREEZE_MODEL", "MUTATE_HARNESS", "HARNESS_REVIEW_PENDING", "HARVEST_TRACES"}

\* No model is trained in any record of a step.
Untrained(step) == \A k \in DOMAIN step : step[k].snap.state # "EVALUATE_MODEL"

LEMMA UntrainedOne ==
  ASSUME NEW e, e.snap.state # "EVALUATE_MODEL"
  PROVE  Untrained(<< e >>) /\ Final(<< e >>) = e.snap
  BY DEF Untrained, Final

LEMMA UntrainedTwo ==
  ASSUME NEW e, e.snap.state # "EVALUATE_MODEL", NEW f, f.snap.state # "EVALUATE_MODEL"
  PROVE  Untrained(Append(<< e >>, f)) /\ Final(Append(<< e >>, f)) = f.snap
<1>1. << e >> \in Seq({e, f}) /\ Len(<< e >>) = 1 /\ << e >>[1] = e
  OBVIOUS
<1> DEFINE q == Append(<< e >>, f)
<1>2. Len(q) = 2 /\ q[2] = f /\ q[1] = e /\ DOMAIN q = 1..2
  BY <1>1, AppendProperties
<1> HIDE DEF q
<1>3. \A k \in 1..2 : k = 1 \/ k = 2
  OBVIOUS
<1> QED BY <1>2, <1>3 DEF Final, Untrained, q

\* The Harness loop stays in its cycle, and leads to no training.
LEMMA AdvanceIn ==
  ASSUME NEW L, NEW e, e.snap \in Snapshots, e.snap.state # "EVALUATE_MODEL"
  PROVE  LET step == Advance(L, << e >>)
         IN  /\ Untrained(step) /\ Final(step).cycle = e.snap.cycle
             /\ Final(step).state \in {"HARVEST_TRACES", "MUTATE_HARNESS"}
<1> DEFINE s == e.snap
           h == Without(Enter(s, "HARVEST_TRACES"))
           m == [Without(Enter(s, "MUTATE_HARNESS")) EXCEPT !.iteration = @ + 1]
           a == Edge("CONTINUE", "RUN", None, h)
           b == Edge("CONTINUE", "HARNESS", s.harness, m)
<1>1. h.cycle = s.cycle /\ h.state = "HARVEST_TRACES"
  BY DEF Without, Enter, Snapshots
<1>2. m.cycle = s.cycle /\ m.state = "MUTATE_HARNESS"
  BY DEF Without, Enter, Snapshots
<1> HIDE DEF h, m
<1>3. a.snap = h /\ b.snap = m
  BY DEF Edge
<1> HIDE DEF a, b
<1>4. Final(<< e >>) = s
  BY DEF Final
<1> HIDE DEF s
<1>5. Advance(L, << e >>) \in {Append(<< e >>, a), Append(<< e >>, b)}
  BY <1>4 DEF Advance, a, b, h, m
<1> QED BY <1>1, <1>2, <1>3, <1>5, UntrainedTwo DEF s

\* Neither evaluation nor review of a Harness leaves the cycle or trains.
LEMMA EvaluationIn ==
  ASSUME NEW L, NEW s \in Snapshots, NEW score \in Int, NEW cost \in Int
  PROVE  LET step == OuterEvaluation(L, s, score, cost)
         IN  /\ Untrained(step) /\ Final(step).cycle = s.cycle
             /\ Final(step).state # "TRAIN_MODEL"
<1> DEFINE paid == [s EXCEPT !.cost = @ + cost]
           step == OuterEvaluation(L, s, score, cost)
<1>1. paid \in Snapshots /\ paid.cycle = s.cycle
  BY DEF Snapshots
<1> HIDE DEF paid
<1>2. CASE step = OuterAbort(L, s, score, cost)
  <2> DEFINE t == [Enter(s, "ABORTED") EXCEPT !.candScore = score, !.cost = @ + cost,
                                      !.stop = BudgetStop(cost, L.perIteration)]
             e == Edge("ABORT", "HARNESS", s.candHarness, t)
  <2>1. t.cycle = s.cycle /\ t.state = "ABORTED"
    BY DEF Enter, Snapshots
  <2> HIDE DEF t
  <2>2. e.snap = t
    BY DEF Edge
  <2>3. step = << e >>
    BY <1>2 DEF OuterAbort, t
  <2> HIDE DEF e, step
  <2> QED BY <2>1, <2>2, <2>3, UntrainedOne DEF step
<1>3. CASE step = Advance(L, << Reject(paid, score) >>)
  <2>1. LET t == Reject(paid, score).snap
        IN  t \in Snapshots /\ t.state = "REJECT_HARNESS" /\ t.cycle = paid.cycle
    <3>1. Reject(paid, score).snap \in Snapshots /\ Reject(paid, score).snap.state = "REJECT_HARNESS"
      BY <1>1, RejectFields DEF Like
    <3>2. Reject(paid, score).snap.cycle = paid.cycle
      BY <1>1 DEF Reject, Edge, Enter, Snapshots
    <3> QED BY <3>1, <3>2
  <2> QED BY <1>1, <1>3, <2>1, AdvanceIn
<1>4. CASE step = Advance(L, << Accept(paid, score) >>)
  <2>1. LET t == Accept(paid, score).snap
        IN  t \in Snapshots /\ t.state = "ACCEPT_HARNESS" /\ t.cycle = paid.cycle
    <3>1. Accept(paid, score).snap \in Snapshots /\ Accept(paid, score).snap.state = "ACCEPT_HARNESS"
      BY <1>1, AcceptFields
    <3>2. Accept(paid, score).snap.cycle = paid.cycle
      BY <1>1 DEF Accept, Edge, Enter, Snapshots
    <3> QED BY <3>1, <3>2
  <2> QED BY <1>1, <1>4, <2>1, AdvanceIn
<1>5. CASE step = << Edge("REQUEST_APPROVAL", "HARNESS", s.candHarness,
                   [Enter(paid, "HARNESS_REVIEW_PENDING") EXCEPT !.candScore = score]) >>
  <2> DEFINE t == [Enter(paid, "HARNESS_REVIEW_PENDING") EXCEPT !.candScore = score]
             e == Edge("REQUEST_APPROVAL", "HARNESS", s.candHarness, t)
  <2>1. t.cycle = s.cycle /\ t.state = "HARNESS_REVIEW_PENDING"
    BY <1>1 DEF Enter, Snapshots
  <2> HIDE DEF t
  <2>2. e.snap = t
    BY DEF Edge
  <2>3. step = << e >>
    BY <1>5 DEF t
  <2> HIDE DEF e, step
  <2> QED BY <2>1, <2>2, <2>3, UntrainedOne DEF step
<1> QED BY <1>2, <1>3, <1>4, <1>5 DEF OuterEvaluation, paid

LEMMA HarnessReviewIn ==
  ASSUME NEW L, NEW s \in Snapshots, NEW approved
  PROVE  LET step == HarnessReview(L, s, approved)
         IN  /\ Untrained(step) /\ Final(step).cycle = s.cycle
             /\ Final(step).state # "TRAIN_MODEL"
<1>1. s.candScore \in Int
  BY DEF Snapshots
<1>2. PICK score \in Int : score = s.candScore
  BY <1>1
<1> DEFINE a == Accept(s, score)
           r == Reject(s, score)
<1>3. /\ a.snap \in Snapshots /\ a.snap.state = "ACCEPT_HARNESS"
      /\ r.snap \in Snapshots /\ r.snap.state = "REJECT_HARNESS"
  BY AcceptFields, RejectFields DEF Like
<1>4. a.snap.cycle = s.cycle /\ r.snap.cycle = s.cycle
  BY DEF Accept, Reject, Edge, Enter, Snapshots
<1> HIDE DEF a, r
<1>5. HarnessReview(L, s, approved) \in {Advance(L, << a >>), Advance(L, << r >>)}
  BY <1>2 DEF HarnessReview, a, r
<1> QED BY <1>3, <1>4, <1>5, AdvanceIn

\* Mutation and validation train nothing.
LEMMA PreparedIn ==
  ASSUME NEW s \in Snapshots, NEW candidate \in Int, NEW L
  PROVE  LET created == CandidateCreated(s, candidate)
             validated == ValidationCompleted(L, Final(created), TRUE)
         IN  /\ Untrained(created) /\ Untrained(validated)
             /\ Final(validated).cycle = s.cycle
<1> DEFINE a == [Enter(s, "VALIDATE_HARNESS") EXCEPT !.candHarness = candidate, !.candScore = None]
           b == [Enter(a, "EVALUATE_HARNESS") EXCEPT !.candScore = None]
<1>1. a \in Snapshots /\ a.cycle = s.cycle /\ a.state = "VALIDATE_HARNESS"
  <2> DEFINE t == Enter(s, "VALIDATE_HARNESS")
  <2>1. t \in Snapshots /\ t.state = "VALIDATE_HARNESS" /\ t.cycle = s.cycle
    <3>1. t \in Snapshots /\ t.state = "VALIDATE_HARNESS"
      BY EnterFields DEF States, Like
    <3>2. t.cycle = s.cycle
      BY DEF Enter, Snapshots
    <3> QED BY <3>1, <3>2
  <2> HIDE DEF t
  <2> QED BY <2>1, NoneType DEF Snapshots, t
<1> HIDE DEF a
<1>2. b.cycle = s.cycle /\ b.state = "EVALUATE_HARNESS"
  BY <1>1 DEF Enter, Snapshots
<1> HIDE DEF b
<1> DEFINE e == Edge("CONTINUE", "HARNESS", candidate, a)
           f == Edge("CONTINUE", "HARNESS", a.candHarness, b)
<1>3. e.snap = a /\ f.snap = b
  BY DEF Edge
<1>4. CandidateCreated(s, candidate) = << e >>
  BY DEF CandidateCreated, a
<1>5. ValidationCompleted(L, a, TRUE) = << f >>
  BY DEF ValidationCompleted, b
<1> HIDE DEF e, f
<1>6. /\ Untrained(<< e >>) /\ Final(<< e >>) = a
      /\ Untrained(<< f >>) /\ Final(<< f >>) = b
  BY <1>1, <1>2, <1>3, UntrainedOne
<1> QED BY <1>2, <1>4, <1>5, <1>6

\* A batch stays in its cycle and its iteration, and is numbered by both.
LEMMA HarvestIn ==
  ASSUME NEW T, NEW s \in Snapshots, NEW batch \in Int, NEW cost \in Int
  PROVE  LET step == BatchHarvested(T, s, batch, cost)
         IN  /\ Untrained(step) /\ Final(step).cycle = s.cycle
             /\ Final(step).iteration = s.iteration
             /\ Final(step).meta.batch = batch
<1> DEFINE stop == BudgetStop(cost, T.perBatch)
           ma == [NoMeta EXCEPT !.batch = batch]
           mv == [NoMeta EXCEPT !.verified = s.meta.verified,
                                !.batches = s.meta.batches + 1, !.batch = batch]
<1>1. ma \in Metas /\ mv \in Metas /\ ma.batch = batch /\ mv.batch = batch
  <2>1. s.meta.verified \in Int /\ s.meta.batches + 1 \in Int
    BY DEF Snapshots, Metas
  <2> QED BY <2>1, NoMetaType DEF Metas
<1> HIDE DEF ma, mv, stop
<1> DEFINE a == [Reach(s, "ABORTED", stop, ma) EXCEPT !.cost = @ + cost]
           v == [Reach(s, "VERIFY_TRACES", "NONE", mv) EXCEPT !.cost = @ + cost]
<1>2. /\ a.cycle = s.cycle /\ a.iteration = s.iteration /\ a.state = "ABORTED" /\ a.meta.batch = batch
      /\ v.cycle = s.cycle /\ v.iteration = s.iteration /\ v.state = "VERIFY_TRACES" /\ v.meta.batch = batch
  BY <1>1 DEF Reach, Snapshots, Metas
<1> HIDE DEF a, v
<1> DEFINE e == Edge("ABORT", "TRACE_BATCH", batch, a)
           f == Edge("CONTINUE", "TRACE_BATCH", batch, v)
<1>3. e.snap = a /\ f.snap = v
  BY DEF Edge
<1>4. BatchHarvested(T, s, batch, cost) \in {<< e >>, << f >>}
  BY DEF BatchHarvested, TraceAbort, a, v, stop, ma, mv
<1> HIDE DEF e, f
<1> QED BY <1>2, <1>3, <1>4, UntrainedOne

\* A dataset is trained on in the cycle and the iteration of its batch, and has
\* the batch's number.
LEMMA VerificationIn ==
  ASSUME NEW T, NEW s \in Snapshots, NEW accepted \in Int, NEW raw \in Int
  PROVE  LET step == VerificationCompleted(T, s, accepted, raw)
         IN  /\ Untrained(step) /\ Final(step).cycle = s.cycle
             /\ Final(step).state = "TRAIN_MODEL" =>
                  Final(step).iteration = s.iteration /\ Final(step).meta.dataset = s.meta.batch
<1> DEFINE meta == VerifiedMeta(s, accepted)
           step == VerificationCompleted(T, s, accepted, raw)
<1>1. meta \in Metas /\ meta.dataset = s.meta.batch
  <2>1. /\ s.meta.verified + accepted \in Int /\ s.meta.batches \in Int
        /\ s.meta.batch \in Int
    BY DEF Snapshots, Metas
  <2> QED BY <2>1, NoMetaType DEF Metas, VerifiedMeta
<1> HIDE DEF meta
<1>2. ASSUME NEW t \in Snapshots, NEW m \in Metas
      PROVE  /\ NextBatch(t, m).cycle = t.cycle /\ NextBatch(t, m).state = "HARVEST_TRACES"
             /\ BatchLimit(t, m).snap.cycle = t.cycle /\ BatchLimit(t, m).snap.state = "STOPPED"
  BY DEF NextBatch, BatchLimit, Reach, Edge, Snapshots
<1>3. ASSUME NEW on, step = AfterQuarantine(T, << Edge("QUARANTINE", on, s.meta.batch,
                                                       Reach(s, "QUARANTINED", "NONE", meta)) >>)
      PROVE  Untrained(step) /\ Final(step).cycle = s.cycle /\ Final(step).state # "TRAIN_MODEL"
  <2> DEFINE q == Reach(s, "QUARANTINED", "NONE", meta)
             e == Edge("QUARANTINE", on, s.meta.batch, q)
             l == BatchLimit(q, q.meta)
             n == Edge("CONTINUE", "RUN", None, NextBatch(q, q.meta))
  <2>1. q \in Snapshots /\ q.state = "QUARANTINED"
    BY <1>1, ReachFields DEF States, Stops, Like
  <2>2. q.cycle = s.cycle
    BY DEF Reach, Snapshots
  <2>3. e.snap = q
    BY DEF Edge
  <2> HIDE DEF q
  <2>4. q.meta \in Metas
    BY <2>1 DEF Snapshots
  <2>5. n.snap = NextBatch(q, q.meta)
    BY DEF Edge
  <2> HIDE DEF e
  <2>6. Final(<< e >>) = q
    BY <2>3 DEF Final
  <2>7. step \in {Append(<< e >>, l), Append(<< e >>, n)}
    BY <1>3, <2>6 DEF AfterQuarantine, e, q
  <2>8. /\ l.snap.cycle = s.cycle /\ l.snap.state = "STOPPED"
        /\ n.snap.cycle = s.cycle /\ n.snap.state = "HARVEST_TRACES"
    BY <1>2, <2>1, <2>2, <2>4, <2>5
  <2> HIDE DEF step, l, n
  <2> QED BY <2>1, <2>3, <2>7, <2>8, UntrainedTwo
<1> DEFINE r == Reach(s, "TRAIN_MODEL", "NONE", meta)
           tm == Edge("CONTINUE", "DATASET", meta.dataset, r)
           nb == Edge("CONTINUE", "DATASET", meta.dataset, NextBatch(s, meta))
           bl == BatchLimit(s, meta)
<1>4. /\ r.cycle = s.cycle /\ r.state = "TRAIN_MODEL" /\ r.iteration = s.iteration
      /\ r.meta.dataset = s.meta.batch
  BY <1>1 DEF Reach, Snapshots, Metas
<1>5. tm.snap = r /\ nb.snap = NextBatch(s, meta)
  BY DEF Edge
<1>6. /\ nb.snap.cycle = s.cycle /\ nb.snap.state = "HARVEST_TRACES"
      /\ bl.snap.cycle = s.cycle /\ bl.snap.state = "STOPPED"
  BY <1>1, <1>2, <1>5
<1> HIDE DEF r, tm, nb, bl
<1>7. CASE step \in {<< tm >>, << nb >>, << bl >>}
  BY <1>4, <1>5, <1>6, <1>7, UntrainedOne
<1> HIDE DEF step
<1>8. step \in {<< tm >>, << nb >>, << bl >>}
      \/ \E on : step = AfterQuarantine(T, << Edge("QUARANTINE", on, s.meta.batch,
                                                   Reach(s, "QUARANTINED", "NONE", meta)) >>)
  BY DEF VerificationCompleted, step, meta, tm, nb, bl, r
<1> QED BY <1>3, <1>7, <1>8 DEF step

\* A model that is trained was trained on the dataset of the snapshot.
LEMMA TrainingIn ==
  ASSUME NEW M, NEW s \in Snapshots, NEW ckpt \in Int, NEW cost \in Int
  PROVE  LET step == TrainingCompleted(M, s, ckpt, cost)
         IN  /\ \A k \in DOMAIN step : step[k].snap.meta.dataset = s.meta.dataset
             /\ Final(step).cycle = s.cycle
<1> DEFINE m == [NoMeta EXCEPT !.dataset = s.meta.dataset, !.modelScore = s.meta.modelScore]
           u == [Turn(s, "EVALUATE_MODEL", ckpt, None, m) EXCEPT !.cost = @ + cost]
           stop == BudgetStop(cost, M.perStage)
           a == [Turn(s, "ABORTED", ckpt, s.candScore, s.meta)
                   EXCEPT !.cost = @ + cost, !.stop = stop]
<1>1. m.dataset = s.meta.dataset
  BY NoMetaType DEF Metas
<1> HIDE DEF m, stop
<1>2. /\ u.cycle = s.cycle /\ u.meta = m
      /\ a.cycle = s.cycle /\ a.meta = s.meta
  BY DEF Turn, Snapshots
<1> HIDE DEF u, a
<1> DEFINE e == Edge("CONTINUE", "CHECKPOINT", ckpt, u)
           f == Edge("ABORT", "CHECKPOINT", ckpt, a)
<1>3. e.snap = u /\ f.snap = a
  BY DEF Edge
<1>4. TrainingCompleted(M, s, ckpt, cost) \in {<< e >>, << f >>}
  BY DEF TrainingCompleted, ModelAbort, u, m, a, stop
<1> HIDE DEF e, f
<1>5. \A x : /\ \A k \in DOMAIN << x >> : << x >>[k] = x
             /\ Final(<< x >>) = x.snap
  BY DEF Final
<1> QED BY <1>1, <1>2, <1>3, <1>4, <1>5

\* What is decided on a candidate model trains nothing more, in this cycle.
LEMMA DecisionIn ==
  ASSUME NEW s \in Snapshots, NEW score \in Int
  PROVE  \A step \in {PromotionDecision(s, score), RollbackDecision(s, score)} :
           /\ Untrained(step) /\ Final(step).cycle = s.cycle
           /\ Final(step).state \in {"PROMOTE_MODEL", "ROLLBACK_MODEL"}
<1> DEFINE p == Turn(s, "PROMOTE_MODEL", s.candCkpt, score, s.meta)
           r == Turn(s, "ROLLBACK_MODEL", s.candCkpt, score, s.meta)
           e == Edge("PROMOTE", "CHECKPOINT", s.candCkpt, p)
           f == Edge("ROLLBACK", "CHECKPOINT", s.candCkpt, r)
<1>1. /\ p.cycle = s.cycle /\ p.state = "PROMOTE_MODEL"
      /\ r.cycle = s.cycle /\ r.state = "ROLLBACK_MODEL"
  BY DEF Turn, Snapshots
<1>2. e.snap = p /\ f.snap = r
  BY DEF Edge
<1>3. PromotionDecision(s, score) = << e >> /\ RollbackDecision(s, score) = << f >>
  BY DEF PromotionDecision, RollbackDecision
<1> HIDE DEF p, r, e, f
<1> QED BY <1>1, <1>2, <1>3, UntrainedOne

\* The evaluation of a model ends the search and the training of its cycle.
LEMMA ModelEvaluationIn ==
  ASSUME NEW M, NEW s \in Snapshots, NEW score \in Int, NEW cost \in Int
  PROVE  LET step == ModelEvaluation(M, s, score, cost)
         IN  /\ Untrained(step) /\ Final(step).cycle = s.cycle
             /\ Final(step).state \notin Searching \cup {"TRAIN_MODEL"}
<1> DEFINE paid == [s EXCEPT !.cost = @ + cost]
           t == Turn(paid, "MODEL_REVIEW_PENDING", s.candCkpt, score, s.meta)
           stop == BudgetStop(cost, M.perStage)
           a == [Turn(s, "ABORTED", s.candCkpt, s.candScore, s.meta)
                   EXCEPT !.cost = @ + cost, !.stop = stop]
           e == Edge("REQUEST_APPROVAL", "CHECKPOINT", s.candCkpt, t)
           f == Edge("ABORT", "CHECKPOINT", s.candCkpt, a)
           step == ModelEvaluation(M, s, score, cost)
<1>1. paid \in Snapshots /\ paid.cycle = s.cycle
  BY DEF Snapshots
<1> HIDE DEF paid, stop
<1>2. /\ t.cycle = s.cycle /\ t.state = "MODEL_REVIEW_PENDING"
      /\ a.cycle = s.cycle /\ a.state = "ABORTED"
  BY <1>1 DEF Turn, Snapshots
<1> HIDE DEF t, a
<1>3. e.snap = t /\ f.snap = a
  BY DEF Edge
<1> HIDE DEF e, f
<1>4. step \in {<< e >>, << f >>, RollbackDecision(paid, score), PromotionDecision(paid, score)}
  BY DEF ModelEvaluation, ModelAbort, paid, t, a, stop, e, f
<1> HIDE DEF step
<1>5. CASE step \in {<< e >>, << f >>}
  BY <1>2, <1>3, <1>5, UntrainedOne DEF Searching, step
<1>6. CASE step \in {RollbackDecision(paid, score), PromotionDecision(paid, score)}
  BY <1>1, <1>6, DecisionIn DEF Searching, step
<1> QED BY <1>4, <1>5, <1>6

LEMMA ModelReviewIn ==
  ASSUME NEW s \in Snapshots, NEW approved
  PROVE  LET step == ModelReview(s, approved)
         IN  /\ Untrained(step) /\ Final(step).cycle = s.cycle
             /\ Final(step).state \notin Searching \cup {"TRAIN_MODEL"}
<1>1. s.candScore \in Int
  BY DEF Snapshots
<1> QED BY <1>1, DecisionIn DEF ModelReview, Searching

\* The swap of the model, and what the controller itself decides: a next cycle
\* begins with the search.
LEMMA PromotionIn ==
  ASSUME NEW s \in Snapshots
  PROVE  LET step == PromotionCommitted(s)
         IN  /\ Untrained(step) /\ Final(step).cycle = s.cycle
             /\ Final(step).state = "SLIM_HARNESS"
<1> DEFINE m == [s.meta EXCEPT !.modelScore = s.candScore]
           u == [Turn(s, "SLIM_HARNESS", None, None, m)
                   EXCEPT !.ckpt = s.candCkpt, !.peak = s.candCkpt]
           e == Edge("CONTINUE", "CHECKPOINT", s.candCkpt, u)
<1> HIDE DEF m
<1>1. u.cycle = s.cycle /\ u.state = "SLIM_HARNESS"
  BY DEF Turn, Snapshots
<1> HIDE DEF u
<1>2. e.snap = u
  BY DEF Edge
<1>3. PromotionCommitted(s) = << e >>
  BY DEF PromotionCommitted, u, m
<1> HIDE DEF e
<1> QED BY <1>1, <1>2, <1>3, UntrainedOne

\* A cycle is completed, begun or ended: what its last record says.
LEMMA RollbackIn ==
  ASSUME NEW s \in Snapshots
  PROVE  LET step == Loops!RollbackStep(s)
         IN  /\ Untrained(step) /\ Final(step).cycle = s.cycle + 1
             /\ Final(step).state = "FREEZE_MODEL"
<1> DEFINE u == [Turn(s, "FREEZE_MODEL", None, None, s.meta)
                   EXCEPT !.cycle = @ + 1, !.iteration = 0]
           e == Edge("CONTINUE", "CHECKPOINT", s.ckpt, u)
           x == [e EXCEPT !.snap.iteration = s.iteration]
<1>1. u.cycle = s.cycle + 1 /\ u.state = "FREEZE_MODEL" /\ {"cycle", "state", "iteration"} \subseteq DOMAIN u
  BY DEF Turn, Snapshots
<1> HIDE DEF u
<1>2. x.snap = [u EXCEPT !.iteration = s.iteration]
  BY DEF Edge
<1>3. x.snap.cycle = s.cycle + 1 /\ x.snap.state = "FREEZE_MODEL"
  <2> HIDE DEF x
  <2> QED BY <1>1, <1>2
<1>4. Loops!RollbackStep(s) = << x >>
  BY OneVocabulary DEF Loops!RollbackStep, RollbackCommitted, u
<1> HIDE DEF x
<1> QED BY <1>3, <1>4, UntrainedOne

LEMMA SlimIn ==
  ASSUME NEW c, NEW s \in Snapshots, NEW r
  PROVE  LET step == Loops!SlimStep(c, r, s)
         IN  /\ Untrained(step) /\ Final(step).cycle = s.cycle + 1
             /\ Final(step).state = "FREEZE_MODEL"
<1> DEFINE n == [NoSnapshot EXCEPT !.state = "FREEZE_MODEL", !.cycle = s.cycle + 1,
                             !.ckpt = s.ckpt, !.peak = s.ckpt,
                             !.harness = Slim(s.cycle),
                             !.score = Loops!SlimScore(c, s), !.cost = s.cost,
                             !.meta.modelScore = r.modelScore]
           e == Edge("ACCEPT", "HARNESS", Slim(s.cycle), n)
<1>1. n.cycle = s.cycle + 1 /\ n.state = "FREEZE_MODEL"
  BY NoSnapshotType DEF Snapshots
<1>2. Loops!SlimStep(c, r, s) = << e >>
  BY OneVocabulary DEF Loops!SlimStep
<1> HIDE DEF n
<1>3. e.snap = n
  BY DEF Edge
<1> HIDE DEF e
<1> QED BY <1>1, <1>2, <1>3, UntrainedOne

LEMMA BeginIn ==
  ASSUME NEW s \in Snapshots, NEW r
  PROVE  LET step == Loops!BeginStep(r, s)
         IN  /\ Untrained(step) /\ Final(step).cycle = s.cycle
             /\ Final(step).state = "MUTATE_HARNESS"
<1> DEFINE n == [NoSnapshot EXCEPT !.state = "MUTATE_HARNESS", !.cycle = s.cycle,
                             !.iteration = 1, !.ckpt = s.ckpt, !.peak = s.ckpt,
                             !.harness = s.harness, !.score = s.score,
                             !.cost = s.cost, !.meta.modelScore = r.modelScore]
           e == Edge("CONTINUE", "RUN", None, n)
<1>1. n.cycle = s.cycle /\ n.state = "MUTATE_HARNESS"
  BY NoSnapshotType DEF Snapshots
<1>2. Loops!BeginStep(r, s) = << e >>
  BY OneVocabulary DEF Loops!BeginStep
<1> HIDE DEF n
<1>3. e.snap = n
  BY DEF Edge
<1> HIDE DEF e
<1> QED BY <1>1, <1>2, <1>3, UntrainedOne

LEMMA StopIn ==
  ASSUME NEW s \in Snapshots, NEW r
  PROVE  LET step == Loops!StopStep(r, s)
         IN  /\ Untrained(step) /\ Final(step).cycle = s.cycle
             /\ Final(step).state = "STOPPED"
<1> DEFINE n == [NoSnapshot EXCEPT !.state = "STOPPED", !.cycle = s.cycle,
                             !.iteration = s.iteration, !.ckpt = s.ckpt,
                             !.peak = s.ckpt, !.harness = s.harness,
                             !.score = s.score, !.plateau = s.plateau,
                             !.cost = s.cost, !.stop = "CYCLE_LIMIT",
                             !.meta.modelScore = r.modelScore]
           e == Edge("STOP", "RUN", None, n)
<1>1. n.cycle = s.cycle /\ n.state = "STOPPED"
  BY NoSnapshotType DEF Snapshots
<1>2. Loops!StopStep(r, s) = << e >>
  BY OneVocabulary DEF Loops!StopStep
<1> HIDE DEF n
<1>3. e.snap = n
  BY DEF Edge
<1> HIDE DEF e
<1> QED BY <1>1, <1>2, <1>3, UntrainedOne

\* A dataset that was reviewed is trained on only when it was approved.
LEMMA DatasetReviewedIn ==
  ASSUME NEW s \in Snapshots, NEW approved
  PROVE  LET step == Loops!DatasetReviewed(s, approved)
         IN  /\ Untrained(step) /\ Final(step).cycle = s.cycle
             /\ Final(step).state \in {"TRAIN_MODEL", "STOPPED"}
             /\ Final(step).state = "TRAIN_MODEL" =>
                  approved /\ Final(step).meta.dataset = s.meta.dataset
<1> DEFINE answer == IF approved THEN "GRANTED" ELSE "DENIED"
           state == IF approved THEN "TRAIN_MODEL" ELSE "STOPPED"
           stop == IF approved THEN "NONE" ELSE "APPROVAL_NOT_GRANTED"
           action == IF approved THEN "ACCEPT" ELSE "REJECT"
           t == [s EXCEPT !.state = state, !.stop = stop, !.meta.review = answer]
           e == Edge(action, "DATASET", s.meta.dataset, t)
<1>1. state \in {"TRAIN_MODEL", "STOPPED"} /\ (state = "TRAIN_MODEL" => approved)
  OBVIOUS
<1> HIDE DEF answer, state, stop, action
<1>2. t.state = state /\ t.cycle = s.cycle /\ t.meta.dataset = s.meta.dataset
  BY DEF Snapshots, Metas
<1> HIDE DEF t
<1>3. e.snap = t
  BY DEF Edge
<1>4. Loops!DatasetReviewed(s, approved) = << e >>
  BY OneVocabulary DEF Loops!DatasetReviewed, answer, state, stop, action, t
<1> HIDE DEF e
<1> QED BY <1>1, <1>2, <1>3, <1>4, UntrainedOne

\* The input of the model policy is of the same cycle and dataset.
LEMMA InputIn ==
  ASSUME NEW s \in Snapshots, NEW r
  PROVE  LET t == Loops!PolicyInput(r, s)
         IN  t.cycle = s.cycle /\ t.meta.dataset = s.meta.dataset
  BY DEF Loops!PolicyInput, Snapshots, Metas

\* The snapshot of a dataset review.
LEMMA ReviewIn ==
  ASSUME NEW s \in Snapshots
  PROVE  LET t == Loops!DatasetReviewSnapshot(s)
         IN  /\ t.state = "DATA_REVIEW_PENDING" /\ t.cycle = s.cycle
             /\ t.iteration = s.iteration /\ t.meta.dataset = s.meta.dataset
  BY DEF Loops!DatasetReviewSnapshot, Snapshots, Metas

\* The snapshots of the bootstrap.
LEMMA StartIn ==
  ASSUME NEW score
  PROVE  LET step == OuterStart(1, 0, 0, score, 0)
         IN  /\ Untrained(step) /\ Final(step).state = "MUTATE_HARNESS" /\ Final(step).cycle = 1
             /\ step[1].snap.state = "FREEZE_MODEL" /\ "state" \in DOMAIN step[1].snap
<1> DEFINE f == [NoSnapshot EXCEPT !.state = "FREEZE_MODEL", !.cycle = 1,
                                   !.ckpt = 0, !.peak = 0,
                                   !.harness = 0, !.score = score, !.cost = 0]
           n == [Enter(f, "MUTATE_HARNESS") EXCEPT !.iteration = 1]
           a == Edge("CONTINUE", "CHECKPOINT", 0, f)
           b == Edge("CONTINUE", "HARNESS", 0, n)
<1>1. f.state = "FREEZE_MODEL" /\ f.cycle = 1 /\ {"state", "cycle"} \subseteq DOMAIN f
  BY NoSnapshotType DEF Snapshots
<1> HIDE DEF f
<1>2. n.state = "MUTATE_HARNESS" /\ n.cycle = 1
  BY <1>1 DEF Enter
<1> HIDE DEF n
<1>3. a.snap = f /\ b.snap = n
  BY DEF Edge
<1>4. OuterStart(1, 0, 0, score, 0) = << a, b >>
  BY DEF OuterStart, f, n
<1> HIDE DEF a, b
<1> DEFINE q == << a, b >>
<1>5. q[1] = a /\ q[2] = b /\ Len(q) = 2 /\ DOMAIN q = 1..2
  OBVIOUS
<1> HIDE DEF q
<1>6. \A k \in 1..2 : k = 1 \/ k = 2
  OBVIOUS
<1>7. Untrained(q) /\ Final(q) = n /\ q[1].snap = f
  BY <1>1, <1>2, <1>3, <1>5, <1>6 DEF Untrained, Final
<1> QED BY <1>1, <1>2, <1>4, <1>7 DEF q

-----------------------------------------------------------------------------

Counted(m) == m.rev \in Int /\ m.cycle \in Int /\ m.run.completed \in Int

\* Where a handler may move the record: cycles do not fall back, the search
\* is entered again only in a later cycle, and the training only from the batch
\* that hands over to the review, or with a grant.
Leads(s, t, job) ==
  /\ t.cycle >= s.cycle
  /\ t.state \in Searching => s.state \in Searching \/ t.cycle > s.cycle
  /\ t.state = "TRAIN_MODEL" => job = "batch" \/ Granted("dataset", t.meta.dataset)

\* The label of the evidence that a dataset review was requested.
Asking == "dataset-review-requested"

\* What an operation of any handler but the dataset review may do, given m.
Tame(op, m, job) ==
  /\ op.do = "commit" =>
       /\ op.name[1] # Asking
       /\ \A k \in DOMAIN op.edges : op.edges[k].snap.state = "EVALUATE_MODEL" =>
            job = "model" /\ op.edges[k].snap.meta.dataset = m.run.snap.meta.dataset
  /\ op.do = "update" => /\ job # "bootstrap" /\ Leads(m.run.snap, op.to.run.snap, job)
                         /\ Counted(m) => Counted(op.to)
  /\ op.do = "create" => op.to = FirstRecord
  /\ op.do = "reload" /\ op.job = "dataset-review" => job = "batch"

Tames(q, m, job) == IsSeq(q) /\ \A i \in 1..Len(q) : Tame(q[i], m, job)

\* Tame plans are put together from tame parts.
LEMMA TameJoin ==
  ASSUME NEW m, NEW job, NEW a, Tames(a, m, job), NEW b, Tames(b, m, job)
  PROVE  Tames(a \o b, m, job)
<1>1. PICK S, T : a \in Seq(S) /\ b \in Seq(T)
  BY DEF Tames, IsSeq
<1>2. a \in Seq(S \cup T) /\ b \in Seq(S \cup T)
  BY <1>1
<1> DEFINE q == a \o b
<1>3. PICK x \in Nat, y \in Nat : x = Len(a) /\ y = Len(b)
  BY <1>1
<1>4. /\ q \in Seq(S \cup T) /\ Len(q) = x + y
      /\ \A i \in 1..(x + y) : q[i] = IF i <= x THEN a[i] ELSE b[i - x]
  BY <1>2, <1>3, ConcatProperties
<1> HIDE DEF q
<1>5. ASSUME NEW i \in 1..Len(q) PROVE Tame(q[i], m, job)
  <2>1. CASE i <= x
    <3>1. i \in 1..x /\ q[i] = a[i]
      BY <1>4, <2>1
    <3> QED BY <1>3, <3>1 DEF Tames
  <2>2. CASE ~(i <= x)
    <3>1. i - x \in 1..y /\ q[i] = b[i - x]
      BY <1>4, <2>2
    <3> QED BY <1>3, <3>1 DEF Tames
  <2> QED BY <2>1, <2>2
<1> QED BY <1>4, <1>5 DEF Tames, IsSeq, q

LEMMA TameNone == ASSUME NEW m, NEW job PROVE Tames(<<>>, m, job)
<1>1. <<>> \in Seq({}) /\ Len(<<>>) = 0
  OBVIOUS
<1> QED BY <1>1 DEF Tames, IsSeq

LEMMA TameOne ==
  ASSUME NEW m, NEW job, NEW op, Tame(op, m, job) PROVE Tames(<< op >>, m, job)
<1> DEFINE q == << op >>
<1>1. q \in Seq({op}) /\ Len(q) = 1 /\ q[1] = op
  OBVIOUS
<1> HIDE DEF q
<1>2. \A i \in 1..Len(q) : q[i] = op
  BY <1>1
<1> QED BY <1>1, <1>2 DEF Tames, IsSeq, q

\* Files, bundles, pointers and the others are tame.
LEMMA TameOther ==
  ASSUME NEW m, NEW job, NEW op, op.do \notin {"commit", "update", "create", "reload"}
  PROVE  Tames(<< op >>, m, job)
  BY TameOne DEF Tame

LEMMA TameFile == ASSUME NEW m, NEW job, NEW kind, NEW id PROVE Tames(File(kind, id), m, job)
  BY TameOther DEF File

LEMMA TameAdopt == ASSUME NEW m, NEW job, NEW which, NEW p PROVE Tames(Adopt(which, p), m, job)
<1> DEFINE a == [do |-> "bundle", which |-> which,
                 of |-> [id |-> p.id, order |-> p.order, score |-> p.score, by |-> p.by]]
           b == [do |-> "point", which |-> which, to |-> p]
<1>1. Tame(a, m, job) /\ Tame(b, m, job)
  BY DEF Tame
<1>2. Adopt(which, p) = << a, b >>
  BY DEF Adopt
<1> HIDE DEF a, b
<1> DEFINE q == << a, b >>
<1>3. q \in Seq({a, b}) /\ Len(q) = 2 /\ q[1] = a /\ q[2] = b
  OBVIOUS
<1> HIDE DEF q
<1>4. \A i \in 1..Len(q) : q[i] \in {a, b}
  BY <1>3
<1>5. Tames(q, m, job)
  BY <1>1, <1>3, <1>4 DEF Tames, IsSeq
<1> QED BY <1>2, <1>5 DEF q

\* Transactions, by the records in them.
LEMMA TameCommits ==
  ASSUME NEW m, NEW job, NEW label, label # Asking, NEW subject, NEW at, NEW reads, NEW step,
         \A k \in DOMAIN step : step[k].snap.state = "EVALUATE_MODEL" =>
           job = "model" /\ step[k].snap.meta.dataset = m.run.snap.meta.dataset
  PROVE  Tames(Commits(label, subject, at, step, reads), m, job)
<1> DEFINE first == {k \in DOMAIN step : step[k].snap.iteration = at}
           other == DOMAIN step \ first
           Tx(iter, group) ==
             [do |-> "commit", name |-> <<label, iter, subject>>,
              edges |-> [k \in group |-> step[k]],
              evidenceAt |-> at, reads |-> reads]
           a == << Tx(at, first) >>
           b == << Tx(Final(step).iteration, other) >>
           c == IF other = {} THEN <<>> ELSE b
<1>1. Commits(label, subject, at, step, reads) = a \o c
  BY DEF Commits
<1>2. ASSUME NEW iter, NEW group, group \subseteq DOMAIN step
      PROVE  Tame(Tx(iter, group), m, job)
  <2> DEFINE t == Tx(iter, group)
  <2>1. t.do = "commit" /\ t.name[1] = label /\ t.edges = [k \in group |-> step[k]]
    OBVIOUS
  <2> HIDE DEF t
  <2>2. DOMAIN t.edges = group /\ \A k \in group : t.edges[k] = step[k]
    BY <2>1
  <2>3. Tame(t, m, job)
    BY <1>2, <2>1, <2>2 DEF Tame
  <2> QED BY <2>3 DEF t
<1>3. first \subseteq DOMAIN step /\ other \subseteq DOMAIN step
  OBVIOUS
<1>4. Tame(Tx(at, first), m, job) /\ Tame(Tx(Final(step).iteration, other), m, job)
  BY <1>2, <1>3
<1> HIDE DEF Tx, first, other
<1>5. Tames(a, m, job) /\ Tames(b, m, job)
  BY <1>4, TameOne
<1>6. Tames(c, m, job)
  BY <1>5, TameNone
<1> HIDE DEF a, c
<1> QED BY <1>1, <1>5, <1>6, TameJoin

LEMMA TameUntrained ==
  ASSUME NEW m, NEW job, NEW label, label # Asking, NEW subject, NEW at, NEW reads, NEW step,
         Untrained(step)
  PROVE  Tames(Commits(label, subject, at, step, reads), m, job)
  BY TameCommits DEF Untrained

\* The record is written where the handler may lead it.
LEMMA TameUpdate ==
  ASSUME NEW m, NEW job, job # "bootstrap", NEW snap, snap.cycle \in Int, NEW pending, Leads(m.run.snap, snap, job)
  PROVE  Tames(Update(m, snap, m.run.completed, pending), m, job)
<1> DEFINE to == [rev |-> m.rev + 1, cycle |-> IF snap.cycle > m.cycle THEN snap.cycle ELSE m.cycle,
                  run |-> Loops!Moved(m.run, snap, m.run.completed, pending)]
           op == [do |-> "update", to |-> to]
<1>1. to.run.snap = snap /\ to.run.completed = m.run.completed
  BY DEF Loops!Moved
<1>2. Counted(m) => to.rev \in Int /\ to.cycle \in Int
  BY DEF Counted
<1> HIDE DEF to
<1>3. Counted(m) => Counted(to)
  BY <1>1, <1>2 DEF Counted
<1>4. Tame(op, m, job)
  BY <1>1, <1>3 DEF Tame
<1>5. Update(m, snap, m.run.completed, pending) = << op >>
  BY DEF Update, to
<1> QED BY <1>4, <1>5, TameOne

LEMMA TameFollow ==
  ASSUME NEW m, NEW job, job # "bootstrap", NEW step, Final(step).cycle \in Int, Leads(m.run.snap, Final(step), job)
  PROVE  Tames(Follow(m, step), m, job)
  BY TameUpdate DEF Follow

LEMMA TameComplete ==
  ASSUME NEW m, NEW job, job # "bootstrap", NEW step, Final(step).cycle \in Int, Leads(m.run.snap, Final(step), job)
  PROVE  Tames(CompleteCycle(m, step), m, job)
<1> DEFINE to == [rev |-> m.rev + 1, cycle |-> Final(step).cycle,
                  run |-> Loops!Moved(m.run, Final(step), m.run.completed + 1, "none")]
           op == [do |-> "update", to |-> to]
<1>1. to.run.snap = Final(step) /\ to.run.completed = m.run.completed + 1
  BY DEF Loops!Moved
<1>2. Counted(m) => to.rev \in Int /\ to.cycle \in Int
  BY DEF Counted
<1> HIDE DEF to
<1>3. Counted(m) => Counted(to)
  BY <1>1, <1>2 DEF Counted
<1>4. Tame(op, m, job)
  BY <1>1, <1>3 DEF Tame
<1>5. CompleteCycle(m, step) = << op >>
  BY DEF CompleteCycle, to
<1> QED BY <1>4, <1>5, TameOne

\* One handler goes on to another.
LEMMA TameGoOn ==
  ASSUME NEW m, NEW job, NEW next, next = "dataset-review" => job = "batch", NEW snap
  PROVE  Tames(GoOn(next, snap), m, job)
<1> DEFINE op == [do |-> "reload", job |-> next, snap |-> snap]
<1>1. Tame(op, m, job)
  BY DEF Tame
<1> QED BY <1>1, TameOne DEF GoOn

LEMMA TameAfter == ASSUME NEW m, NEW job, NEW step PROVE Tames(AfterDecision(step), m, job)
<1>1. CASE Final(step).state \in DOMAIN AfterModel
  <2>1. AfterModel[Final(step).state] # "dataset-review"
    BY <1>1 DEF AfterModel
  <2> QED BY <1>1, <2>1, TameGoOn DEF AfterDecision
<1>2. CASE Final(step).state \notin DOMAIN AfterModel
  BY <1>2, TameNone DEF AfterDecision
<1> QED BY <1>1, <1>2

\* A part of a plan, the record, and what follows it.
LEMMA TameTurn ==
  ASSUME NEW m, NEW job, job # "bootstrap", NEW step, Final(step).cycle \in Int, Leads(m.run.snap, Final(step), job),
         NEW a, Tames(a, m, job)
  PROVE  /\ Tames(a \o Follow(m, step), m, job)
         /\ Tames(a \o CompleteCycle(m, step), m, job)
         /\ \A d : Tames(d, m, job) => Tames((a \o Follow(m, step)) \o d, m, job)
  BY TameFollow, TameComplete, TameJoin

\* Each handler, but the dataset review.
LEMMA TameBegin ==
  ASSUME NEW m, Sized(m), NEW s, s = m.run.snap, Entered("begin", s.state)
  PROVE  Tames(BeginCycle(m, s), m, "begin")
<1> DEFINE step == Loops!BeginStep(m.run, s)
<1>1. s \in Snapshots /\ s.cycle \in Int
  BY DEF Sized, Snapshots
<1>2. Untrained(step) /\ Final(step).cycle = s.cycle /\ Final(step).state = "MUTATE_HARNESS"
  BY <1>1, BeginIn
<1>3. Leads(s, Final(step), "begin")
  BY <1>1, <1>2 DEF Leads, Searching, Entered
<1>4. BeginCycle(m, s) = Commits("begin-cycle", s.cycle, s.iteration, step, {"peak"}) \o Follow(m, step)
  BY DEF BeginCycle
<1> HIDE DEF step
<1>5. Tames(Commits("begin-cycle", s.cycle, s.iteration, step, {"peak"}), m, "begin")
  BY <1>2, TameUntrained DEF Asking
<1> QED BY <1>1, <1>2, <1>3, <1>4, <1>5, TameTurn

LEMMA TameStop ==
  ASSUME NEW m, Sized(m), NEW s, s = m.run.snap
  PROVE  Tames(StopAtLimit(m, s), m, "stop")
<1> DEFINE step == Loops!StopStep(m.run, s)
<1>1. s \in Snapshots /\ s.cycle \in Int
  BY DEF Sized, Snapshots
<1>2. Untrained(step) /\ Final(step).cycle = s.cycle /\ Final(step).state = "STOPPED"
  BY <1>1, StopIn
<1>3. Leads(s, Final(step), "stop")
  BY <1>1, <1>2 DEF Leads, Searching
<1>4. StopAtLimit(m, s) = Commits("cycle-limit", s.cycle, s.iteration, step, {"completed"}) \o Follow(m, step)
  BY DEF StopAtLimit
<1> HIDE DEF step
<1>5. Tames(Commits("cycle-limit", s.cycle, s.iteration, step, {"completed"}), m, "stop")
  BY <1>2, TameUntrained DEF Asking
<1> QED BY <1>1, <1>2, <1>3, <1>4, <1>5, TameTurn

LEMMA TameRollback ==
  ASSUME NEW m, Sized(m), NEW s, s = m.run.snap
  PROVE  Tames(Rollback(m, s), m, "rollback")
<1> DEFINE step == Loops!RollbackStep(s)
           mark == [do |-> "mark", id |-> <<s.candCkpt, s.iteration>>]
           q == Commits("model-rollback-committed", s.candCkpt, s.iteration, step, {})
<1>1. s \in Snapshots /\ s.cycle \in Int
  BY DEF Sized, Snapshots
<1>2. Untrained(step) /\ Final(step).cycle = s.cycle + 1 /\ Final(step).state = "FREEZE_MODEL"
  BY <1>1, RollbackIn
<1>3. Leads(s, Final(step), "rollback") /\ Final(step).cycle \in Int
  BY <1>1, <1>2 DEF Leads
<1>4. Rollback(m, s) = (<< mark >> \o q) \o CompleteCycle(m, step)
  BY DEF Rollback
<1>5. Tames(<< mark >>, m, "rollback")
  BY TameOther
<1> HIDE DEF step, mark
<1>6. Tames(q, m, "rollback")
  BY <1>2, TameUntrained DEF Asking
<1> HIDE DEF q
<1> QED BY <1>3, <1>4, <1>5, <1>6, TameJoin, TameTurn

LEMMA TameSlim ==
  ASSUME NEW m, Sized(m), NEW s, s = m.run.snap
  PROVE  Tames(SlimHarness(m, s), m, "slim")
<1> DEFINE step == Loops!SlimStep(conf, m.run, s)
           slim == Slim(s.cycle)
           pointer == Pointer(slim, m.run.snap.harness, s.cycle, Final(step).score,
                              <<"harness-slimmed", 0, slim>>)
           q1 == File("slim", slim)
           q2 == Commits("harness-slimmed", slim, 0, step, {})
           q3 == Adopt("harness", pointer)
<1>1. s \in Snapshots /\ s.cycle \in Int
  BY DEF Sized, Snapshots
<1>2. Untrained(step) /\ Final(step).cycle = s.cycle + 1 /\ Final(step).state = "FREEZE_MODEL"
  BY <1>1, SlimIn
<1>3. Leads(s, Final(step), "slim") /\ Final(step).cycle \in Int
  BY <1>1, <1>2 DEF Leads
<1>4. SlimHarness(m, s) = ((q1 \o q2) \o q3) \o CompleteCycle(m, step)
  BY DEF SlimHarness
<1> HIDE DEF step, slim, pointer
<1>5. Tames(q1, m, "slim") /\ Tames(q2, m, "slim") /\ Tames(q3, m, "slim")
  BY <1>2, TameFile, TameUntrained, TameAdopt DEF Asking
<1> HIDE DEF q1, q2, q3
<1> QED BY <1>3, <1>4, <1>5, TameJoin, TameTurn

LEMMA TamePromotion ==
  ASSUME NEW m, Sized(m), NEW s, s = m.run.snap
  PROVE  Tames(Promotion(m, s), m, "promotion")
<1> DEFINE decided == IF conf.model.approval THEN "model-review-completed" ELSE "model-evaluated"
           step == PromotionCommitted(s)
           pointer == Pointer(s.candCkpt, m.run.snap.ckpt, s.iteration, s.candScore,
                              <<decided, s.iteration, s.candCkpt>>)
           q1 == Adopt("peak", pointer)
           q2 == Commits("model-promotion-committed", s.candCkpt, s.iteration, step, {"peak"})
<1>1. s \in Snapshots /\ s.cycle \in Int
  BY DEF Sized, Snapshots
<1>2. Untrained(step) /\ Final(step).cycle = s.cycle /\ Final(step).state = "SLIM_HARNESS"
  BY <1>1, PromotionIn
<1>3. Leads(s, Final(step), "promotion")
  BY <1>1, <1>2 DEF Leads, Searching
<1>4. Promotion(m, s) = (q1 \o q2) \o Follow(m, step)
  BY DEF Promotion
<1> HIDE DEF step, pointer
<1>5. Tames(q1, m, "promotion") /\ Tames(q2, m, "promotion")
  BY <1>2, TameUntrained, TameAdopt DEF Asking
<1> HIDE DEF q1, q2
<1> QED BY <1>1, <1>2, <1>3, <1>4, <1>5, TameJoin, TameTurn

LEMMA TameRequest ==
  ASSUME NEW m, Sized(m), NEW s, s = m.run.snap, Entered("request", s.state)
  PROVE  Tames(CreateRequest(m, s), m, "request")
<1> DEFINE subject == Loops!ReviewOf[s.state]
           id == RequestId(subject, s)
           ask == [do |-> "request", id |-> id]
           q == Commits("approval-requested", id, s.iteration, <<>>, {})
           u == Update(m, s, m.run.completed, subject)
<1>1. s \in Snapshots /\ s.cycle \in Int
  BY DEF Sized, Snapshots
<1>2. Leads(s, s, "request")
  BY <1>1 DEF Leads, Entered
<1>3. CreateRequest(m, s) = (<< ask >> \o q) \o u
  BY DEF CreateRequest
<1>4. Tames(<< ask >>, m, "request")
  BY TameOther
<1>5. Untrained(<<>>)
  BY DEF Untrained
<1> HIDE DEF ask, id, subject
<1>6. Tames(q, m, "request")
  BY <1>5, TameUntrained DEF Asking
<1>7. Tames(u, m, "request")
  BY <1>1, <1>2, TameUpdate
<1> HIDE DEF q, u
<1> QED BY <1>3, <1>4, <1>6, <1>7, TameJoin

\* A batch: its number dates the dataset it hands over.
Batch(s) == Candidate(s.cycle, s.iteration)

Dated(s) == s.meta.dataset = Batch(s)

\* The records of a batch, and the dataset it hands over.
LEMMA BatchIn ==
  ASSUME conf \in Setups, NEW s \in Snapshots
  PROVE  LET harvested == BatchHarvested(conf.trace, s, Batch(s), HarvestCost)
             step == VerificationCompleted(conf.trace, Final(harvested),
                                           conf.harvest.accepted, conf.harvest.raw)
         IN  /\ Untrained(harvested) /\ Untrained(step)
             /\ Final(step).cycle = s.cycle
             /\ Final(step).state = "TRAIN_MODEL" => Dated(Final(step))
<1> DEFINE harvested == BatchHarvested(conf.trace, s, Batch(s), HarvestCost)
           h == Final(harvested)
           step == VerificationCompleted(conf.trace, h, conf.harvest.accepted, conf.harvest.raw)
<1>1. Batch(s) \in Int /\ HarvestCost \in Int
  BY DEF Batch, Candidate, IdSpan, Snapshots, HarvestCost
<1>2. /\ Untrained(harvested) /\ h \in Snapshots /\ h.cycle = s.cycle
      /\ h.iteration = s.iteration /\ h.meta.batch = Batch(s)
  <2>1. Ends(harvested)
    BY <1>1, HarvestEnds
  <2> QED BY <1>1, <2>1, HarvestIn DEF Ends
<1> HIDE DEF harvested, h
<1>3. /\ Untrained(step) /\ Final(step).cycle = h.cycle
      /\ Final(step).state = "TRAIN_MODEL" =>
           Final(step).iteration = h.iteration /\ Final(step).meta.dataset = h.meta.batch
  BY <1>2, ConfTypes, VerificationIn
<1> HIDE DEF step
<1>4. Final(step).state = "TRAIN_MODEL" => Dated(Final(step))
  BY <1>2, <1>3 DEF Dated, Batch
<1> QED BY <1>2, <1>3, <1>4 DEF step, h, harvested

LEMMA TameBatch ==
  ASSUME conf \in Setups, NEW m, Sized(m), NEW s, s = m.run.snap, Entered("batch", s.state)
  PROVE  Tames(TraceBatch(m, s), m, "batch")
<1> DEFINE batch == Batch(s)
           harvested == BatchHarvested(conf.trace, s, batch, HarvestCost)
           step == VerificationCompleted(conf.trace, Final(harvested),
                                         conf.harvest.accepted, conf.harvest.raw)
           q1 == File("traces", s.cycle)
           q2 == Commits("trace-harvested", batch, s.iteration, harvested, {})
           q3 == File("dataset", batch)
           q4 == Commits("trace-verified", batch, s.iteration, step, {})
           reviews == Final(step).state = "TRAIN_MODEL" /\ conf.datasetReview
           q6 == IF reviews THEN GoOn("dataset-review", Final(step)) ELSE <<>>
           rest == (q4 \o Follow(m, step)) \o q6
           raise == <<[do |-> "raise"]>>
<1>1. s \in Snapshots /\ s.cycle \in Int
  BY DEF Sized, Snapshots
<1>2. Untrained(harvested) /\ Untrained(step) /\ Final(step).cycle = s.cycle
  BY <1>1, BatchIn
<1>3. Leads(s, Final(step), "batch")
  BY <1>1, <1>2 DEF Leads, Searching, Entered
<1>4. TraceBatch(m, s) =
        ((q1 \o q2) \o q3) \o (IF Final(harvested).state = "ABORTED" THEN raise ELSE rest)
  BY DEF TraceBatch, Batch
<1> HIDE DEF step, harvested, batch
<1>5. /\ Tames(q1, m, "batch") /\ Tames(q2, m, "batch") /\ Tames(q3, m, "batch")
      /\ Tames(q4, m, "batch") /\ Tames(raise, m, "batch")
  BY <1>2, TameFile, TameUntrained, TameOther DEF Asking
<1>6. Tames(q6, m, "batch")
  BY TameGoOn, TameNone
<1> HIDE DEF q1, q2, q3, q4, q6, raise
<1>7. Tames(rest, m, "batch")
  BY <1>1, <1>2, <1>3, <1>5, <1>6, TameJoin, TameTurn
<1> HIDE DEF rest
<1>8. Tames((q1 \o q2) \o q3, m, "batch")
  BY <1>5, TameJoin
<1> QED BY <1>4, <1>5, <1>7, <1>8, TameJoin

LEMMA TameModel ==
  ASSUME conf \in Setups, NEW m, Sized(m), NEW s, s = m.run.snap
  PROVE  Tames(ModelLoop(m, s), m, "model")
<1> DEFINE input == Loops!PolicyInput(m.run, s)
           trained == TrainingCompleted(conf.model, input, s.cycle, TrainingCost(s))
           step == ModelEvaluation(conf.model, Final(trained), ModelScore(m, s),
                                   ModelEvaluationCost)
           q1 == File("weights", s.cycle)
           q2 == Commits("model-trained", s.cycle, s.iteration, trained, {})
           q3 == Commits("model-evaluated", s.cycle, s.iteration, step, {})
           q5 == AfterDecision(step)
           rest == (q3 \o Follow(m, step)) \o q5
           raise == <<[do |-> "raise"]>>
<1>1. /\ s \in Snapshots /\ m.run.modelScore \in Int /\ s.cycle \in Int
      /\ TrainingCost(s) \in Int /\ ModelEvaluationCost \in Int
  BY DEF Sized, Snapshots, Metas, TrainingCost, ModelEvaluationCost
<1>2. input \in Snapshots /\ input.cycle = s.cycle /\ input.meta.dataset = s.meta.dataset
  <2>1. Like(s, input)
    BY <1>1, InputFields
  <2> QED BY <1>1, <2>1, InputIn DEF Like
<1> HIDE DEF input
<1>3. /\ \A k \in DOMAIN trained : trained[k].snap.meta.dataset = s.meta.dataset
      /\ Final(trained).cycle = s.cycle /\ Final(trained) \in Snapshots
  <2>1. Ends(trained)
    BY <1>1, <1>2, TrainingEnds
  <2> QED BY <1>1, <1>2, <2>1, TrainingIn DEF Ends
<1> HIDE DEF trained
<1>4. /\ Untrained(step) /\ Final(step).cycle = s.cycle
      /\ Final(step).state \notin Searching \cup {"TRAIN_MODEL"}
  BY <1>1, <1>3, ScoreTypes, ModelEvaluationIn
<1> HIDE DEF step
<1>5. Leads(s, Final(step), "model")
  BY <1>1, <1>4 DEF Leads
<1>6. ModelLoop(m, s) = (q1 \o q2) \o (IF Final(trained).state = "ABORTED" THEN raise ELSE rest)
  BY DEF ModelLoop, input, trained, step
<1>7. Tames(q2, m, "model")
  BY <1>3, TameCommits DEF Asking
<1>8. /\ Tames(q1, m, "model") /\ Tames(q3, m, "model") /\ Tames(q5, m, "model")
      /\ Tames(raise, m, "model")
  BY <1>4, TameFile, TameUntrained, TameOther, TameAfter DEF Asking
<1> HIDE DEF q1, q2, q3, q5, raise
<1>9. Tames(rest, m, "model")
  BY <1>1, <1>4, <1>5, <1>8, TameTurn
<1> HIDE DEF rest
<1> QED BY <1>6, <1>7, <1>8, <1>9, TameJoin

LEMMA TameAttempt ==
  ASSUME conf \in Setups, NEW m, Sized(m), NEW s, s = m.run.snap, Entered("attempt", s.state)
  PROVE  Tames(HarnessAttempt(m, s), m, "attempt")
<1> DEFINE candidate == Candidate(s.cycle, s.iteration)
           created == CandidateCreated(s, candidate)
           validated == ValidationCompleted(conf.outer, Final(created), TRUE)
           step == OuterEvaluation(conf.outer, Final(validated), HarnessScore(s), HarnessCost)
           pointer == Pointer(candidate, m.run.snap.harness, s.cycle, HarnessScore(s),
                              <<"harness-evaluated", s.iteration, candidate>>)
           check == [do |-> "check", harness |-> m.run.snap.harness]
           q1 == << check >>
           q2 == File("candidate", candidate)
           q3 == Commits("harness-mutated", candidate, s.iteration, created, {})
           q4 == File("validation", candidate)
           q5 == Commits("harness-validated", candidate, s.iteration, validated, {})
           q6 == File("evaluation", candidate)
           q7 == Commits("harness-evaluated", candidate, s.iteration, step, {})
           q8 == IF step[1].snap.state = "ACCEPT_HARNESS" THEN Adopt("harness", pointer) ELSE <<>>
           q10 == IF Final(step).state = "HARNESS_REVIEW_PENDING"
                  THEN GoOn("request", Final(step)) ELSE <<>>
           r == (((((q1 \o q2) \o q3) \o q4) \o q5) \o q6) \o q7
<1>1. s \in Snapshots /\ s.cycle \in Int
  BY DEF Sized, Snapshots
<1>2. candidate \in Int
  BY <1>1 DEF Candidate, IdSpan, Snapshots
<1> HIDE DEF candidate
<1>3. /\ Untrained(created) /\ Untrained(validated)
      /\ Final(validated).cycle = s.cycle /\ Final(validated) \in Snapshots
  <2>1. Like(s, Final(validated))
    BY <1>1, <1>2, PreparedFields
  <2>2. Final(validated) \in Snapshots
    BY <2>1 DEF Like
  <2> QED BY <1>1, <1>2, <2>2, PreparedIn
<1>4. HarnessScore(s) \in Int /\ HarnessCost \in Int
  BY <1>1, ScoreTypes DEF HarnessCost
<1> HIDE DEF created, validated
<1>5. Untrained(step) /\ Final(step).cycle = s.cycle /\ Final(step).state # "TRAIN_MODEL"
  BY <1>3, <1>4, EvaluationIn
<1>6. HarnessAttempt(m, s) = ((r \o q8) \o Follow(m, step)) \o q10
  BY DEF HarnessAttempt, candidate, created, validated
<1> HIDE DEF step, pointer
<1>7. Leads(s, Final(step), "attempt")
  BY <1>1, <1>5 DEF Leads, Searching, Entered
<1>8. /\ Tames(q1, m, "attempt") /\ Tames(q2, m, "attempt") /\ Tames(q3, m, "attempt")
      /\ Tames(q4, m, "attempt") /\ Tames(q5, m, "attempt") /\ Tames(q6, m, "attempt")
      /\ Tames(q7, m, "attempt")
  BY <1>3, <1>5, TameFile, TameUntrained, TameOther DEF Asking
<1>9. Tames(q8, m, "attempt") /\ Tames(q10, m, "attempt")
  BY TameGoOn, TameNone, TameAdopt
<1> HIDE DEF q1, q2, q3, q4, q5, q6, q7, q8, q10
<1>10. Tames(((q1 \o q2) \o q3) \o q4, m, "attempt")
  BY <1>8, TameJoin
<1>11. Tames(r, m, "attempt")
  <2> DEFINE x == ((q1 \o q2) \o q3) \o q4
  <2> HIDE DEF x
  <2>1. Tames(((x \o q5) \o q6) \o q7, m, "attempt")
    BY <1>8, <1>10, TameJoin DEF x
  <2> QED BY <2>1 DEF x
<1> HIDE DEF r
<1> QED BY <1>1, <1>5, <1>6, <1>7, <1>9, <1>11, TameJoin, TameTurn

LEMMA TameResume ==
  ASSUME NEW m, Sized(m), NEW s, s = m.run.snap, m.run.pending # "none",
         Pends(m.run.snap, m.run.pending)
  PROVE  Tames(Resume(m, s), m, "resume")
<1>1. s \in Snapshots /\ s.cycle \in Int
  BY DEF Sized, Snapshots
<1>2. CASE m.run.pending = "harness"
  <2> DEFINE step == HarnessReview(conf.outer, s, Approved(m))
             pointer == Pointer(s.candHarness, m.run.snap.harness, s.cycle, s.candScore,
                                <<"harness-review-completed", s.iteration, s.candHarness>>)
             q1 == Commits("harness-review-completed", s.candHarness, s.iteration, step, {})
             q2 == IF step[1].snap.state = "ACCEPT_HARNESS" THEN Adopt("harness", pointer) ELSE <<>>
  <2>1. Untrained(step) /\ Final(step).cycle = s.cycle /\ Final(step).state # "TRAIN_MODEL"
    BY <1>1, HarnessReviewIn
  <2>2. Resume(m, s) = (q1 \o q2) \o Follow(m, step)
    BY <1>2 DEF Resume
  <2> HIDE DEF step, pointer
  <2>3. Leads(s, Final(step), "resume")
    BY <1>1, <1>2, <2>1 DEF Leads, Searching, Pends, PendingState
  <2>4. Tames(q1, m, "resume") /\ Tames(q2, m, "resume")
    BY <2>1, TameUntrained, TameAdopt, TameNone DEF Asking
  <2> HIDE DEF q1, q2
  <2> QED BY <1>1, <2>1, <2>2, <2>3, <2>4, TameJoin, TameTurn
<1>3. CASE m.run.pending = "dataset"
  <2> DEFINE step == Loops!DatasetReviewed(s, Approved(m))
             q == Commits("dataset-review-completed", s.meta.dataset, s.iteration, step, {})
             a == <<RequestId("dataset", s), TRUE>>
  <2>1. /\ Untrained(step) /\ Final(step).cycle = s.cycle
        /\ Final(step).state \in {"TRAIN_MODEL", "STOPPED"}
        /\ Final(step).state = "TRAIN_MODEL" =>
             Approved(m) /\ Final(step).meta.dataset = s.meta.dataset
    BY <1>1, DatasetReviewedIn
  <2>2. Resume(m, s) = q \o Follow(m, step)
    BY <1>3 DEF Resume
  <2>3. Approved(m) => Granted("dataset", s.meta.dataset)
    <3>1. Approved(m) => a \in disk.answers
      BY <1>3 DEF Approved
    <3>2. a[1][1] = "dataset" /\ a[1][2] = s.meta.dataset /\ a[2]
      BY DEF RequestId
    <3> QED BY <3>1, <3>2 DEF Granted
  <2> HIDE DEF step
  <2>4. Leads(s, Final(step), "resume")
    BY <1>1, <2>1, <2>3 DEF Leads, Searching
  <2>5. Tames(q, m, "resume")
    BY <2>1, TameUntrained DEF Asking
  <2> HIDE DEF q
  <2> QED BY <1>1, <2>1, <2>2, <2>4, <2>5, TameTurn
<1>4. CASE m.run.pending = "checkpoint"
  <2> DEFINE step == ModelReview(s, Approved(m))
             q == Commits("model-review-completed", s.candCkpt, s.iteration, step, {})
             d == AfterDecision(step)
  <2>1. /\ Untrained(step) /\ Final(step).cycle = s.cycle
        /\ Final(step).state \notin Searching \cup {"TRAIN_MODEL"}
    BY <1>1, ModelReviewIn
  <2>2. Resume(m, s) = (q \o Follow(m, step)) \o d
    BY <1>4 DEF Resume
  <2> HIDE DEF step
  <2>3. Leads(s, Final(step), "resume")
    BY <1>1, <2>1 DEF Leads
  <2>4. Tames(q, m, "resume") /\ Tames(d, m, "resume")
    BY <2>1, TameUntrained, TameAfter DEF Asking
  <2> HIDE DEF q, d
  <2> QED BY <1>1, <2>1, <2>2, <2>3, <2>4, TameTurn
<1> QED BY <1>2, <1>3, <1>4 DEF Sized

LEMMA TameBootstrap == Tames(Bootstrap, NoRecord, "bootstrap")
<1> DEFINE start == OuterStart(1, 0, 0, conf.harnessScore, 0)
           frozen == [start[1].snap EXCEPT !.meta.modelScore = conf.modelScore]
           create == [do |-> "create", to |-> FirstRecord]
           e == Edge("PROMOTE", "CHECKPOINT", 0, frozen)
           f == Edge("ACCEPT", "HARNESS", 0, frozen)
           qa == File("model", 0)
           qb == File("config", 0)
           qc == Commits("bootstrap-model", 0, 0, << e >>, {})
           qd == Adopt("peak", BootModel)
           qe == File("harness", 0)
           qf == Commits("bootstrap-harness", 0, 0, << f >>, {})
           qg == Adopt("harness", BootHarness)
           qh == Commits("outer-start", 0, 0, start, {"peak", "harness"})
           qi == << create >>
           T(q) == Tames(q, NoRecord, "bootstrap")
<1>1. Bootstrap = (((((((qa \o qb) \o qc) \o qd) \o qe) \o qf) \o qg) \o qh) \o qi
  BY DEF Bootstrap
<1>2. Untrained(start) /\ start[1].snap.state = "FREEZE_MODEL" /\ "state" \in DOMAIN start[1].snap
  BY StartIn
<1> HIDE DEF start
<1>3. frozen.state = "FREEZE_MODEL"
  BY <1>2
<1> HIDE DEF frozen
<1>4. e.snap = frozen /\ f.snap = frozen
  BY DEF Edge
<1> HIDE DEF e, f
<1>5. Untrained(<< e >>) /\ Untrained(<< f >>)
  BY <1>3, <1>4, UntrainedOne
<1>6. /\ T(qa) /\ T(qb) /\ T(qc) /\ T(qd) /\ T(qe) /\ T(qf) /\ T(qg) /\ T(qh)
  BY <1>2, <1>5, TameFile, TameUntrained, TameAdopt DEF Asking
<1>7. T(qi)
  <2>1. Tame(create, NoRecord, "bootstrap")
    BY DEF Tame
  <2> QED BY <2>1, TameOne
<1> HIDE DEF qa, qb, qc, qd, qe, qf, qg, qh, qi
<1>8. T(((qa \o qb) \o qc) \o qd)
  BY <1>6, TameJoin
<1>9. T(((((qa \o qb) \o qc) \o qd) \o qe) \o qf)
  <2> DEFINE x == ((qa \o qb) \o qc) \o qd
  <2> HIDE DEF x
  <2>1. T((x \o qe) \o qf)
    BY <1>6, <1>8, TameJoin DEF x
  <2> QED BY <2>1 DEF x
<1>10. T((((((((qa \o qb) \o qc) \o qd) \o qe) \o qf) \o qg) \o qh) \o qi)
  <2> DEFINE x == ((((qa \o qb) \o qc) \o qd) \o qe) \o qf
  <2> HIDE DEF x
  <2>1. T(((x \o qg) \o qh) \o qi)
    BY <1>6, <1>7, <1>9, TameJoin DEF x
  <2> QED BY <2>1 DEF x
<1> QED BY <1>1, <1>10

\* Every handler but the dataset review is tame.
LEMMA PlanTame ==
  ASSUME conf \in Setups, NEW p, p.job \in Handlers, p.job # "dataset-review",
         p.job # "bootstrap" => Ready(p), Given(p)
  PROVE  Tames(Plan(p), p.meta, p.job)
<1> DEFINE m == p.meta
           s == p.snap
<1>1. CASE p.job = "bootstrap"
  BY <1>1, TameBootstrap DEF Plan, Given
<1>2. p.job # "bootstrap" => Sized(m) /\ s = m.run.snap
  BY DEF Ready, Given
<1>3. ASSUME p.job # "bootstrap", p.job # "resume"
      PROVE  Entered(p.job, s.state)
  BY <1>3 DEF Given
<1>4. CASE p.job = "attempt"
  BY <1>2, <1>3, <1>4, TameAttempt DEF Plan
<1>5. CASE p.job = "batch"
  BY <1>2, <1>3, <1>5, TameBatch DEF Plan
<1>7. CASE p.job = "model"
  BY <1>2, <1>3, <1>7, TameModel DEF Plan
<1>8. CASE p.job = "request"
  BY <1>2, <1>3, <1>8, TameRequest DEF Plan
<1>9. CASE p.job = "promotion"
  BY <1>2, <1>3, <1>9, TamePromotion DEF Plan
<1>10. CASE p.job = "rollback"
  BY <1>2, <1>3, <1>10, TameRollback DEF Plan
<1>11. CASE p.job = "slim"
  BY <1>2, <1>3, <1>11, TameSlim DEF Plan
<1>12. CASE p.job = "begin"
  BY <1>2, <1>3, <1>12, TameBegin DEF Plan
<1>13. CASE p.job = "stop"
  BY <1>2, <1>3, <1>13, TameStop DEF Plan
<1>14. CASE p.job = "resume"
  BY <1>2, <1>14, TameResume DEF Plan, Given
<1> QED BY <1>1, <1>4, <1>5, <1>7, <1>8, <1>9, <1>10, <1>11, <1>12, <1>13, <1>14
        DEF Handlers

-----------------------------------------------------------------------------
(* The handover from the batch to the dataset review.                      *)

\* A handler reloads only to hand a dataset over right after it wrote the
\* record, and it does so whenever it wrote that the training is next.
Handover(q) ==
  /\ IsSeq(q)
  /\ \A i \in 1..Len(q) :
       /\ q[i].do = "reload" =>
            /\ i > 1 /\ q[i - 1].do = "update"
            /\ q[i].job = "dataset-review" /\ Dated(q[i].snap)
       /\ q[i].do = "update" /\ q[i].to.run.snap.state = "TRAIN_MODEL" =>
            i < Len(q) /\ q[i + 1].do = "reload"

Quiet(q) == IsSeq(q) /\ \A i \in 1..Len(q) : q[i].do \notin {"update", "reload"}

\* Parts of a plan that neither write the record nor hand over.
LEMMA QuietJoin ==
  ASSUME NEW a, Quiet(a), NEW b, Quiet(b)
  PROVE  Quiet(a \o b)
<1>1. PICK S, T : a \in Seq(S) /\ b \in Seq(T)
  BY DEF Quiet, IsSeq
<1>2. a \in Seq(S \cup T) /\ b \in Seq(S \cup T)
  BY <1>1
<1> DEFINE q == a \o b
<1>3. PICK x \in Nat, y \in Nat : x = Len(a) /\ y = Len(b)
  BY <1>1
<1>4. /\ q \in Seq(S \cup T) /\ Len(q) = x + y
      /\ \A i \in 1..(x + y) : q[i] = IF i <= x THEN a[i] ELSE b[i - x]
  BY <1>2, <1>3, ConcatProperties
<1> HIDE DEF q
<1>5. ASSUME NEW i \in 1..Len(q) PROVE q[i].do \notin {"update", "reload"}
  <2>1. CASE i <= x
    <3>1. i \in 1..x /\ q[i] = a[i]
      BY <1>4, <2>1
    <3> QED BY <1>3, <3>1 DEF Quiet
  <2>2. CASE ~(i <= x)
    <3>1. i - x \in 1..y /\ q[i] = b[i - x]
      BY <1>4, <2>2
    <3> QED BY <1>3, <3>1 DEF Quiet
  <2> QED BY <2>1, <2>2
<1> QED BY <1>4, <1>5 DEF Quiet, IsSeq, q

LEMMA QuietThen ==
  ASSUME NEW a, Quiet(a), NEW b, Handover(b)
  PROVE  Handover(a \o b)
<1>1. PICK S, T : a \in Seq(S) /\ b \in Seq(T)
  BY DEF Quiet, Handover, IsSeq
<1>2. a \in Seq(S \cup T) /\ b \in Seq(S \cup T)
  BY <1>1
<1> DEFINE q == a \o b
<1>3. PICK x \in Nat, y \in Nat : x = Len(a) /\ y = Len(b)
  BY <1>1
<1>4. /\ q \in Seq(S \cup T) /\ Len(q) = x + y
      /\ \A i \in 1..(x + y) : q[i] = IF i <= x THEN a[i] ELSE b[i - x]
  BY <1>2, <1>3, ConcatProperties
<1> HIDE DEF q
<1>5. ASSUME NEW i \in 1..(x + y)
      PROVE  /\ q[i].do = "reload" =>
                  /\ i > 1 /\ q[i - 1].do = "update"
                  /\ q[i].job = "dataset-review" /\ Dated(q[i].snap)
             /\ q[i].do = "update" /\ q[i].to.run.snap.state = "TRAIN_MODEL" =>
                  i < x + y /\ q[i + 1].do = "reload"
  <2>1. CASE i <= x
    <3>1. i \in 1..x /\ q[i] = a[i]
      BY <1>4, <2>1
    <3> QED BY <1>3, <3>1 DEF Quiet
  <2>2. CASE ~(i <= x)
    <3>1. PICK j \in 1..y : j = i - x
      BY <2>2
    <3>2. q[i] = b[j]
      BY <1>4, <2>2, <3>1
    <3>3. ASSUME j > 1 PROVE i > 1 /\ q[i - 1] = b[j - 1]
      <4>1. i - 1 \in 1..(x + y) /\ ~(i - 1 <= x) /\ (i - 1) - x = j - 1
        BY <3>1, <3>3
      <4> QED BY <1>4, <3>1, <3>3, <4>1
    <3>4. ASSUME j < y PROVE i < x + y /\ q[i + 1] = b[j + 1]
      <4>1. i + 1 \in 1..(x + y) /\ ~(i + 1 <= x) /\ (i + 1) - x = j + 1
        BY <3>1, <3>4, <2>2
      <4> QED BY <1>4, <3>1, <3>4, <4>1
    <3>5. /\ b[j].do = "reload" =>
               /\ j > 1 /\ b[j - 1].do = "update"
               /\ b[j].job = "dataset-review" /\ Dated(b[j].snap)
          /\ b[j].do = "update" /\ b[j].to.run.snap.state = "TRAIN_MODEL" =>
               j < y /\ b[j + 1].do = "reload"
      BY <1>3 DEF Handover
    <3> QED BY <3>2, <3>3, <3>4, <3>5
  <2> QED BY <2>1, <2>2
<1> QED BY <1>4, <1>5 DEF Handover, IsSeq, q

LEMMA QuietOne ==
  ASSUME NEW op, op.do \notin {"update", "reload"}
  PROVE  Quiet(<< op >>) /\ Handover(<< op >>)
<1> DEFINE q == << op >>
<1>1. q \in Seq({op}) /\ Len(q) = 1 /\ q[1] = op
  OBVIOUS
<1> HIDE DEF q
<1>2. \A i \in 1..Len(q) : q[i] = op
  BY <1>1
<1> QED BY <1>1, <1>2 DEF Quiet, Handover, IsSeq, q

LEMMA QuietFile == ASSUME NEW kind, NEW id PROVE Quiet(File(kind, id))
  BY QuietOne DEF File

LEMMA QuietCommits ==
  ASSUME NEW label, NEW subject, NEW at, NEW reads, NEW step
  PROVE  Quiet(Commits(label, subject, at, step, reads))
<1> DEFINE first == {k \in DOMAIN step : step[k].snap.iteration = at}
           other == DOMAIN step \ first
           Tx(iter, group) ==
             [do |-> "commit", name |-> <<label, iter, subject>>,
              edges |-> [k \in group |-> step[k]],
              evidenceAt |-> at, reads |-> reads]
           a == << Tx(at, first) >>
           b == << Tx(Final(step).iteration, other) >>
           c == IF other = {} THEN <<>> ELSE b
<1>1. Commits(label, subject, at, step, reads) = a \o c
  BY DEF Commits
<1>2. \A iter, group : Tx(iter, group).do = "commit"
  OBVIOUS
<1> HIDE DEF Tx, first, other
<1>3. Quiet(a) /\ Quiet(b)
  BY <1>2, QuietOne
<1>4. Quiet(<<>>)
  <2>1. <<>> \in Seq({}) /\ Len(<<>>) = 0
    OBVIOUS
  <2> QED BY <2>1 DEF Quiet, IsSeq
<1>5. Quiet(c)
  BY <1>3, <1>4
<1> HIDE DEF a, c
<1> QED BY <1>1, <1>3, <1>5, QuietJoin

\* The record is written, and the review follows where the training is next.
LEMMA HandoverFollow ==
  ASSUME NEW m, NEW step, NEW d,
         IF Final(step).state = "TRAIN_MODEL"
         THEN d = GoOn("dataset-review", Final(step)) /\ Dated(Final(step)) ELSE d = <<>>
  PROVE  Handover(Follow(m, step) \o d)
<1> DEFINE to == [rev |-> m.rev + 1,
                  cycle |-> IF Final(step).cycle > m.cycle THEN Final(step).cycle ELSE m.cycle,
                  run |-> Loops!Moved(m.run, Final(step), m.run.completed, "none")]
           u == [do |-> "update", to |-> to]
           r == [do |-> "reload", job |-> "dataset-review", snap |-> Final(step)]
<1>1. to.run.snap = Final(step)
  BY DEF Loops!Moved
<1>2. Follow(m, step) = << u >>
  BY DEF Follow, Update
<1> HIDE DEF to
<1>3. u.do = "update" /\ u.to.run.snap = Final(step)
  BY <1>1
<1>4. r.do = "reload" /\ r.job = "dataset-review" /\ r.snap = Final(step)
  OBVIOUS
<1>5. GoOn("dataset-review", Final(step)) = << r >>
  BY DEF GoOn
<1> HIDE DEF u, r
<1>6. << u >> \in Seq({u, r}) /\ Len(<< u >>) = 1 /\ << u >>[1] = u
  OBVIOUS
<1>7. CASE Final(step).state = "TRAIN_MODEL"
  <2> DEFINE q == << u >> \o << r >>
  <2>1. << r >> \in Seq({u, r}) /\ Len(<< r >>) = 1 /\ << r >>[1] = r
    OBVIOUS
  <2>2. q \in Seq({u, r}) /\ Len(q) = 2 /\ q[1] = u /\ q[2] = r
    BY <1>6, <2>1, ConcatProperties
  <2> HIDE DEF q
  <2>3. \A i \in 1..Len(q) : i = 1 \/ i = 2
    BY <2>2
  <2>4. Handover(q)
    BY <1>3, <1>4, <1>7, <2>2, <2>3 DEF Handover, IsSeq
  <2> QED BY <1>2, <1>5, <1>7, <2>4 DEF q
<1>8. CASE Final(step).state # "TRAIN_MODEL"
  <2> DEFINE q == << u >>
  <2>1. q \in Seq({u, r}) /\ Len(q) = 1 /\ q[1] = u
    BY <1>6
  <2>2. q \o <<>> = q
    BY <2>1, ConcatEmptySeq
  <2> HIDE DEF q
  <2>3. \A i \in 1..Len(q) : i = 1
    BY <2>1
  <2>4. Handover(q)
    BY <1>3, <1>8, <2>1, <2>3 DEF Handover, IsSeq
  <2> QED BY <1>2, <1>8, <2>2, <2>4 DEF q
<1> QED BY <1>7, <1>8

\* The batch hands every dataset to be reviewed over to its review.
LEMMA BatchHandsOver ==
  ASSUME conf \in Setups, conf.datasetReview, NEW m, NEW s \in Snapshots
  PROVE  Handover(TraceBatch(m, s))
<1> DEFINE batch == Batch(s)
           harvested == BatchHarvested(conf.trace, s, batch, HarvestCost)
           step == VerificationCompleted(conf.trace, Final(harvested),
                                         conf.harvest.accepted, conf.harvest.raw)
           q1 == File("traces", s.cycle)
           q2 == Commits("trace-harvested", batch, s.iteration, harvested, {})
           q3 == File("dataset", batch)
           q4 == Commits("trace-verified", batch, s.iteration, step, {})
           reviews == Final(step).state = "TRAIN_MODEL" /\ conf.datasetReview
           q6 == IF reviews THEN GoOn("dataset-review", Final(step)) ELSE <<>>
           f == Follow(m, step)
           rest == (q4 \o f) \o q6
           raise == <<[do |-> "raise"]>>
<1>1. TraceBatch(m, s) =
        ((q1 \o q2) \o q3) \o (IF Final(harvested).state = "ABORTED" THEN raise ELSE rest)
  BY DEF TraceBatch, Batch
<1>2. Final(step).state = "TRAIN_MODEL" => Dated(Final(step))
  BY BatchIn
<1> HIDE DEF step, harvested, batch
<1>3. Handover(f \o q6)
  BY <1>2, HandoverFollow
<1>4. Quiet(q1) /\ Quiet(q2) /\ Quiet(q3) /\ Quiet(q4) /\ Handover(raise)
  BY QuietFile, QuietCommits, QuietOne
<1>5. IsSeq(f) /\ IsSeq(q6)
  <2>1. IsSeq(<<>>)
    BY TameNone DEF Tames
  <2> QED BY <2>1, FollowIsSeq, GoOnIsSeq
<1> HIDE DEF q1, q2, q3, q4, f, q6, raise
<1>6. Quiet((q1 \o q2) \o q3)
  BY <1>4, QuietJoin
<1>7. rest = q4 \o (f \o q6)
  <2>1. PICK S, T, U : q4 \in Seq(S) /\ f \in Seq(T) /\ q6 \in Seq(U)
    BY <1>4, <1>5 DEF Quiet, IsSeq
  <2> DEFINE V == (S \cup T) \cup U
  <2>2. q4 \in Seq(V) /\ f \in Seq(V) /\ q6 \in Seq(V)
    BY <2>1
  <2> HIDE DEF V
  <2>3. (q4 \o f) \o q6 = q4 \o (f \o q6)
    BY <2>2, ConcatAssociative
  <2> QED BY <2>3
<1>8. Handover(rest)
  BY <1>3, <1>4, <1>7, QuietThen
<1> HIDE DEF rest
<1> QED BY <1>1, <1>4, <1>6, <1>8, QuietThen

\* The dataset review: the request, its evidence, the record.
Evidence(s) ==
  [do |-> "commit", name |-> <<Asking, s.iteration, s.meta.dataset>>,
   edges |-> [k \in {1} |->
                Edge("REQUEST_APPROVAL", "DATASET", s.meta.dataset, Loops!DatasetReviewSnapshot(s))],
   evidenceAt |-> s.iteration, reads |-> {}]

\* What the three operations of a dataset review are.
LEMMA ReviewPlan ==
  ASSUME NEW m, NEW s \in Snapshots
  PROVE  LET q == DatasetReview(m, s)
         IN  /\ Len(q) = 3 /\ q[1].do = "request" /\ q[2] = Evidence(s)
             /\ q[3].do = "update" /\ q[3].to.run.snap = Loops!DatasetReviewSnapshot(s)
             /\ Counted(m) => /\ Counted(q[3].to) /\ q[3].to.rev = m.rev + 1
                              /\ m.cycle <= q[3].to.cycle
                              /\ q[3].to.run.completed = m.run.completed
<1> DEFINE review == Loops!DatasetReviewSnapshot(s)
           e == Edge("REQUEST_APPROVAL", "DATASET", s.meta.dataset, review)
           step == << e >>
           a == [do |-> "request", id |-> <<"dataset", s.meta.dataset, s.iteration>>]
           to == [rev |-> m.rev + 1, cycle |-> IF review.cycle > m.cycle THEN review.cycle ELSE m.cycle,
                  run |-> Loops!Moved(m.run, review, m.run.completed, "dataset")]
           u == [do |-> "update", to |-> to]
           c == Evidence(s)
           first == {k \in DOMAIN step : step[k].snap.iteration = s.iteration}
           other == DOMAIN step \ first
           Tx(iter, group) ==
             [do |-> "commit", name |-> <<Asking, iter, s.meta.dataset>>,
              edges |-> [k \in group |-> step[k]],
              evidenceAt |-> s.iteration, reads |-> {}]
           commits == Commits(Asking, s.meta.dataset, s.iteration, step, {})
           q == (<< a >> \o commits) \o << u >>
<1>1. review.iteration = s.iteration /\ review.cycle = s.cycle /\ s.cycle \in Int
  BY ReviewIn DEF Snapshots
<1>2. DatasetReview(m, s) = q
  BY DEF DatasetReview, Asking, Update
<1>3. to.run.snap = review /\ to.run.completed = m.run.completed
  BY DEF Loops!Moved
<1>4. Counted(m) => to.rev \in Int /\ to.cycle \in Int /\ to.rev = m.rev + 1 /\ m.cycle <= to.cycle
  BY <1>1 DEF Counted
<1>5. Counted(m) => Counted(to)
  BY <1>3, <1>4 DEF Counted
<1> HIDE DEF to
<1>6. commits = << c >>
  <2>1. e.snap = review
    BY DEF Edge
  <2>2. DOMAIN step = {1} /\ step[1] = e
    OBVIOUS
  <2> HIDE DEF step
  <2>3. first = {1}
    BY <1>1, <2>1, <2>2
  <2>4. other = {}
    BY <2>2, <2>3
  <2>5. commits = << Tx(s.iteration, first) >> \o (IF other = {} THEN <<>> ELSE <<Tx(Final(step).iteration, other)>>)
    BY DEF Commits
  <2>6. [k \in {1} |-> step[k]] = [k \in {1} |-> e]
    BY <2>2
  <2>7. Tx(s.iteration, {1}) = c
    BY <2>6 DEF Evidence
  <2> HIDE DEF Tx, first, other, c, commits
  <2>8. commits = << c >> \o <<>>
    BY <2>3, <2>4, <2>5, <2>7
  <2>9. << c >> \in Seq({c})
    OBVIOUS
  <2> QED BY <2>8, <2>9, ConcatEmptySeq
<1>7. a.do = "request" /\ u.do = "update" /\ u.to = to
  OBVIOUS
<1> HIDE DEF a, u, c, commits, review
<1>8. Len(q) = 3 /\ q[1] = a /\ q[2] = c /\ q[3] = u
  <2> DEFINE r == << a >> \o << c >>
  <2>1. << a >> \in Seq({a, c, u}) /\ << c >> \in Seq({a, c, u}) /\ << u >> \in Seq({a, c, u})
        /\ Len(<< a >>) = 1 /\ << a >>[1] = a /\ Len(<< c >>) = 1 /\ << c >>[1] = c
        /\ Len(<< u >>) = 1 /\ << u >>[1] = u
    OBVIOUS
  <2>2. r \in Seq({a, c, u}) /\ Len(r) = 2 /\ r[1] = a /\ r[2] = c
    BY <2>1, ConcatProperties
  <2> HIDE DEF r
  <2> DEFINE z == << u >>
  <2>3. z \in Seq({a, c, u}) /\ Len(z) = 1 /\ z[1] = u
    BY <2>1
  <2> HIDE DEF z
  <2> DEFINE t == r \o z
  <2>4. /\ Len(t) = Len(r) + Len(z)
        /\ \A i \in 1..(Len(r) + Len(z)) : t[i] = IF i <= Len(r) THEN r[i] ELSE z[i - Len(r)]
    BY <2>2, <2>3, ConcatProperties
  <2> HIDE DEF t
  <2>5. Len(t) = 3 /\ t[1] = a /\ t[2] = c /\ t[3] = u
    BY <2>2, <2>3, <2>4
  <2> QED BY <1>6, <2>5 DEF r, t, z
<1> HIDE DEF q
<1> QED BY <1>2, <1>3, <1>4, <1>5, <1>7, <1>8 DEF c, review

-----------------------------------------------------------------------------
(* What one process that does not crash keeps where datasets are reviewed. *)

Gated == OneProcess /\ conf.datasetReview /\ ~(conf.maxCrashes > 0)

\* Between the batch's update of the record and the end of the dataset review,
\* and the part of it before the evidence is committed.
Reviewing(p) == p.job = "dataset-review" \/ (p.job = "batch" /\ Plan(p)[p.at].do = "reload")
ToRequest(p) == Reviewing(p) /\ (p.job = "dataset-review" => p.at # 3)

\* Outside of that, a run whose training is next has the grant of its dataset.
Held(p) ==
  \A m \in {disk.record} : m # NoRecord =>
    /\ Counted(m)
    /\ m.run.snap.state = "TRAIN_MODEL" /\ ~Reviewing(p) =>
         Granted("dataset", m.run.snap.meta.dataset)

\* The transaction t asked for the review of a batch of a cycle up to n.
Within(t, n) == \E c \in Int : c <= n /\ t.name[3] = Candidate(c, t.name[2])

\* No review was asked for in a later cycle than that of the record, nor in its
\* own while it searches or is about to ask.
Fresh(p) ==
  \A m \in {disk.record}, t \in disk.txs : t.name[1] = Asking =>
    /\ m # NoRecord /\ Within(t, m.run.snap.cycle)
    /\ m.run.snap.state \in Searching \/ ToRequest(p) => Within(t, m.run.snap.cycle - 1)

\* What a handler trusts its snapshot to be.
Trusted(p) ==
  /\ p.job = "model" => Granted("dataset", p.snap.meta.dataset)
  /\ p.job = "dataset-review" => Dated(p.snap)

AllGranted ==
  \A t \in disk.txs : \A k \in DOMAIN t.edges :
    t.edges[k].snap.state = "EVALUATE_MODEL" =>
      Granted("dataset", t.edges[k].snap.meta.dataset)

Gate(p) == crashes = 0 /\ AllGranted /\ Held(p) /\ Fresh(p) /\ Trusted(p)

GateInv == Gated => \A p \in {crew[1]} : Gate(p)

\* What was asked by a cycle was asked by every later one.
LEMMA WithinLater ==
  ASSUME NEW t, NEW n \in Int, Within(t, n), NEW k \in Int, n <= k
  PROVE  Within(t, k)
  BY DEF Within

\* Transactions that need no grant or have it leave the grants complete.
LEMMA AllGrantedStays ==
  ASSUME Keeps, AllGranted,
         \A t \in disk'.txs : t \in disk.txs \/ \A k \in DOMAIN t.edges :
           t.edges[k].snap.state = "EVALUATE_MODEL" =>
             Granted("dataset", t.edges[k].snap.meta.dataset)
  PROVE  AllGranted'
<1> SUFFICES ASSUME NEW t \in disk'.txs, NEW k \in DOMAIN t.edges,
                    t.edges[k].snap.state = "EVALUATE_MODEL"
             PROVE  Granted("dataset", t.edges[k].snap.meta.dataset)'
  BY DEF AllGranted
<1>1. PICK d : d = t.edges[k].snap.meta.dataset
  OBVIOUS
<1>2. Granted("dataset", d)
  BY <1>1 DEF AllGranted
<1>3. Granted("dataset", d)'
  BY <1>2, GrantedStays
<1> QED BY <1>1, <1>3 DEF Granted

\* A step that leaves the record alone, from p to r.
LEMMA GateStays ==
  ASSUME Keeps, crashes' = crashes, NEW p, Gate(p), NEW r,
         disk'.record = disk.record,
         \A t \in disk'.txs : \/ t \in disk.txs
                              \/ /\ \A k \in DOMAIN t.edges :
                                      t.edges[k].snap.state = "EVALUATE_MODEL" =>
                                        Granted("dataset", t.edges[k].snap.meta.dataset)
                                 /\ t.name[1] = Asking =>
                                      /\ disk.record # NoRecord /\ ~ToRequest(r)'
                                      /\ disk.record.run.snap.state \notin Searching
                                      /\ Within(t, disk.record.run.snap.cycle),
         Reviewing(p) => Reviewing(r)',
         ToRequest(r)' => ToRequest(p), Trusted(r)'
  PROVE  Gate(r)'
<1>1. PICK m : m = disk.record
  OBVIOUS
<1>2. AllGranted'
  BY AllGrantedStays DEF Gate
<1>3. ASSUME m # NoRecord
      PROVE  /\ Counted(m)
             /\ m.run.snap.state = "TRAIN_MODEL" /\ ~Reviewing(r)' =>
                  Granted("dataset", m.run.snap.meta.dataset)'
  <2>1. PICK d : d = m.run.snap.meta.dataset
    OBVIOUS
  <2>2. Counted(m) /\ (m.run.snap.state = "TRAIN_MODEL" /\ ~Reviewing(p) => Granted("dataset", d))
    BY <1>1, <1>3, <2>1 DEF Gate, Held
  <2>3. Granted("dataset", d) => Granted("dataset", d)'
    BY GrantedStays
  <2>4. Granted("dataset", d)' => Granted("dataset", m.run.snap.meta.dataset)'
    BY <2>1 DEF Granted
  <2> QED BY <2>2, <2>3, <2>4
<1>4. Held(r)'
  BY <1>1, <1>3 DEF Held, Counted, Granted
<1>5. ASSUME NEW t \in disk'.txs, t.name[1] = Asking
      PROVE  /\ m # NoRecord /\ Within(t, m.run.snap.cycle)
             /\ m.run.snap.state \in Searching \/ ToRequest(r)' => Within(t, m.run.snap.cycle - 1)
  BY <1>1, <1>5 DEF Gate, Fresh
<1>6. Fresh(r)'
  BY <1>1, <1>5 DEF Fresh, Within
<1> QED BY <1>2, <1>4, <1>6 DEF Gate

\* A step that moves the record from m to n.
LEMMA GateMoves ==
  ASSUME Keeps, crashes' = crashes, NEW p, Gate(p), NEW r, NEW job,
         NEW m, m = disk.record, m # NoRecord, m.run.snap.cycle \in Int,
         NEW n, n = disk'.record, n.run.snap.cycle \in Int, disk'.txs = disk.txs,
         Counted(n), Leads(m.run.snap, n.run.snap, job),
         n.run.snap.state = "TRAIN_MODEL" =>
           Reviewing(r)' \/ Granted("dataset", n.run.snap.meta.dataset),
         ToRequest(r)' => m.run.snap.state \in Searching,
         Trusted(r)'
  PROVE  Gate(r)'
<1>1. AllGranted'
  BY AllGrantedStays DEF Gate
<1>2. n # NoRecord
  BY DEF Keeps
<1>3. n.run.snap.state = "TRAIN_MODEL" /\ ~Reviewing(r)' =>
        Granted("dataset", n.run.snap.meta.dataset)'
  <2>1. PICK d : d = n.run.snap.meta.dataset
    OBVIOUS
  <2>2. Granted("dataset", d) => Granted("dataset", d)'
    BY GrantedStays
  <2> QED BY <2>1, <2>2 DEF Granted
<1>4. Held(r)'
  BY <1>3 DEF Held, Counted, Granted
<1>5. ASSUME NEW t \in disk.txs, t.name[1] = Asking
      PROVE  /\ Within(t, n.run.snap.cycle)
             /\ n.run.snap.state \in Searching \/ ToRequest(r)' => Within(t, n.run.snap.cycle - 1)
  <2>1. /\ Within(t, m.run.snap.cycle)
        /\ m.run.snap.state \in Searching => Within(t, m.run.snap.cycle - 1)
    BY <1>5 DEF Gate, Fresh
  <2>2. /\ n.run.snap.cycle >= m.run.snap.cycle
        /\ n.run.snap.state \in Searching =>
             m.run.snap.state \in Searching \/ n.run.snap.cycle > m.run.snap.cycle
    BY DEF Leads
  <2>3. Within(t, n.run.snap.cycle)
    BY <2>1, <2>2, WithinLater
  <2>4. m.run.snap.state \in Searching => Within(t, n.run.snap.cycle - 1)
    <3>1. /\ m.run.snap.cycle - 1 \in Int /\ n.run.snap.cycle - 1 \in Int
          /\ m.run.snap.cycle - 1 <= n.run.snap.cycle - 1
      BY <2>2
    <3> QED BY <2>1, <3>1, WithinLater
  <2>5. n.run.snap.cycle > m.run.snap.cycle => Within(t, n.run.snap.cycle - 1)
    <3>1. /\ n.run.snap.cycle - 1 \in Int
          /\ n.run.snap.cycle > m.run.snap.cycle => m.run.snap.cycle <= n.run.snap.cycle - 1
      OBVIOUS
    <3> QED BY <2>1, <3>1, WithinLater
  <2> QED BY <2>2, <2>3, <2>4, <2>5
<1>6. Fresh(r)'
  BY <1>2, <1>5 DEF Fresh, Within
<1> QED BY <1>1, <1>4, <1>6 DEF Gate

\* The step that creates the record.
LEMMA GateOpens ==
  ASSUME Keeps, crashes' = crashes, NEW p, Gate(p), NEW r,
         disk.record = NoRecord, disk'.record = FirstRecord, disk'.txs = disk.txs, Trusted(r)'
  PROVE  Gate(r)'
<1>1. AllGranted'
  BY AllGrantedStays DEF Gate
<1>2. PICK n : n = FirstRecord
  OBVIOUS
<1>3. Counted(n) /\ n.run.snap.state = "MUTATE_HARNESS"
  <2>1. /\ n.rev = 0 /\ n.cycle = 1 /\ n.run.completed = 0
        /\ n.run.snap = Final(OuterStart(1, 0, 0, conf.harnessScore, 0))
    BY <1>2 DEF FirstRecord
  <2> QED BY <2>1, StartIn DEF Counted
<1>4. disk'.record = n
  BY <1>2
<1>5. Held(r)'
  BY <1>3, <1>4 DEF Held, Counted
<1>6. \A t \in disk'.txs : t.name[1] # Asking
  BY DEF Gate, Fresh
<1>7. Fresh(r)'
  BY <1>6 DEF Fresh
<1> QED BY <1>1, <1>5, <1>7 DEF Gate

\* What an operation adds to the transactions.
LEMMA Recorded ==
  ASSUME Shape, NEW c, NEW op,
         \/ WriteFile(c, op) \/ Commit(c, op) \/ StoreBundle(c, op)
         \/ MovePointer(c, op) \/ CheckHarness(c, op) \/ Mark(c, op)
         \/ Request(c, op) \/ CreateRun(c, op) \/ UpdateRun(c, op)
         \/ Raise(c, op)
  PROVE  \A t \in disk'.txs :
           t \in disk.txs \/ (op.do = "commit" /\ t.name = op.name /\ t.edges = op.edges)
<1>1. CASE Commit(c, op) /\ disk' = [disk EXCEPT !.txs = @ \cup {Transaction(c, op)}]
  <2>1. disk'.txs = disk.txs \cup {Transaction(c, op)}
    BY <1>1 DEF Shape
  <2>2. Transaction(c, op).name = op.name /\ Transaction(c, op).edges = op.edges
    BY DEF Transaction
  <2> QED BY <1>1, <2>1, <2>2 DEF Commit
<1>2. CASE disk' = disk
  BY <1>2
<1>3. CASE \/ disk' = [disk EXCEPT !.files = @ \cup {op.path}]
           \/ disk' = [disk EXCEPT !.bundles[op.which] = @ \cup {op.of}]
           \/ disk' = [disk EXCEPT !.active[op.which] = op.to, !.history[op.which] = @ \cup {op.to}]
           \/ disk' = [disk EXCEPT !.markers = @ \cup {op.id}]
           \/ disk' = [disk EXCEPT !.requests = @ \cup {op.id}]
           \/ disk' = [disk EXCEPT !.record = op.to]
  BY <1>3 DEF Shape
<1> QED BY <1>1, <1>2, <1>3
        DEF WriteFile, Commit, StoreBundle, MovePointer, CheckHarness, Mark, Request,
            CreateRun, UpdateRun, Raise, Effect

\* The process of a handler after an operation that was not refused.
LEMMA NextUp ==
  ASSUME NEW c \in DOMAIN crew, NEW p, p = crew[c],
         {"job", "meta", "snap", "at"} \subseteq DOMAIN p, Advances(c), NEW r, r = crew'[c]
  PROVE  \/ r.job = "loop" /\ ~(p.at < Len(Plan(p)))
         \/ /\ r.job = p.job /\ r.meta = p.meta /\ r.snap = p.snap /\ r.at = p.at + 1
            /\ p.at < Len(Plan(p))
<1>1. CASE p.at < Len(Plan(p))
  <2>1. crew' = [crew EXCEPT ![c].at = @ + 1]
    BY <1>1 DEF Advances
  <2> QED BY <1>1, <2>1
<1>2. CASE ~(p.at < Len(Plan(p)))
  <2>1. Rests(c, "loop")
    BY <1>2 DEF Advances
  <2> QED BY <1>2, <2>1 DEF Rests, Sets
<1> QED BY <1>1, <1>2

\* A process that rests, and one that is in a handler in between.
LEMMA AtRest ==
  ASSUME NEW r, r.job \notin Handlers
  PROVE  ~Reviewing(r)' /\ ~ToRequest(r)' /\ Trusted(r)'
  BY DEF Reviewing, ToRequest, Trusted, Handlers

\* The evidence of a dataset review is always accepted.
LEMMA EvidenceFits ==
  ASSUME NEW p, Gate(p), ToRequest(p), NEW s \in Snapshots, Dated(s), disk.record # NoRecord,
         disk.record.run.snap = s, NEW c, NEW op, op = Evidence(s)
  PROVE  MayCommit(Transaction(c, op))
<1> DEFINE tx == Transaction(c, op)
           review == Loops!DatasetReviewSnapshot(s)
           e == Edge("REQUEST_APPROVAL", "DATASET", s.meta.dataset, review)
<1>1. review.iteration = s.iteration /\ s.iteration \in Int /\ s.cycle \in Int
  BY ReviewIn DEF Snapshots
<1> HIDE DEF review
<1>2. e.snap = review
  BY DEF Edge
<1> HIDE DEF e
<1>3. /\ tx.name = <<Asking, s.iteration, s.meta.dataset>>
      /\ tx.edges = [k \in {1} |-> e] /\ tx.evidenceAt = s.iteration
  BY DEF Transaction, Evidence, e, review
<1> HIDE DEF tx
<1>4. Supported(tx)
  BY <1>1, <1>2, <1>3 DEF Supported
<1>5. ASSUME NEW u \in disk.txs PROVE u.name # tx.name
  <2> SUFFICES ASSUME u.name = tx.name PROVE FALSE
    OBVIOUS
  <2>1. u.name[1] = Asking /\ u.name[2] = s.iteration /\ u.name[3] = s.meta.dataset
    BY <1>3
  <2>2. Within(u, s.cycle - 1)
    BY <2>1 DEF Gate, Fresh
  <2>3. PICK d \in Int : d <= s.cycle - 1 /\ u.name[3] = Candidate(d, u.name[2])
    BY <2>2 DEF Within
  <2>4. Candidate(d, s.iteration) = Candidate(s.cycle, s.iteration)
    BY <2>1, <2>3 DEF Dated, Batch
  <2> QED BY <1>1, <2>3, <2>4 DEF Candidate, IdSpan
<1> QED BY <1>4, <1>5 DEF MayCommit, tx

\* The steps of a dataset review: none of them is refused.
LEMMA ReviewGate ==
  ASSUME IInv, OneInv, OneProcess, NEW c \in DOMAIN crew, Perform(c), Shape', Grows,
         NEW p, p = crew[c], p.job = "dataset-review", Gate(p)
  PROVE  \A r \in {crew'[c]} : Gate(r)'
<1>1. Keeps /\ crashes' = crashes
  BY PerformKept DEF Perform
<1>2. c = 1
  BY DEF OneInv
<1>3. /\ AtWork(p) /\ p.job \in Handlers /\ Busy(p)
      /\ {"job", "meta", "snap", "at"} \subseteq DOMAIN p /\ conf \in Setups /\ Shape
  BY <1>2 DEF OneInv, Perform, IInv, CrewAtWork, CrewShape, PointerInv
<1>4. PICK q, m, k, s : q = Plan(p) /\ m = p.meta /\ k = p.at /\ s = p.snap
  OBVIOUS
<1>5. Given(p) /\ StandsAt(q, k, m) /\ k \in 1..Len(q) /\ Ready(p)
  BY <1>3, <1>4 DEF AtWork, Busy
<1>6. s \in Snapshots /\ s = m.run.snap /\ Sized(m) /\ s.state = "TRAIN_MODEL"
  BY <1>4, <1>5 DEF Ready, Prepared, Given, Entered
<1>7. Dated(s)
  BY <1>4 DEF Gate, Trusted
<1>8. q = DatasetReview(m, s)
  BY <1>4 DEF Plan
<1>9. /\ Len(q) = 3 /\ q[1].do = "request" /\ q[2] = Evidence(s)
      /\ q[3].do = "update" /\ q[3].to.run.snap = Loops!DatasetReviewSnapshot(s)
      /\ Counted(m) => /\ Counted(q[3].to) /\ q[3].to.rev = m.rev + 1
                       /\ m.cycle <= q[3].to.cycle
                       /\ q[3].to.run.completed = m.run.completed
  BY <1>6, <1>8, ReviewPlan
<1>10. q[2].do = "commit" /\ q[2].evidenceAt = s.iteration
       /\ q[2].name = <<Asking, s.iteration, s.meta.dataset>>
  BY <1>9 DEF Evidence
<1>11. disk.record = m
  <2>1. k = 1 \/ k = 2 => \A i \in 1..(k - 1) : q[i].do \notin Recording
    BY <1>9 DEF Recording
  <2>2. k = 3 => \A i \in 1..(k - 1) : q[i].do \notin Recording
    BY <1>9, <1>10 DEF Recording
  <2> QED BY <1>5, <1>9, <2>1, <2>2 DEF StandsAt
<1>12. PICK op : /\ op = q[k]
                 /\ \/ WriteFile(c, op) \/ Commit(c, op) \/ StoreBundle(c, op)
                    \/ MovePointer(c, op) \/ CheckHarness(c, op) \/ Mark(c, op)
                    \/ Request(c, op) \/ CreateRun(c, op) \/ UpdateRun(c, op)
                    \/ Reload(c, op) \/ Raise(c, op)
  BY <1>4 DEF Perform, NextOp
<1>13. PICK r : r = crew'[c]
  OBVIOUS
<1>14. Reviewing(p)
  BY DEF Reviewing
<1>15. ASSUME Advances(c)
       PROVE  \/ r.job = "loop" /\ k = 3
              \/ r.job = p.job /\ r.snap = s /\ r.at = k + 1 /\ k < 3
  <2>1. \/ r.job = "loop" /\ ~(p.at < Len(Plan(p)))
        \/ /\ r.job = p.job /\ r.snap = p.snap /\ r.at = p.at + 1
           /\ p.at < Len(Plan(p))
    BY <1>3, <1>13, <1>15, NextUp
  <2>2. k \in 1..3
    BY <1>5, <1>9
  <2>3. ~(k < 3) => k = 3
    BY <2>2
  <2> QED BY <1>4, <1>9, <2>1, <2>3
<1>16. r.job = p.job /\ r.snap = s => Reviewing(r)' /\ Trusted(r)'
  BY <1>7 DEF Reviewing, Trusted
<1>17. CASE k = 1
  <2>1. Request(c, op)
    BY <1>9, <1>12, <1>17 DEF WriteFile, Commit, StoreBundle, MovePointer, CheckHarness, Mark,
       CreateRun, UpdateRun, Reload, Raise
  <2>2. disk' = [disk EXCEPT !.requests = @ \cup {op.id}] /\ Advances(c)
    BY <2>1 DEF Request, Effect
  <2>3. disk'.record = disk.record /\ disk'.txs = disk.txs
    BY <1>3, <2>2 DEF Shape
  <2>4. r.job = p.job /\ r.snap = s
    BY <1>15, <1>17, <2>2
  <2>5. ToRequest(p)
    BY <1>4, <1>14, <1>17 DEF ToRequest
  <2>6. Gate(r)'
    BY <1>1, <1>14, <1>16, <2>3, <2>4, <2>5, GateStays
  <2> QED BY <1>13, <2>6
<1>18. CASE k = 2
  <2>1. Commit(c, op) /\ op = Evidence(s)
    BY <1>9, <1>10, <1>12, <1>18 DEF WriteFile, StoreBundle, MovePointer, CheckHarness, Mark,
       Request, CreateRun, UpdateRun, Reload, Raise
  <2>2. ToRequest(p)
    BY <1>4, <1>14, <1>18 DEF ToRequest
  <2>3. MayCommit(Transaction(c, op))
    BY <1>6, <1>7, <1>11, <2>1, <2>2, EvidenceFits DEF Sized
  <2>4. disk' = [disk EXCEPT !.txs = @ \cup {Transaction(c, op)}] /\ Advances(c)
    BY <2>1, <2>3 DEF Commit, Effect
  <2>5. disk'.record = disk.record /\ disk'.txs = disk.txs \cup {Transaction(c, op)}
    BY <1>3, <2>4 DEF Shape
  <2>6. r.job = p.job /\ r.snap = s /\ r.at = 3
    BY <1>15, <1>18, <2>4
  <2>7. ~ToRequest(r)'
    BY <2>6 DEF ToRequest
  <2>8. PICK t : t = Transaction(c, op)
    OBVIOUS
  <2>9. /\ t.name[1] = Asking /\ Within(t, disk.record.run.snap.cycle)
        /\ \A j \in DOMAIN t.edges : t.edges[j].snap.state = "DATA_REVIEW_PENDING"
    <3>1. t.name = op.name /\ t.edges = op.edges
      BY <2>8 DEF Transaction
    <3>2. t.name[1] = Asking /\ t.name[2] = s.iteration /\ t.name[3] = s.meta.dataset
      BY <1>10, <1>12, <1>18, <3>1
    <3>3. s.cycle \in Int /\ s.cycle = disk.record.run.snap.cycle
      BY <1>6, <1>11 DEF Snapshots
    <3>4. Within(t, s.cycle)
      BY <1>7, <3>2, <3>3 DEF Within, Dated, Batch
    <3>5. PICK review : review = Loops!DatasetReviewSnapshot(s)
      OBVIOUS
    <3>6. review.state = "DATA_REVIEW_PENDING"
      BY <1>6, <3>5, ReviewIn
    <3>7. PICK e : e = Edge("REQUEST_APPROVAL", "DATASET", s.meta.dataset, review)
      OBVIOUS
    <3>8. e.snap = review
      BY <3>7 DEF Edge
    <3>9. op.edges = [j \in {1} |-> e]
      BY <2>1, <3>5, <3>7 DEF Evidence
    <3> QED BY <3>1, <3>2, <3>3, <3>4, <3>6, <3>8, <3>9
  <2>10. disk.record # NoRecord /\ disk.record.run.snap.state \notin Searching
    BY <1>6, <1>11 DEF Sized, Searching
  <2>11. Gate(r)'
    BY <1>1, <1>14, <1>16, <2>2, <2>5, <2>6, <2>7, <2>8, <2>9, <2>10, GateStays
  <2> QED BY <1>13, <2>11
<1>19. CASE k = 3
  <2>1. UpdateRun(c, op)
    BY <1>9, <1>12, <1>19 DEF WriteFile, Commit, StoreBundle, MovePointer, CheckHarness, Mark,
       Request, CreateRun, Reload, Raise
  <2>2. m # NoRecord
    BY <1>6 DEF Sized
  <2>3. Counted(m)
    BY <1>11, <2>2 DEF Gate, Held
  <2>4. MayUpdate(op.to)
    BY <1>9, <1>11, <1>12, <1>19, <2>3 DEF MayUpdate, Counted
  <2>5. disk' = [disk EXCEPT !.record = op.to] /\ Advances(c)
    BY <2>1, <2>4 DEF UpdateRun, Effect
  <2>6. PICK n : n = op.to
    OBVIOUS
  <2>7. disk'.record = n /\ disk'.txs = disk.txs
    BY <1>3, <2>5, <2>6 DEF Shape
  <2>8. /\ n.run.snap.state = "DATA_REVIEW_PENDING" /\ n.run.snap.cycle = s.cycle
        /\ s.cycle \in Int /\ Counted(n)
    <3>1. n.run.snap = Loops!DatasetReviewSnapshot(s) /\ Counted(n)
      BY <1>9, <1>12, <1>19, <2>3, <2>6
    <3>2. s.cycle \in Int
      BY <1>6 DEF Snapshots
    <3> QED BY <1>6, <3>1, <3>2, ReviewIn
  <2>9. Leads(m.run.snap, n.run.snap, p.job)
    BY <1>6, <2>8 DEF Leads, Searching
  <2>10. r.job = "loop"
    BY <1>15, <1>19, <2>5
  <2>11. ~ToRequest(r)' /\ Trusted(r)'
    BY <2>10, AtRest DEF Handlers
  <2>12. Gate(r)'
    BY <1>1, <1>6, <1>11, <2>2, <2>7, <2>8, <2>9, <2>11, GateMoves
  <2> QED BY <1>13, <2>12
<1> QED BY <1>5, <1>9, <1>17, <1>18, <1>19

\* The steps of every other handler.
LEMMA HandlerGate ==
  ASSUME IInv, OneInv, Gated, NEW c \in DOMAIN crew, Perform(c), Shape', Grows,
         NEW p, p = crew[c], p.job # "dataset-review", Gate(p)
  PROVE  \A r \in {crew'[c]} : Gate(r)'
<1>1. Keeps /\ crashes' = crashes /\ OneProcess /\ conf.datasetReview
  BY PerformKept DEF Perform, Gated
<1>2. c = 1
  BY <1>1 DEF OneInv
<1>3. /\ AtWork(p) /\ p.job \in Handlers /\ Busy(p)
      /\ {"job", "meta", "snap", "at"} \subseteq DOMAIN p /\ conf \in Setups /\ Shape
  BY <1>1, <1>2 DEF OneInv, Perform, IInv, CrewAtWork, CrewShape, PointerInv
<1>4. PICK q, m, k : q = Plan(p) /\ m = p.meta /\ k = p.at
  OBVIOUS
<1>5. /\ Given(p) /\ StandsAt(q, k, m) /\ k \in 1..Len(q)
      /\ p.job # "bootstrap" => Ready(p)
  BY <1>3, <1>4 DEF AtWork, Busy
<1>6. PICK X : Course(q, X) /\ Aimed(X, m)
  BY <1>3, <1>4, <1>5, PlanSteers DEF Steers
<1>7. PICK op : /\ op = q[k]
                /\ \/ WriteFile(c, op) \/ Commit(c, op) \/ StoreBundle(c, op)
                   \/ MovePointer(c, op) \/ CheckHarness(c, op) \/ Mark(c, op)
                   \/ Request(c, op) \/ CreateRun(c, op) \/ UpdateRun(c, op)
                   \/ Reload(c, op) \/ Raise(c, op)
  BY <1>4 DEF Perform, NextOp
<1>8. Warranted(op)
  BY <1>3, <1>4, <1>7, NextIsWarranted
<1>9. Tame(op, m, p.job)
  BY <1>3, <1>4, <1>5, <1>7, PlanTame DEF Tames
<1>10. p.job # "bootstrap" => Sized(m) /\ p.snap = m.run.snap /\ Entered(p.job, m.run.snap.state)
  BY <1>4, <1>5 DEF Ready, Given, Entered
<1>11. p.job = "batch" => Handover(q)
  <2>1. p.job = "batch" => q = TraceBatch(m, p.snap) /\ p.snap \in Snapshots
    BY <1>4, <1>5 DEF Plan, Ready, Prepared
  <2> QED BY <1>1, <1>3, <2>1, BatchHandsOver
<1>12. PICK n \in Nat : n = Len(q)
  <2>1. PICK S : q \in Seq(S)
    BY <1>6 DEF Course, IsSeq
  <2> QED BY <2>1
<1>13. PICK r : r = crew'[c]
  OBVIOUS
<1>14. Reviewing(p) <=> p.job = "batch" /\ op.do = "reload"
  BY <1>4, <1>7 DEF Reviewing
<1>15. CASE Reload(c, op)
  <2>1. /\ op.do = "reload" /\ disk' = disk /\ Sets(c, op.job, disk.record, op.snap, 1)
        /\ op.job \in {"request", "dataset-review", "promotion", "rollback"}
    BY <1>8, <1>15 DEF Reload, Warranted
  <2>2. r.job = op.job /\ r.snap = op.snap /\ r.at = 1
    BY <1>13, <2>1 DEF Sets
  <2>3. p.job = "batch" => r.job = "dataset-review" /\ Dated(r.snap)
    BY <1>5, <1>7, <1>11, <2>1, <2>2 DEF Handover
  <2>4. p.job # "batch" => r.job # "dataset-review"
    BY <1>9, <2>1, <2>2 DEF Tame
  <2>5. Trusted(r)'
    BY <2>1, <2>2, <2>3, <2>4 DEF Trusted
  <2>6. (Reviewing(p) => Reviewing(r)') /\ (ToRequest(r)' => ToRequest(p))
    BY <1>14, <2>1, <2>2, <2>3, <2>4 DEF Reviewing, ToRequest
  <2>7. Gate(r)'
    BY <1>1, <2>1, <2>5, <2>6, GateStays
  <2> QED BY <1>13, <2>7
<1>16. CASE disk' = disk /\ Rests(c, "failed") /\ ~Reload(c, op)
  <2>1. op.do # "reload"
    BY <1>7, <1>16 DEF WriteFile, Commit, StoreBundle, MovePointer, CheckHarness, Mark,
       Request, CreateRun, UpdateRun, Raise
  <2>2. r.job = "failed"
    BY <1>13, <1>16 DEF Rests, Sets
  <2>3. ~Reviewing(r)' /\ ~ToRequest(r)' /\ Trusted(r)'
    BY <2>2, AtRest DEF Handlers
  <2>4. Gate(r)'
    BY <1>1, <1>14, <1>16, <2>1, <2>3, GateStays
  <2> QED BY <1>13, <2>4
<1>17. CASE Touches(op) /\ Advances(c) /\ ~Reload(c, op)
  <2>1. op.do # "reload"
    BY <1>7, <1>17 DEF WriteFile, Commit, StoreBundle, MovePointer, CheckHarness, Mark,
       Request, CreateRun, UpdateRun, Raise
  <2>2. ~Reviewing(p)
    BY <1>14, <2>1
  <2>3. \/ r.job = "loop"
        \/ r.job = p.job /\ r.meta = m /\ r.snap = p.snap /\ r.at = k + 1 /\ k < n
    BY <1>3, <1>4, <1>12, <1>13, <1>17, NextUp
  <2>4. r.job # "loop" => Plan(r)' = q
    <3> SUFFICES ASSUME r.job # "loop" PROVE Plan(r)' = q
      OBVIOUS
    <3>1. r.job # "bootstrap" => Ready(r)
      BY <1>4, <1>5, <2>3 DEF Ready
    <3>2. Plan(r) = q
      BY <1>4, <2>3 DEF Plan
    <3> QED BY <1>1, <3>1, <3>2, PlanStays
  <2>5. Reviewing(r)' => op.do = "update" /\ p.job = "batch"
    <3> SUFFICES ASSUME Reviewing(r)' PROVE op.do = "update" /\ p.job = "batch"
      OBVIOUS
    <3>1. r.job = "batch" /\ Plan(r)'[r.at].do = "reload"
      BY <2>3, <2>3 DEF Reviewing
    <3>2. q[k + 1].do = "reload" /\ k + 1 \in 1..n /\ p.job = "batch"
      BY <1>5, <1>12, <2>3, <2>4, <3>1
    <3>3. q[(k + 1) - 1].do = "update"
      BY <1>11, <1>12, <3>2 DEF Handover
    <3>4. (k + 1) - 1 = k
      BY <1>5
    <3> QED BY <1>7, <3>2, <3>3, <3>4
  <2>6. Trusted(r)'
    <3>1. PICK d : d = p.snap.meta.dataset
      OBVIOUS
    <3>2. p.job = "model" => Granted("dataset", d)'
      BY <1>1, <3>1, GrantedStays DEF Gate, Trusted
    <3> QED BY <2>3, <3>1, <3>2 DEF Trusted, Granted
  <2>7. ToRequest(r)' => Reviewing(r)'
    BY DEF ToRequest
  <2>8. \A t \in disk'.txs :
          t \in disk.txs \/ (op.do = "commit" /\ t.name = op.name /\ t.edges = op.edges)
    BY <1>3, <1>7, <1>17, Recorded
  <2>9. disk'.record = IF op.do \in Recording THEN op.to ELSE disk.record
    BY <1>17 DEF Touches
  <2>10. CASE op.do \notin Recording
    <3>1. disk'.record = disk.record /\ ~Reviewing(r)'
      BY <2>5, <2>9, <2>10 DEF Recording
    <3>2. ASSUME NEW t \in disk'.txs, t \notin disk.txs
          PROVE  /\ t.name[1] # Asking
                 /\ \A j \in DOMAIN t.edges : t.edges[j].snap.state = "EVALUATE_MODEL" =>
                      Granted("dataset", t.edges[j].snap.meta.dataset)
      <4>1. op.do = "commit" /\ t.name = op.name /\ t.edges = op.edges
        BY <2>8, <3>2
      <4>2. /\ t.name[1] # Asking
            /\ \A j \in DOMAIN t.edges : t.edges[j].snap.state = "EVALUATE_MODEL" =>
                 p.job = "model" /\ t.edges[j].snap.meta.dataset = m.run.snap.meta.dataset
        BY <1>9, <4>1 DEF Tame
      <4>3. p.job = "model" => Granted("dataset", m.run.snap.meta.dataset)
        BY <1>10 DEF Gate, Trusted
      <4> QED BY <4>2, <4>3
    <3>3. Gate(r)'
      BY <1>1, <2>2, <2>6, <2>7, <3>1, <3>2, GateStays
    <3> QED BY <1>13, <3>3
  <2>11. CASE op.do = "update"
    <3>1. /\ p.job # "bootstrap" /\ Leads(m.run.snap, op.to.run.snap, p.job)
          /\ Counted(m) => Counted(op.to)
      BY <1>9, <2>11 DEF Tame
    <3>2. disk.record = m /\ m # NoRecord /\ m.run.snap.cycle \in Int
      <4>1. disk.record = m
        BY <1>5, <1>6, <1>7, <2>11, FirstWrite DEF Recording
      <4>2. Sized(m)
        BY <1>10, <3>1
      <4> QED BY <4>1, <4>2 DEF Sized, Snapshots
    <3>3. Counted(op.to)
      BY <3>1, <3>2 DEF Gate, Held
    <3>4. PICK w : w = op.to
      OBVIOUS
    <3>5. disk'.record = w /\ disk'.txs = disk.txs /\ w.run.snap.cycle \in Int
      <4>1. Sized(w)
        BY <1>8, <2>11, <3>4 DEF Warranted
      <4>2. disk.txs \subseteq disk'.txs
        BY <1>1 DEF Keeps, Grows
      <4>3. disk'.txs \subseteq disk.txs
        BY <2>8, <2>11
      <4> QED BY <2>9, <2>11, <3>4, <4>1, <4>2, <4>3 DEF Recording, Sized, Snapshots
    <3>6. w.run.snap.state = "TRAIN_MODEL" =>
            Reviewing(r)' \/ Granted("dataset", w.run.snap.meta.dataset)
      <4> SUFFICES ASSUME w.run.snap.state = "TRAIN_MODEL", p.job = "batch" PROVE Reviewing(r)'
        BY <3>1, <3>4 DEF Leads
      <4>1. k < n /\ q[k + 1].do = "reload"
        BY <1>5, <1>7, <1>11, <1>12, <2>11, <3>4 DEF Handover
      <4>2. r.job # "loop"
        <5>1. \/ r.job = "loop" /\ ~(p.at < Len(Plan(p)))
              \/ r.job = p.job
          BY <1>3, <1>13, <1>17, NextUp
        <5>2. p.job # "loop"
          BY <1>3 DEF Handlers
        <5> QED BY <1>4, <1>12, <4>1, <5>1, <5>2
      <4> QED BY <2>3, <2>4, <4>1, <4>2 DEF Reviewing
    <3>7. ToRequest(r)' => m.run.snap.state \in Searching
      <4>1. ToRequest(r)' => p.job = "batch"
        BY <2>5, <2>7
      <4> QED BY <1>10, <4>1 DEF Entered, Searching
    <3>8. Gate(r)'
      BY <1>1, <2>6, <3>1, <3>2, <3>3, <3>4, <3>5, <3>6, <3>7, GateMoves
    <3> QED BY <1>13, <3>8
  <2>12. CASE op.do = "create"
    <3>1. op.to = FirstRecord
      BY <1>9, <2>12 DEF Tame
    <3>2. CreateRun(c, op)
      BY <1>7, <2>12 DEF WriteFile, Commit, StoreBundle, MovePointer, CheckHarness, Mark,
         Request, UpdateRun, Reload, Raise
    <3>3. disk'.record = FirstRecord /\ disk'.txs = disk.txs
      <4>1. disk.txs \subseteq disk'.txs
        BY <1>1 DEF Keeps, Grows
      <4>2. disk'.txs \subseteq disk.txs
        BY <2>8, <2>12
      <4> QED BY <2>9, <2>12, <3>1, <4>1, <4>2 DEF Recording
    <3>4. ~Reviewing(r)' /\ ~ToRequest(r)'
      BY <2>5, <2>7, <2>12
    <3>5. CASE disk.record = NoRecord
      <4>1. Gate(r)'
        BY <1>1, <2>6, <3>3, <3>5, GateOpens
      <4> QED BY <1>13, <4>1
    <3>6. CASE disk.record = FirstRecord
      <4>1. Gate(r)'
        BY <1>1, <2>2, <2>6, <3>3, <3>4, <3>6, GateStays
      <4> QED BY <1>13, <4>1
    <3>7. CASE disk.record \notin {NoRecord, FirstRecord}
      <4>1. Rests(c, "failed") /\ disk' = disk
        BY <3>1, <3>2, <3>7 DEF CreateRun, Effect
      <4>2. r.job = "failed"
        BY <1>13, <4>1 DEF Rests, Sets
      <4> QED BY <3>3, <3>7, <4>1
    <3> QED BY <3>5, <3>6, <3>7
  <2> QED BY <2>10, <2>11, <2>12 DEF Recording
<1>18. CASE ~Reload(c, op)
  <2>1. op.do = "point" => op.which \in Stores
    BY <1>8 DEF Warranted
  <2> QED BY <1>3, <1>7, <1>16, <1>17, <1>18, <2>1, Touched
<1> QED BY <1>15, <1>18

\* run() is called, or takes a turn of its loop.
LEMMA TurnGate ==
  ASSUME IInv, OneInv, Gated, NEW c \in DOMAIN crew, Start(c) \/ Dispatch(c),
         NEW p, p = crew[c], Gate(p)
  PROVE  \A r \in {crew'[c]} : Gate(r)'
<1> DEFINE m == disk.record
           job == IF m.run.pending = "none" THEN HandlerOf(m)
                  ELSE IF Answered(m) THEN "resume" ELSE "returned"
<1>1. Keeps /\ crashes' = crashes /\ disk' = disk /\ conf.datasetReview /\ OneProcess
  BY StartKept, DispatchKept DEF Start, Dispatch, Gated
<1>2. p.job \in {"idle", "failed", "returned", "loop"}
  BY DEF Start, Dispatch
<1>3. ~Reviewing(p)
  BY <1>2 DEF Reviewing
<1>4. PICK r : r = crew'[c]
  OBVIOUS
<1>5. CASE r.job \notin Handlers \ {"bootstrap"}
  <2>1. ~ToRequest(r)' /\ Trusted(r)'
    BY <1>5 DEF Reviewing, ToRequest, Trusted, Handlers
  <2>2. Gate(r)'
    BY <1>1, <1>3, <2>1, GateStays
  <2> QED BY <1>4, <2>2
<1>6. CASE r.job \in Handlers \ {"bootstrap"}
  <2>1. Dispatch(c)
    BY <1>4, <1>6 DEF Start, Rests, Sets, Handlers
  <2>2. /\ p.job = "loop"
        /\ IF Ended(m) \/ job \in {"failed", "returned"}
           THEN Rests(c, IF Ended(m) THEN "returned" ELSE job)
           ELSE Sets(c, job, m, m.run.snap, 1)
    BY <2>1 DEF Dispatch
  <2>3. /\ job # "dataset-review"
        /\ job = "model" => m.run.snap.state = "TRAIN_MODEL"
    BY DEF HandlerOf
  <2>4. r.job = job /\ r.meta = m /\ r.snap = m.run.snap /\ r.at = 1
    <3>1. CASE Ended(m) \/ job \in {"failed", "returned"}
      <4>1. r.job \in {"failed", "returned"}
        BY <1>4, <2>2, <3>1 DEF Rests, Sets
      <4> QED BY <1>6, <4>1 DEF Handlers
    <3>2. CASE ~(Ended(m) \/ job \in {"failed", "returned"})
      BY <1>4, <2>2, <3>2 DEF Sets
    <3> QED BY <3>1, <3>2
  <2> HIDE DEF job
  <2>5. m # NoRecord
    BY <2>2 DEF IInv, CrewAtWork, Busy
  <2>6. m.run.snap \in Snapshots /\ conf \in Setups /\ conf' = conf
    BY <1>1, <2>5 DEF IInv, RecordStands, Sized, Keeps
  <2>7. ~Reviewing(r)'
    <3> SUFFICES ASSUME Reviewing(r)' PROVE FALSE
      OBVIOUS
    <3>1. r.job = "batch" /\ Plan(r)'[1].do = "reload"
      BY <2>3, <2>4 DEF Reviewing
    <3>2. Plan(r) = TraceBatch(m, m.run.snap)
      BY <2>4, <3>1 DEF Plan
    <3>3. Plan(r)' = Plan(r)
      <4>1. Prepared("batch", m.run.snap) /\ Sized(m)
        BY <2>5 DEF IInv, RecordStands, Sized, Settled, Prepared
      <4>2. Ready(r)
        BY <2>4, <3>1, <4>1 DEF Ready
      <4> QED BY <1>1, <4>2, PlanStays
    <3>4. Handover(Plan(r))
      BY <1>1, <2>6, <3>2, BatchHandsOver
    <3>5. 1 \in 1..Len(Plan(r))
      <4>1. Len(Plan(r)) >= 1
        <5>1. Prepared("batch", m.run.snap) /\ Sized(m)
          BY <2>5 DEF IInv, RecordStands, Sized, Settled, Prepared
        <5>2. Ready(r)
          BY <2>4, <3>1, <5>1 DEF Ready
        <5> QED BY <1>6, <2>6, <5>2, PlanIsGood
      <4>2. PICK S : Plan(r) \in Seq(S)
        BY <3>4 DEF Handover, IsSeq
      <4> QED BY <4>1, <4>2
    <3> QED BY <3>1, <3>3, <3>4, <3>5 DEF Handover
  <2>8. Trusted(r)'
    <3> SUFFICES ASSUME r.job = "model" PROVE Granted("dataset", r.snap.meta.dataset)'
      BY <2>3, <2>4 DEF Trusted
    <3>1. PICK d : d = m.run.snap.meta.dataset
      OBVIOUS
    <3>2. Granted("dataset", d)
      BY <1>3, <2>3, <2>4, <2>5, <3>1 DEF Gate, Held
    <3>3. Granted("dataset", d)'
      BY <1>1, <3>2, GrantedStays
    <3>4. r.snap.meta.dataset = d
      BY <2>4, <3>1
    <3> QED BY <3>3, <3>4 DEF Granted
  <2>9. Gate(r)'
    BY <1>1, <1>3, <2>7, <2>8, GateStays DEF ToRequest
  <2> QED BY <1>4, <2>9
<1> QED BY <1>5, <1>6

\* A reviewer answers, or nothing happens.
LEMMA OthersGate ==
  ASSUME IInv, OneInv, OneProcess, Keeps, crew' = crew, crashes' = crashes,
         disk'.record = disk.record, disk'.txs = disk.txs, \A p \in {crew[1]} : Gate(p)
  PROVE  \A p \in {crew'[1]} : Gate(p)'
<1>1. PICK p : p = crew[1]
  OBVIOUS
<1>2. Gate(p) /\ Busy(p)
  BY <1>1 DEF OneInv, IInv, CrewAtWork
<1>3. p.job = "batch" => Plan(p)' = Plan(p)
  BY <1>2, PlanStays DEF Busy, Handlers
<1>4. Reviewing(p)' <=> Reviewing(p)
  BY <1>3 DEF Reviewing
<1>5. ToRequest(p)' <=> ToRequest(p)
  BY <1>4 DEF ToRequest
<1>6. Trusted(p)'
  <2>1. PICK d : d = p.snap.meta.dataset
    OBVIOUS
  <2>2. p.job = "model" => Granted("dataset", d)'
    BY <1>2, <2>1, GrantedStays DEF Gate, Trusted
  <2> QED BY <1>2, <2>1, <2>2 DEF Gate, Trusted, Granted
<1>7. Gate(p)'
  BY <1>2, <1>4, <1>5, <1>6, GateStays
<1> QED BY <1>1, <1>7

\* Every step keeps the gate.
LEMMA GateKept == IInv /\ OneInv /\ GateInv /\ [Next]_vars => GateInv'
<1> SUFFICES ASSUME IInv, OneInv, GateInv, [Next]_vars, Gated'
             PROVE  \A r \in {crew'[1]} : Gate(r)'
  BY DEF GateInv
<1>1. Shape' /\ Grows
  BY Step DEF IInv, PointerInv
<1>2. conf' = conf
  BY DEF Next, Goes, Start, Dispatch, Perform, Crash, CrashInWrite, Review, vars
<1>3. Gated /\ OneProcess /\ DOMAIN crew = {1} /\ Shape
  BY <1>2 DEF Gated, OneProcess, OneInv, IInv, PointerInv
<1>4. PICK p : p = crew[1]
  OBVIOUS
<1>5. Gate(p)
  BY <1>3, <1>4 DEF GateInv
<1>6. CASE UNCHANGED vars
  <2>1. disk' = disk /\ conf' = conf /\ crew' = crew /\ crashes' = crashes
    BY <1>6 DEF vars
  <2> QED BY <1>3, <1>4, <1>5, <2>1, DiskKept, OthersGate
<1>7. ASSUME NEW c \in DOMAIN crew, Goes(c)
      PROVE  \A r \in {crew'[1]} : Gate(r)'
  <2>1. c = 1
    BY <1>3
  <2> QED BY <1>1, <1>3, <1>4, <1>5, <1>7, <2>1, ReviewGate, HandlerGate, TurnGate DEF Goes
<1>8. ASSUME NEW c \in DOMAIN crew, Crash(c) \/ CrashInWrite(c)
      PROVE  FALSE
  <2>1. crashes < conf.maxCrashes /\ crashes = 0
    BY <1>5, <1>8 DEF Gate, Crash, CrashInWrite
  <2> QED BY <1>3, <2>1 DEF Gated
<1>9. ASSUME NEW id \in disk.requests, NEW approved \in BOOLEAN, Review(id, approved)
      PROVE  \A r \in {crew'[1]} : Gate(r)'
  <2>1. /\ disk'.record = disk.record /\ disk'.txs = disk.txs /\ crew' = crew
        /\ crashes' = crashes
    BY <1>3, <1>9 DEF Review, Shape
  <2>2. Keeps
    BY <1>1, <1>9, ReviewKept
  <2> QED BY <1>3, <1>4, <1>5, <2>1, <2>2, OthersGate
<1> QED BY <1>6, <1>7, <1>8, <1>9 DEF Next

\* The gate holds before anything ran.
LEMMA GateInit == Init => GateInv
<1> SUFFICES ASSUME Init, OneProcess PROVE \A p \in {crew[1]} : Gate(p)
  BY DEF GateInv, Gated
<1>1. conf.controllers = 1 /\ crew = [c \in 1..conf.controllers |-> Resting]
  BY DEF Init, OneProcess
<1>2. crew[1] = Resting
  BY <1>1
<1>3. disk.record = NoRecord /\ disk.txs = {} /\ crashes = 0
  BY DEF Init, EmptyDisk
<1>4. Gate(Resting)
  BY <1>3 DEF Gate, AllGranted, Held, Fresh, Trusted, Resting
<1> QED BY <1>2, <1>4

\* Nothing that a reviewer has to grant takes effect without the grant: no
\* searched Harness and no trained model is ever active, and where one process
\* runs and does not crash no model is evaluated on a dataset, unless a reviewer
\* approved exactly that subject (_resume_pending_approval, _run_trace_batch,
\* _enter_dataset_review).
THEOREM AuthorityIsHuman == Spec => []HumanAuthority
<1>1. IInv /\ OneInv /\ GateInv => HumanAuthority
  <2> SUFFICES ASSUME IInv, GateInv PROVE HumanAuthority
    OBVIOUS
  <2>1. PointersAuthorised
    BY DEF IInv, Tenure, PointersAuthorised, Stores
  <2>2. ASSUME Alone, conf.datasetReview,
               NEW t \in disk.txs, NEW k \in DOMAIN t.edges,
               t.edges[k].snap.state = "EVALUATE_MODEL"
        PROVE  Granted("dataset", t.edges[k].snap.meta.dataset)
    <3>1. Gated
      BY <2>2 DEF Alone, Gated
    <3>2. AllGranted
      BY <3>1 DEF GateInv, Gate
    <3> QED BY <2>2, <3>2 DEF AllGranted
  <2>3. Alone => DatasetAuthority
    BY <2>2 DEF DatasetAuthority, CommittedEdges
  <2> QED BY <2>1, <2>3 DEF HumanAuthority
<1>2. Init => IInv /\ OneInv /\ GateInv
  BY InvInit, OneInit, GateInit
<1>3. (IInv /\ OneInv /\ GateInv) /\ [Next]_vars => (IInv /\ OneInv /\ GateInv)'
  BY InvKept, OneKept, GateKept
<1> QED BY <1>1, <1>2, <1>3, PTL DEF Spec

=============================================================================
