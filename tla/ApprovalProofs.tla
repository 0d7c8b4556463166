--------------------------- MODULE ApprovalProofs ---------------------------
(***************************************************************************)
(* Approval for any number of processes, requests and times: what anybody  *)
(* was told is on disk, verdicts stick, and the files implement            *)
(* ApprovalRegister.  Each action is shown to be a move of one process     *)
(* that adds to the files (Moves); what moves preserve is proved once.     *)
(***************************************************************************)
EXTENDS ApprovalProperties, TLAPS

Calls ==
  [op : {"idle", "sample", "request", "publish", "link", "answer"},
   r : Requests \cup {NoRequest}, d : Decisions \cup {NoDecision}, asOf : Nat]

Replies ==
  [what : {"none", "created", "refused", "ok", "conflict", "MISSING", "PENDING",
           "EXPIRED", "APPROVED", "DENIED"},
   r : Requests \cup {NoRequest}, d : Decisions \cup {NoDecision}, asOf : Nat]

FilesOK ==
  /\ samples \subseteq Requests /\ requests \subseteq samples
  /\ decision \in [Requests -> Decisions \cup {NoDecision}]
  /\ now \in Nat
  /\ \A r \in Requests : decision[r] # NoDecision =>
       /\ r \in requests
       /\ Timely(r, decision[r].at)

\* A decision on its way to its file was made in time.
CallOK(a) ==
  /\ a.op # "idle" => a.r \in Requests
  /\ a.op = "request" => a.r \in samples
  /\ a.op \in {"publish", "link", "answer"} => a.r \in requests
  /\ a.op \in {"publish", "link"} => a.d \in Decisions /\ Timely(a.r, a.d.at)

ReplyOK(a) ==
  /\ a.d # NoDecision => a.r \in Requests /\ decision[a.r] = a.d
  /\ a.what = "APPROVED" => a.d.state = "APPROVED"

\* The inductive invariant.
IInv ==
  /\ FilesOK
  /\ act \in [Processes -> Calls] /\ \A p \in Processes : CallOK(act[p])
  /\ ans \in [Processes -> Replies] /\ \A p \in Processes : ReplyOK(ans[p])

\* Nothing that was published changes.
Grows ==
  /\ samples \subseteq samples' /\ requests \subseteq requests'
  /\ \A r \in Requests : decision[r] # NoDecision => decision'[r] = decision[r]

\* One process moves.
Moves(p) ==
  /\ Grows /\ FilesOK'
  /\ act' \in [Processes -> Calls] /\ ans' \in [Processes -> Replies]
  /\ \A q \in Processes \ {p} : act'[q] = act[q] /\ ans'[q] = ans[q]
  /\ CallOK(act[p])' /\ ReplyOK(ans[p])'

-----------------------------------------------------------------------------

\* No decision that was made is the absent one.
LEMMA DecisionsAreSome == NoDecision \notin Decisions
  BY DEF NoDecision, Decisions

\* The initial state satisfies the invariant.
LEMMA InitIInv == Init => IInv
  BY ApprovalAssumption, DecisionsAreSome
  DEF Init, IInv, FilesOK, Calls, Replies, CallOK, ReplyOK, Idle, NoAnswer

\* The invariant is what the run checks, and more.
LEMMA IInvImplies == IInv => TypeOK /\ AuthorityIsJustified
<1> SUFFICES ASSUME IInv PROVE TypeOK /\ AuthorityIsJustified
  OBVIOUS
<1>1. TypeOK
  BY DEF IInv, FilesOK, Calls, Replies, CallOK, TypeOK
<1>2. ASSUME NEW r \in Requests, decision[r] # NoDecision
      PROVE  /\ r \in requests /\ r \in samples
             /\ r.requested <= decision[r].at
             /\ r.expires # NoDeadline => decision[r].at <= r.expires
  <2>1. decision[r].at \in Nat
    BY <1>2 DEF IInv, FilesOK, Decisions
  <2>2. QED
    BY <1>2, <2>1, ApprovalAssumption DEF IInv, FilesOK, Timely, IsExpired
<1>3. \A p \in Processes : ReplyOK(ans[p])
  BY DEF IInv
<1>4. AuthorityIsJustified
  BY <1>2, <1>3 DEF ReplyOK, AuthorityIsJustified
<1>5. QED
  BY <1>1, <1>4

\* What was promised to a process that does not move still holds.
LEMMA OthersUndisturbed ==
  ASSUME IInv, Grows, NEW q \in Processes, act'[q] = act[q], ans'[q] = ans[q]
  PROVE  CallOK(act[q])' /\ ReplyOK(ans[q])'
<1>1. CallOK(act[q]) /\ ReplyOK(ans[q]) /\ ans[q] \in Replies
  BY DEF IInv
<1>2. CallOK(act[q])'
  BY <1>1 DEF CallOK, Grows, Timely, IsExpired
<1>3. ReplyOK(ans[q])'
  BY <1>1 DEF ReplyOK, Grows
<1>4. QED
  BY <1>2, <1>3

\* A move of one process preserves the invariant.
LEMMA MovesKeep ==
  ASSUME IInv, NEW p \in Processes, Moves(p)
  PROVE  IInv'
<1>1. ASSUME NEW q \in Processes PROVE CallOK(act[q])' /\ ReplyOK(ans[q])'
  <2>1. CASE q = p
    BY <2>1 DEF Moves
  <2>2. CASE q # p
    BY <2>2, OthersUndisturbed DEF Moves
  <2>3. QED
    BY <2>1, <2>2
<1>2. QED
  BY <1>1 DEF IInv, Moves

\* Files that stay as they are satisfy what they did.
LEMMA FilesStay ==
  ASSUME IInv, UNCHANGED files, now' \in Nat
  PROVE  Grows /\ FilesOK'
  BY DEF IInv, FilesOK, Grows, files, Timely, IsExpired

-----------------------------------------------------------------------------
(* One lemma per action: it is a move.                                       *)

\* A call that only takes its next step.
LEMMA GoingMoves ==
  ASSUME IInv, NEW p \in Processes, UNCHANGED <<files, now, ans>>,
         NEW c \in Calls, act' = [act EXCEPT ![p] = c], CallOK(c)
  PROVE  Moves(p)
<1>1. Grows /\ FilesOK'
  BY FilesStay DEF IInv, FilesOK
<1>2. act' \in [Processes -> Calls] /\ act'[p] = c /\ \A q \in Processes \ {p} : act'[q] = act[q]
  BY DEF IInv
<1>3. CallOK(act[p])'
  BY <1>2 DEF CallOK, files, Timely, IsExpired
<1>4. ReplyOK(ans[p])'
  BY DEF IInv, ReplyOK, files
<1>5. QED
  BY <1>1, <1>2, <1>3, <1>4 DEF IInv, Moves

\* A call that ends with nothing but an answer.
LEMMA ReturningMoves ==
  ASSUME IInv, NEW p \in Processes, UNCHANGED <<files, now>>,
         NEW y \in Replies, ans' = [ans EXCEPT ![p] = y], ReplyOK(y),
         act' = [act EXCEPT ![p] = Idle]
  PROVE  Moves(p)
<1>1. Grows /\ FilesOK'
  BY FilesStay DEF IInv, FilesOK
<1>2. Idle \in Calls /\ Idle.op = "idle"
  BY DEF Calls, Idle
<1>3. /\ act' \in [Processes -> Calls] /\ act'[p] = Idle
      /\ ans' \in [Processes -> Replies] /\ ans'[p] = y
      /\ \A q \in Processes \ {p} : act'[q] = act[q] /\ ans'[q] = ans[q]
  BY <1>2 DEF IInv
<1>4. CallOK(act[p])'
  BY <1>2, <1>3 DEF CallOK
<1>5. ReplyOK(ans[p])'
  BY <1>3 DEF ReplyOK, files
<1>6. QED
  BY <1>1, <1>3, <1>4, <1>5 DEF Moves

LEMMA CreateMoves ==
  ASSUME IInv, NEW p \in Processes, NEW r \in Requests, CreateRequest(p, r)
  PROVE  Moves(p)
<1> DEFINE c == [op |-> "sample", r |-> r, d |-> NoDecision, asOf |-> 0]
<1>1. c \in Calls /\ CallOK(c)
  BY DEF Calls, CallOK
<1>2. act' = [act EXCEPT ![p] = c] /\ UNCHANGED <<files, now, ans>>
  BY DEF CreateRequest, Goes
<1> HIDE DEF c
<1>3. QED
  BY <1>1, <1>2, GoingMoves

LEMMA SampleMoves ==
  ASSUME IInv, NEW p \in Processes, WriteSample(p)
  PROVE  Moves(p)
<1>1. act[p] \in Calls /\ act[p].r \in Requests
  BY DEF IInv, CallOK, WriteSample
<1>2. Grows /\ FilesOK'
  BY <1>1 DEF WriteSample, IInv, FilesOK, Grows, Timely, IsExpired
<1>3. /\ act'[p] = [act[p] EXCEPT !.op = "request"]
      /\ \A q \in Processes \ {p} : act'[q] = act[q]
      /\ act' = [act EXCEPT ![p] = [act[p] EXCEPT !.op = "request"]]
  BY DEF WriteSample, IInv
<1>4. /\ act'[p] \in Calls /\ act'[p].op = "request" /\ act'[p].r = act[p].r
  BY <1>1, <1>3 DEF Calls
<1>5. act' \in [Processes -> Calls]
  BY <1>3, <1>4 DEF IInv
<1>6. CallOK(act[p])'
  BY <1>1, <1>4 DEF CallOK, WriteSample
<1>7. ReplyOK(ans[p])'
  BY DEF IInv, ReplyOK, WriteSample
<1>8. QED
  BY <1>2, <1>3, <1>5, <1>6, <1>7 DEF WriteSample, IInv, Moves

LEMMA RequestMoves ==
  ASSUME IInv, NEW p \in Processes, WriteRequest(p)
  PROVE  Moves(p)
<1> DEFINE y == [what |-> "created", r |-> act[p].r, d |-> NoDecision, asOf |-> 0]
<1>1. act[p].r \in Requests /\ act[p].r \in samples
  BY DEF IInv, CallOK, WriteRequest
<1>2. Grows /\ FilesOK'
  BY <1>1 DEF WriteRequest, IInv, FilesOK, Grows, Timely, IsExpired
<1>3. y \in Replies /\ y.d = NoDecision /\ y.what # "APPROVED"
  BY <1>1 DEF Replies
<1>4. Idle \in Calls /\ Idle.op = "idle"
  BY DEF Calls, Idle
<1>5. ans' = [ans EXCEPT ![p] = y] /\ act' = [act EXCEPT ![p] = Idle]
  BY DEF WriteRequest, Returns
<1> HIDE DEF y
<1>6. /\ act' \in [Processes -> Calls] /\ act'[p] = Idle
      /\ ans' \in [Processes -> Replies] /\ ans'[p] = y
      /\ \A q \in Processes \ {p} : act'[q] = act[q] /\ ans'[q] = ans[q]
  BY <1>3, <1>4, <1>5 DEF IInv
<1>7. CallOK(act[p])' /\ ReplyOK(ans[p])'
  BY <1>3, <1>4, <1>6 DEF CallOK, ReplyOK
<1>8. QED
  BY <1>2, <1>6, <1>7 DEF Moves

LEMMA ReviewMoves ==
  ASSUME IInv, NEW p \in Processes, NEW r \in Requests, NEW expected,
         NEW authorised \in BOOLEAN, NEW state \in {"APPROVED", "DENIED"},
         Review(p, r, expected, authorised, state)
  PROVE  Moves(p)
<1>1. PICK at \in DecidedAt(r) :
        Timely(r, at) /\ Goes(p, "publish", r, [state |-> state, by |-> p, at |-> at], 0)
  BY DEF Review
<1>2. at \in Nat
  BY ApprovalAssumption DEF DecidedAt, IInv, FilesOK
<1> DEFINE d == [state |-> state, by |-> p, at |-> at]
           c == [op |-> "publish", r |-> r, d |-> d, asOf |-> 0]
<1>3. d \in Decisions /\ d.at = at
  BY <1>2 DEF Decisions
<1>4. r \in requests
  BY DEF Review, Reviewable
<1>5. act' = [act EXCEPT ![p] = c] /\ UNCHANGED <<files, now, ans>>
  BY <1>1 DEF Review, Goes
<1> HIDE DEF d
<1>6. c \in Calls /\ c.op = "publish" /\ c.r = r /\ c.d = d
  BY <1>3 DEF Calls
<1> HIDE DEF c
<1>7. CallOK(c)
  BY <1>1, <1>3, <1>4, <1>6 DEF CallOK
<1>8. QED
  BY <1>5, <1>6, <1>7, GoingMoves

LEMMA RefusedMoves ==
  ASSUME IInv, NEW p \in Processes, NEW r \in Requests, NEW expected,
         NEW authorised \in BOOLEAN, ReviewRefused(p, r, expected, authorised)
  PROVE  Moves(p)
<1> DEFINE y == [what |-> "refused", r |-> r, d |-> NoDecision, asOf |-> 0]
<1>1. y \in Replies /\ ReplyOK(y)
  BY DEF Replies, ReplyOK
<1>2. ans' = [ans EXCEPT ![p] = y] /\ act' = [act EXCEPT ![p] = Idle] /\ UNCHANGED <<files, now>>
  BY DEF ReviewRefused, Returns
<1> HIDE DEF y
<1>3. QED
  BY <1>1, <1>2, ReturningMoves

\* The decision found under the name is the process's own, or a conflict.
LEMMA ComparesMoves ==
  ASSUME IInv, NEW p \in Processes, act[p].op \in {"publish", "link"}, Compares(p),
         UNCHANGED <<files, now>>
  PROVE  Moves(p)
<1> DEFINE y == IF decision[act[p].r] = act[p].d
                THEN [what |-> "ok", r |-> act[p].r, d |-> act[p].d, asOf |-> 0]
                ELSE [what |-> "conflict", r |-> act[p].r, d |-> NoDecision, asOf |-> 0]
<1>1. act[p].r \in Requests /\ act[p].d \in Decisions
  BY DEF IInv, CallOK
<1>2. y \in Replies
  BY <1>1 DEF Replies
<1>3. ReplyOK(y)
  BY <1>1 DEF ReplyOK
<1>4. ans' = [ans EXCEPT ![p] = y] /\ act' = [act EXCEPT ![p] = Idle]
  BY DEF Compares, Returns
<1> HIDE DEF y
<1>5. QED
  BY <1>2, <1>3, <1>4, ReturningMoves

LEMMA PublishMoves ==
  ASSUME IInv, NEW p \in Processes, Publish(p)
  PROVE  Moves(p)
<1>1. CASE Compares(p)
  BY <1>1, ComparesMoves DEF Publish
<1>2. CASE act' = [act EXCEPT ![p].op = "link"] /\ UNCHANGED ans
  <2> DEFINE c == [act[p] EXCEPT !.op = "link"]
  <2>1. act[p] \in Calls /\ CallOK(act[p]) /\ act[p].op = "publish"
    BY DEF IInv, Publish
  <2>2. c \in Calls /\ c.op = "link" /\ c.r = act[p].r /\ c.d = act[p].d
    BY <2>1 DEF Calls
  <2>3. act' = [act EXCEPT ![p] = c] /\ UNCHANGED <<files, now, ans>>
    BY <1>2 DEF Publish, IInv
  <2> HIDE DEF c
  <2>4. CallOK(c)
    BY <2>1, <2>2 DEF CallOK
  <2>5. QED
    BY <2>2, <2>3, <2>4, GoingMoves
<1>3. QED
  BY <1>1, <1>2 DEF Publish

LEMMA LinkMoves ==
  ASSUME IInv, NEW p \in Processes, Link(p)
  PROVE  Moves(p)
<1>1. CASE Compares(p) /\ UNCHANGED decision
  BY <1>1, ComparesMoves DEF Link, files
<1>2. CASE /\ decision[act[p].r] = NoDecision
           /\ decision' = [decision EXCEPT ![act[p].r] = act[p].d]
           /\ Returns(p, "ok", act[p].r, act[p].d, 0)
  <2> DEFINE y == [what |-> "ok", r |-> act[p].r, d |-> act[p].d, asOf |-> 0]
  <2>1. /\ act[p].r \in Requests /\ act[p].d \in Decisions /\ act[p].r \in requests
        /\ Timely(act[p].r, act[p].d.at)
    BY DEF Link, IInv, CallOK
  <2>2. \A r \in Requests : decision'[r] = IF r = act[p].r THEN act[p].d ELSE decision[r]
    BY <1>2, <2>1 DEF IInv, FilesOK
  <2>3. UNCHANGED <<samples, requests, now>>
    BY DEF Link
  <2>4. Grows
    BY <1>2, <2>2, <2>3 DEF Grows
  <2>5. decision' \in [Requests -> Decisions \cup {NoDecision}]
    BY <1>2, <2>1 DEF IInv, FilesOK
  <2>6. \A r \in Requests : decision'[r] # NoDecision =>
          r \in requests /\ Timely(r, decision'[r].at)
    BY <2>1, <2>2 DEF IInv, FilesOK
  <2>7. FilesOK'
    BY <2>3, <2>5, <2>6 DEF IInv, FilesOK, Timely, IsExpired
  <2>8. y \in Replies /\ y.r = act[p].r /\ y.d = act[p].d /\ y.what = "ok"
    BY <2>1 DEF Replies
  <2>9. ans' = [ans EXCEPT ![p] = y] /\ act' = [act EXCEPT ![p] = Idle]
    BY <1>2 DEF Returns
  <2> HIDE DEF y
  <2>10. Idle \in Calls /\ Idle.op = "idle"
    BY DEF Calls, Idle
  <2>11. /\ act' \in [Processes -> Calls] /\ act'[p] = Idle
         /\ ans' \in [Processes -> Replies] /\ ans'[p] = y
         /\ \A q \in Processes \ {p} : act'[q] = act[q] /\ ans'[q] = ans[q]
    BY <2>8, <2>9, <2>10 DEF IInv
  <2>12. CallOK(act[p])'
    BY <2>10, <2>11 DEF CallOK
  <2>13. ReplyOK(ans[p])'
    BY <2>1, <2>2, <2>8, <2>11 DEF ReplyOK
  <2>14. QED
    BY <2>4, <2>7, <2>11, <2>12, <2>13 DEF Moves
<1>3. QED
  BY <1>1, <1>2 DEF Link

LEMMA AskMoves ==
  ASSUME IInv, NEW p \in Processes, NEW r \in Requests, Ask(p, r)
  PROVE  Moves(p)
<1>1. CASE Returns(p, "MISSING", r, NoDecision, 0)
  <2> DEFINE y == [what |-> "MISSING", r |-> r, d |-> NoDecision, asOf |-> 0]
  <2>1. y \in Replies /\ ReplyOK(y)
    BY DEF Replies, ReplyOK
  <2>2. ans' = [ans EXCEPT ![p] = y] /\ act' = [act EXCEPT ![p] = Idle]
        /\ UNCHANGED <<files, now>>
    BY <1>1 DEF Ask, Returns
  <2> HIDE DEF y
  <2>3. QED
    BY <2>1, <2>2, ReturningMoves
<1>2. CASE r \in requests /\ UNCHANGED ans
           /\ \E t \in Times \cup {now} : Goes(p, "answer", r, NoDecision, t)
  <2>1. PICK t \in Times \cup {now} : Goes(p, "answer", r, NoDecision, t)
    BY <1>2
  <2>2. t \in Nat
    BY ApprovalAssumption DEF IInv, FilesOK
  <2> DEFINE c == [op |-> "answer", r |-> r, d |-> NoDecision, asOf |-> t]
  <2>3. c \in Calls /\ CallOK(c)
    BY <1>2, <2>2 DEF Calls, CallOK
  <2>4. act' = [act EXCEPT ![p] = c] /\ UNCHANGED <<files, now, ans>>
    BY <1>2, <2>1 DEF Ask, Goes
  <2> HIDE DEF c
  <2>5. QED
    BY <2>3, <2>4, GoingMoves
<1>3. QED
  BY <1>1, <1>2 DEF Ask

\* What status answers; used for the answer's truth and for its lastingness.
Told(p) ==
  LET a == act[p]
  IN  IF IsSeen(a.r, a.asOf)
      THEN [what |-> decision[a.r].state, r |-> a.r, d |-> decision[a.r], asOf |-> a.asOf]
      ELSE [what |-> Undecided(a.r, a.asOf), r |-> a.r, d |-> NoDecision, asOf |-> a.asOf]

LEMMA AnswerMoves ==
  ASSUME IInv, NEW p \in Processes, Answer(p)
  PROVE  Moves(p) /\ ans'[p] = Told(p)
<1>1. act[p].r \in Requests /\ act[p].asOf \in Nat
  BY DEF Answer, IInv, CallOK, Calls
<1>2. IsSeen(act[p].r, act[p].asOf) =>
        decision[act[p].r] \in Decisions /\ decision[act[p].r].state \in {"APPROVED", "DENIED"}
  BY <1>1 DEF IsSeen, IInv, FilesOK, Decisions
<1>3. Undecided(act[p].r, act[p].asOf) \in {"PENDING", "EXPIRED"}
  BY DEF Undecided
<1>4. Told(p) \in Replies
  BY <1>1, <1>2, <1>3 DEF Told, Replies
<1>5. ReplyOK(Told(p))
  BY <1>1, <1>2, <1>3 DEF Told, ReplyOK
<1>6. ans' = [ans EXCEPT ![p] = Told(p)] /\ act' = [act EXCEPT ![p] = Idle]
      /\ UNCHANGED <<files, now>>
  BY DEF Answer, Returns, Told
<1>7. Moves(p)
  BY <1>4, <1>5, <1>6, ReturningMoves
<1>8. QED
  BY <1>6, <1>7 DEF IInv

LEMMA CrashMoves ==
  ASSUME IInv, NEW p \in Processes, Crash(p)
  PROVE  Moves(p)
<1>1. Idle \in Calls /\ CallOK(Idle)
  BY DEF Calls, Idle, CallOK
<1>2. QED
  BY <1>1, GoingMoves DEF Crash

\* Every step is a move, a tick, or nothing.
LEMMA StepMoves ==
  ASSUME IInv, NEW p \in Processes, Step(p)
  PROVE  Moves(p)
  BY CreateMoves, SampleMoves, RequestMoves, ReviewMoves, RefusedMoves, PublishMoves,
     LinkMoves, AskMoves, AnswerMoves, CrashMoves DEF Step

\* Every step preserves the invariant.
LEMMA NextIInv == IInv /\ [Next]_vars => IInv'
<1> SUFFICES ASSUME IInv, [Next]_vars PROVE IInv'
  OBVIOUS
<1>1. ASSUME NEW p \in Processes, Step(p) PROVE IInv'
  BY <1>1, StepMoves, MovesKeep
<1>2. CASE UNCHANGED <<files, act, ans>> /\ now' \in Nat
  <2>1. Grows /\ FilesOK'
    BY <1>2, FilesStay
  <2>2. QED
    BY <1>2, <2>1, OthersUndisturbed DEF IInv
<1>3. CASE Tick
  BY <1>2, <1>3 DEF Tick, IInv, FilesOK
<1>4. CASE UNCHANGED vars
  BY <1>2, <1>4 DEF vars, IInv, FilesOK
<1>5. QED
  BY <1>1, <1>3, <1>4 DEF Next

\* The invariant holds throughout.
LEMMA Invariance == Spec => []IInv
  BY InitIInv, NextIInv, PTL DEF Spec

-----------------------------------------------------------------------------

\* The files, calls and answers of the approval store are well formed.
THEOREM TypeCorrect == Spec => []TypeOK
  BY Invariance, IInvImplies, PTL

\* Whoever was told of a decision was told the one on disk, whoever else
\* reviewed (ApprovalStore.commit_decision).
THEOREM AuthorityJustified == Spec => []AuthorityIsJustified
  BY Invariance, IInvImplies, PTL

-----------------------------------------------------------------------------

\* Only status gives an answer about the state of a request.
LEMMA OnlyStatusAnswers ==
  ASSUME IInv, NEW p \in Processes, NEW q \in Processes, Step(q), ans'[p] # ans[p],
         ans'[p].what \in StatusAnswers
  PROVE  p = q /\ Answer(p)
<1>1. p = q
  BY StepMoves DEF Moves
<1>2. ASSUME NEW what \in {"created", "refused", "ok", "conflict", "MISSING"},
             NEW r, NEW d, NEW t, Returns(p, what, r, d, t)
      PROVE  FALSE
  <2>1. ans'[p].what = what
    BY <1>2 DEF Returns, IInv
  <2>2. QED
    BY <2>1 DEF StatusAnswers
<1>3. ~UNCHANGED ans
  OBVIOUS
<1>4. ~Compares(p)
  BY <1>2 DEF Compares
<1>5. \A r \in Requests : ~CreateRequest(p, r) /\ ~Ask(p, r)
  BY <1>2, <1>3 DEF CreateRequest, Ask
<1>6. ~WriteSample(p) /\ ~WriteRequest(p) /\ ~Publish(p) /\ ~Link(p) /\ ~Crash(p)
  BY <1>2, <1>3, <1>4 DEF WriteSample, WriteRequest, Publish, Link, Crash
<1>7. \A r \in Requests, expected \in Requests \cup {NoRequest}, authorised \in BOOLEAN :
        /\ \A state \in {"APPROVED", "DENIED"} : ~Review(p, r, expected, authorised, state)
        /\ ~ReviewRefused(p, r, expected, authorised)
  BY <1>2, <1>3 DEF Review, ReviewRefused
<1>8. QED
  BY <1>1, <1>5, <1>6, <1>7 DEF Step

\* The strings of two times disagree with the times by less than a second.
LEMMA StringsAreClose ==
  ASSUME NEW s \in Nat, NEW t \in Nat, ~IsoAtMost(s, t)
  PROVE  t < s + Fractions
<1>1. IsoRank(s) \in {s + Fractions - 1, s - 1} /\ IsoRank(t) \in {t + Fractions - 1, t - 1}
  BY DEF IsoRank
<1>2. QED
  BY <1>1, ApprovalAssumption DEF IsoAtMost

\* What status answers agrees with what anybody was told before.
LEMMA AnswerAgrees ==
  ASSUME IInv, NEW p \in Processes, Answer(p)
  PROVE  (\A q \in Processes : Sticks(ans[q], ans'[p])) /\ OverlookedBriefly(ans'[p])
<1>1. ans'[p] = Told(p)
  BY AnswerMoves
<1>2. act[p].r \in Requests /\ act[p].asOf \in Nat
  BY DEF Answer, IInv, CallOK, Calls
<1>3. ans'[p].r = act[p].r /\ ans'[p].asOf = act[p].asOf
  BY <1>1 DEF Told
<1>4. ASSUME NEW q \in Processes PROVE Sticks(ans[q], ans'[p])
  <2>1. ReplyOK(ans[q])
    BY DEF IInv
  <2>2. QED
    BY <1>1, <1>2, <2>1 DEF Sticks, Told, IsSeen, ReplyOK
<1>5. OverlookedBriefly(ans'[p])
  <2>1. SUFFICES ASSUME ans'[p].what \in {"PENDING", "EXPIRED"}, decision[act[p].r] # NoDecision
                 PROVE  act[p].asOf < decision[act[p].r].at + Fractions
    BY <1>3 DEF OverlookedBriefly
  <2>2. decision[act[p].r] \in Decisions
    BY <1>2, <2>1 DEF IInv, FilesOK
  <2>3. decision[act[p].r].state \notin {"PENDING", "EXPIRED"} /\ decision[act[p].r].at \in Nat
    BY <2>2 DEF Decisions
  <2>4. ~IsSeen(act[p].r, act[p].asOf)
    BY <1>1, <2>1, <2>3 DEF Told
  <2>5. ~IsoAtMost(decision[act[p].r].at, act[p].asOf)
    BY <2>1, <2>4 DEF IsSeen
  <2>6. QED
    BY <1>2, <2>3, <2>5, StringsAreClose
<1>6. QED
  BY <1>4, <1>5

\* A verdict anybody was told is the answer to every later question about a
\* time from it on; strings hide it for less than a second (ApprovalService.status).
THEOREM VerdictsStick == Spec => VerdictsAgree
<1>1. ASSUME IInv, [Next]_vars, NEW p \in Processes, ans'[p] # ans[p]
      PROVE  (\A q \in Processes : Sticks(ans[q], ans'[p])) /\ OverlookedBriefly(ans'[p])
  <2>1. CASE ans'[p].what \in StatusAnswers
    <3>1. PICK q \in Processes : Step(q)
      BY <1>1 DEF Next, Tick, vars
    <3>2. Answer(p)
      BY <1>1, <2>1, <3>1, OnlyStatusAnswers
    <3>3. QED
      BY <1>1, <3>2, AnswerAgrees
  <2>2. CASE ans'[p].what \notin StatusAnswers
    BY <2>2 DEF Sticks, OverlookedBriefly, StatusAnswers
  <2>3. QED
    BY <2>1, <2>2
<1>2. IInv /\ [Next]_vars =>
        [\A p \in Processes : ans'[p] # ans[p] =>
           /\ \A q \in Processes : Sticks(ans[q], ans'[p])
           /\ OverlookedBriefly(ans'[p])]_vars
  BY <1>1
<1>3. QED
  BY <1>2, Invariance, PTL DEF Spec, VerdictsAgree

-----------------------------------------------------------------------------

\* The state of a request, as the files tell it.
Verdict ==
  [r \in Requests |->
    IF decision[r] # NoDecision THEN decision[r]
    ELSE [state |-> IF r \in requests THEN "PENDING" ELSE "MISSING",
          by |-> NoReviewer, at |-> 0]]

\* A request that appears goes from missing to pending.
LEMMA RequestOpens ==
  ASSUME IInv, NEW p \in Processes, WriteRequest(p)
  PROVE  [Register!Next]_Verdict
<1>1. PICK r \in Requests : requests' = requests \cup {r} /\ decision' = decision
  BY DEF WriteRequest, IInv, CallOK
<1>2. CASE r \in requests
  BY <1>1, <1>2 DEF Verdict
<1>3. CASE r \notin requests
  <2>1. decision[r] = NoDecision
    BY <1>1, <1>3 DEF IInv, FilesOK
  <2>2. Verdict[r] = Register!Missing
    BY <1>1, <1>3, <2>1 DEF Verdict, Register!Missing
  <2>3. Verdict' = [Verdict EXCEPT ![r] = Register!Pending]
    BY <1>1, <2>1 DEF Verdict, Register!Pending
  <2>4. Register!Open(r)
    BY <2>2, <2>3 DEF Register!Open, Verdict
  <2>5. QED
    BY <1>1, <2>4 DEF Register!Next
<1>4. QED
  BY <1>2, <1>3

\* The process whose link succeeds decides.
LEMMA LinkDecides ==
  ASSUME IInv, NEW p \in Processes, Link(p)
  PROVE  [Register!Next]_Verdict
<1>1. PICK r \in Requests, d \in Decisions :
        /\ r = act[p].r /\ d = act[p].d /\ r \in requests /\ Timely(r, d.at)
        /\ requests' = requests
  BY DEF Link, IInv, CallOK
<1>2. CASE UNCHANGED decision
  BY <1>1, <1>2 DEF Verdict
<1>3. CASE decision[r] = NoDecision /\ decision' = [decision EXCEPT ![r] = d]
  <2>1. d # NoDecision /\ d.state \in {"APPROVED", "DENIED"} /\ d.by \in Processes /\ d.at \in Nat
    BY <1>1, DecisionsAreSome DEF Decisions
  <2>2. Register!InTime(r, d.at)
    BY <1>1, <2>1, ApprovalAssumption DEF Register!InTime, Timely, IsExpired
  <2>3. Verdict[r] = Register!Pending
    BY <1>1, <1>3 DEF Verdict, Register!Pending
  <2>4. \A q \in Requests : decision'[q] = IF q = r THEN d ELSE decision[q]
    BY <1>1, <1>3 DEF IInv, FilesOK
  <2>5. Verdict' = [Verdict EXCEPT ![r] = d]
    BY <1>1, <2>1, <2>4 DEF Verdict
  <2>6. Verdict'[r] = d
    BY <1>1, <2>1, <2>4 DEF Verdict
  <2>7. QED
    BY <2>1, <2>2, <2>3, <2>5, <2>6 DEF Register!Next, Register!Decide, Verdict
<1>4. QED
  BY <1>1, <1>2, <1>3 DEF Link

\* Every step of the store is one of the register, or none.
LEMMA StepSimulated ==
  ASSUME IInv, [Next]_vars
  PROVE  [Register!Next]_Verdict
<1>1. CASE UNCHANGED <<requests, decision>>
  BY <1>1 DEF Verdict
<1>2. ASSUME NEW p \in Processes, Step(p)
      PROVE  \/ UNCHANGED <<requests, decision>> \/ WriteRequest(p) \/ Link(p)
  BY <1>2
  DEF Step, CreateRequest, WriteSample, Review, ReviewRefused, Publish, Ask, Answer, Crash, files
<1>3. CASE \E p \in Processes : Step(p)
  BY <1>1, <1>2, <1>3, RequestOpens, LinkDecides
<1>4. CASE Tick \/ UNCHANGED vars
  BY <1>1, <1>4 DEF Tick, vars, files
<1>5. QED
  BY <1>3, <1>4 DEF Next

\* The files implement the state machine of docs/hitl-approval.md.
THEOREM ImplementsRegister == Spec => VerdictIsRegister
<1>1. Init => Register!Init
  BY DEF Init, Register!Init, Register!Missing
<1>2. IInv /\ [Next]_vars => [Register!Next]_Verdict
  BY StepSimulated
<1>3. QED
  BY <1>1, <1>2, Invariance, PTL DEF Spec, VerdictIsRegister, Register!Spec, Verdict

=============================================================================
