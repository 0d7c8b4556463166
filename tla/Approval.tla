------------------------------ MODULE Approval ------------------------------
(***************************************************************************)
(* ApprovalService and ApprovalStore (approval/service.py, store.py) as    *)
(* several processes of one workspace use them: controllers that create    *)
(* requests and ask for their status, and reviewers.  There is no lock:    *)
(* each file is written aside and published by os.link, which fails when   *)
(* the name exists.  A process may die between any two steps.              *)
(*                                                                         *)
(* A request is its content: its identifier is a hash over sample, times   *)
(* and subject (_request_id), so that the same call makes the same request.*)
(* Times are ticks of the clock, a whole second being a multiple of        *)
(* Fractions: timestamps are compared as ISO strings in status, and as     *)
(* times everywhere else.                                                  *)
(***************************************************************************)
EXTENDS Integers

CONSTANTS Processes,
          NoReviewer,    \* nobody
          Requests,      \* [subject, requested, expires]
          NoRequest,     \* none of them; also what a wrong hash stands for
          NoDeadline,    \* decision_ttl_seconds is None
          Times,         \* explicit times callers may pass
          MaxTime,       \* bound on the clock
          Fractions      \* ticks of a second

ASSUME ApprovalAssumption ==
  /\ NoReviewer \notin Processes /\ NoRequest \notin Requests
  /\ MaxTime \in Nat /\ Fractions \in Nat \ {0}
  /\ Times \subseteq Nat
  /\ NoDeadline \notin Nat
  /\ \A r \in Requests : r.requested \in Nat /\ r.expires \in Nat \cup {NoDeadline}

VARIABLES samples, requests,   \* the files that exist
          decision,            \* decisions/<request>.json
          now,                 \* the wall clock
          act,                 \* per process, what it is doing
          ans                  \* per process, the last answer it was given

files == <<samples, requests, decision>>
vars  == <<files, now, act, ans>>

NoDecision == [state |-> "NONE", by |-> NoReviewer, at |-> 0]
Idle       == [op |-> "idle", r |-> NoRequest, d |-> NoDecision, asOf |-> 0]
NoAnswer   == [what |-> "none", r |-> NoRequest, d |-> NoDecision, asOf |-> 0]

Init ==
  /\ samples = {} /\ requests = {}
  /\ decision = [r \in Requests |-> NoDecision]
  /\ now = 0
  /\ act = [p \in Processes |-> Idle]
  /\ ans = [p \in Processes |-> NoAnswer]

Goes(p, op, r, d, asOf) ==
  act' = [act EXCEPT ![p] = [op |-> op, r |-> r, d |-> d, asOf |-> asOf]]

\* The call returns or raises.
Returns(p, what, r, d, asOf) ==
  /\ ans' = [ans EXCEPT ![p] = [what |-> what, r |-> r, d |-> d, asOf |-> asOf]]
  /\ act' = [act EXCEPT ![p] = Idle]

\* _is_expired, which parses the timestamps.
IsExpired(r, t) == r.expires # NoDeadline /\ t > r.expires

\* The order of the strings: "...:07Z" comes after "...:07.25Z".
IsoRank(t) == IF t % Fractions = 0 THEN t + Fractions - 1 ELSE t - 1
IsoAtMost(s, t) == IsoRank(s) <= IsoRank(t)

-----------------------------------------------------------------------------
(* create_request: the sample first, then the request.                       *)

CreateRequest(p, r) ==
  /\ act[p] = Idle
  /\ Goes(p, "sample", r, NoDecision, 0)
  /\ UNCHANGED <<files, now, ans>>

WriteSample(p) ==
  /\ act[p].op = "sample"
  /\ samples' = samples \cup {act[p].r}
  /\ act' = [act EXCEPT ![p].op = "request"]
  /\ UNCHANGED <<requests, decision, now, ans>>

WriteRequest(p) ==
  /\ act[p].op = "request"
  /\ requests' = requests \cup {act[p].r}
  /\ Returns(p, "created", act[p].r, NoDecision, 0)
  /\ UNCHANGED <<samples, decision, now>>

-----------------------------------------------------------------------------
(* review: what it refuses, and the decision it makes otherwise.             *)

\* decided_at, or the clock but never before the request (_not_before).
DecidedAt(r) == Times \cup {IF now < r.requested THEN r.requested ELSE now}

\* A mutant: the deadline is compared with the clock, not with decided_at.
TimelyByClock(r, at) == r.requested <= at /\ ~IsExpired(r, now)

\* _is_expired in review, and commit_decision's check against requested_at.
Timely(r, at) == r.requested <= at /\ ~IsExpired(r, at)

\* A mutant: the request is not loaded.
ReviewableUnseen(r, expected, authorised) == expected = r /\ authorised

\* load_request with its sample, expected_request_sha256, the reviewer's role.
Reviewable(r, expected, authorised) ==
  r \in requests /\ r \in samples /\ expected = r /\ authorised

Review(p, r, expected, authorised, state) ==
  /\ act[p] = Idle
  /\ Reviewable(r, expected, authorised)
  /\ \E at \in DecidedAt(r) :
       Timely(r, at) /\ Goes(p, "publish", r, [state |-> state, by |-> p, at |-> at], 0)
  /\ UNCHANGED <<files, now, ans>>

ReviewRefused(p, r, expected, authorised) ==
  /\ act[p] = Idle
  /\ \/ ~Reviewable(r, expected, authorised)
     \/ \E at \in DecidedAt(r) : ~Timely(r, at)
  /\ Returns(p, "refused", r, NoDecision, 0)
  /\ UNCHANGED <<files, now>>

\* _assert_exact_existing, and load_decision of what is there.
Compares(p) ==
  LET a == act[p]
  IN  IF decision[a.r] = a.d THEN Returns(p, "ok", a.r, a.d, 0)
      ELSE Returns(p, "conflict", a.r, NoDecision, 0)

\* _write_immutable: the path exists already, or the temporary file is written.
Publish(p) ==
  /\ act[p].op = "publish"
  /\ IF decision[act[p].r] # NoDecision THEN Compares(p)
     ELSE act' = [act EXCEPT ![p].op = "link"] /\ UNCHANGED ans
  /\ UNCHANGED <<files, now>>

\* A mutant: the temporary file replaces what is there.
LinkReplaces(p) ==
  /\ act[p].op = "link"
  /\ decision' = [decision EXCEPT ![act[p].r] = act[p].d]
  /\ Returns(p, "ok", act[p].r, act[p].d, 0)
  /\ UNCHANGED <<samples, requests, now>>

\* os.link: another process may have published in the meantime.
Link(p) ==
  /\ act[p].op = "link"
  /\ IF decision[act[p].r] # NoDecision THEN Compares(p) /\ UNCHANGED decision
     ELSE /\ decision' = [decision EXCEPT ![act[p].r] = act[p].d]
          /\ Returns(p, "ok", act[p].r, act[p].d, 0)
  /\ UNCHANGED <<samples, requests, now>>

-----------------------------------------------------------------------------
(* status, and require_approved, which grants on the answer APPROVED.        *)

\* The request is looked for, and the time of the question fixed.
Ask(p, r) ==
  /\ act[p] = Idle
  /\ IF r \notin requests THEN Returns(p, "MISSING", r, NoDecision, 0)
     ELSE /\ \E t \in Times \cup {now} : Goes(p, "answer", r, NoDecision, t)
          /\ UNCHANGED ans
  /\ UNCHANGED <<files, now>>

Undecided(r, t) == IF IsExpired(r, t) THEN "EXPIRED" ELSE "PENDING"

\* A mutant: the deadline is looked at before the decision.
IsSeenInTime(r, t) ==
  /\ decision[r] # NoDecision /\ IsoAtMost(decision[r].at, t)
  /\ ~IsExpired(r, t)

\* A decision counts from its decided_at on.
IsSeen(r, t) == decision[r] # NoDecision /\ IsoAtMost(decision[r].at, t)

Answer(p) ==
  LET a == act[p]
  IN  /\ a.op = "answer"
      /\ IF IsSeen(a.r, a.asOf)
         THEN Returns(p, decision[a.r].state, a.r, decision[a.r], a.asOf)
         ELSE Returns(p, Undecided(a.r, a.asOf), a.r, NoDecision, a.asOf)
      /\ UNCHANGED <<files, now>>

-----------------------------------------------------------------------------

\* A process dies; only published files are left of what it was doing.
Crash(p) ==
  /\ act[p] # Idle
  /\ act' = [act EXCEPT ![p] = Idle]
  /\ UNCHANGED <<files, now, ans>>

Tick == now < MaxTime /\ now' = now + 1 /\ UNCHANGED <<files, act, ans>>

Step(p) ==
  \/ \E r \in Requests : CreateRequest(p, r) \/ Ask(p, r)
  \/ \E r \in Requests, expected \in Requests \cup {NoRequest}, authorised \in BOOLEAN :
       \/ \E state \in {"APPROVED", "DENIED"} : Review(p, r, expected, authorised, state)
       \/ ReviewRefused(p, r, expected, authorised)
  \/ WriteSample(p) \/ WriteRequest(p) \/ Publish(p) \/ Link(p) \/ Answer(p) \/ Crash(p)

Next == (\E p \in Processes : Step(p)) \/ Tick

Spec == Init /\ [][Next]_vars

=============================================================================
