------------------------- MODULE ApprovalProperties -------------------------
(***************************************************************************)
(* What controllers and reviewers may rely on.                             *)
(***************************************************************************)
EXTENDS Approval

Decisions == [state : {"APPROVED", "DENIED"}, by : Processes, at : Nat]

\* The files, calls and answers are well formed, and whoever is publishing or
\* answering has seen the request and its sample (load_request).
TypeOK ==
  /\ samples \subseteq Requests /\ requests \subseteq samples
  /\ decision \in [Requests -> Decisions \cup {NoDecision}]
  /\ now \in Nat
  /\ act \in [Processes ->
       [op : {"idle", "sample", "request", "publish", "link", "answer"},
        r : Requests \cup {NoRequest}, d : Decisions \cup {NoDecision}, asOf : Nat]]
  /\ ans \in [Processes ->
       [what : {"none", "created", "refused", "ok", "conflict", "MISSING", "PENDING",
                "EXPIRED", "APPROVED", "DENIED"},
        r : Requests \cup {NoRequest}, d : Decisions \cup {NoDecision}, asOf : Nat]]
  /\ \A p \in Processes :
       /\ act[p].op # "idle" => act[p].r \in Requests
       /\ act[p].op = "request" => act[p].r \in samples
       /\ act[p].op \in {"publish", "link", "answer"} => act[p].r \in requests
       /\ act[p].op \in {"publish", "link"} => act[p].d \in Decisions

\* Whoever was told of a decision, a reviewer by "ok" or a controller by
\* APPROVED or DENIED, was told the one that is on disk for that request, for
\* good, whoever else reviewed at the same time and whatever died in between
\* (_write_immutable, require_approved).  And every decision on disk has its
\* request and sample beside it and was made in time.
AuthorityIsJustified ==
  /\ \A p \in Processes : ans[p].d # NoDecision => decision[ans[p].r] = ans[p].d
  /\ \A p \in Processes : ans[p].what = "APPROVED" => ans[p].d.state = "APPROVED"
  /\ \A r \in Requests : decision[r] # NoDecision =>
       /\ r \in requests /\ r \in samples
       /\ r.requested <= decision[r].at
       /\ r.expires # NoDeadline => decision[r].at <= r.expires

StatusAnswers == {"PENDING", "EXPIRED", "APPROVED", "DENIED"}

Sticks(old, new) ==
  /\ old.d # NoDecision /\ new.what \in StatusAnswers /\ old.r = new.r
  /\ IsoAtMost(old.d.at, new.asOf)
  => new.d = old.d

OverlookedBriefly(new) ==
  /\ new.what \in {"PENDING", "EXPIRED"} /\ decision[new.r] # NoDecision
  => new.asOf < decision[new.r].at + Fractions

\* A verdict that anybody was told is the answer to every later question about
\* a time from its decided_at on, also past the deadline; and the comparison of
\* timestamps as strings makes status overlook a decision for less than a
\* second (status, service.py).
VerdictsAgree ==
  [][\A p \in Processes : ans'[p] # ans[p] =>
       /\ \A q \in Processes : Sticks(ans[q], ans'[p])
       /\ OverlookedBriefly(ans'[p])]_vars

Register ==
  INSTANCE ApprovalRegister WITH
    Reviewers <- Processes,
    verdict <- [r \in Requests |->
      IF decision[r] # NoDecision THEN decision[r]
      ELSE [state |-> IF r \in requests THEN "PENDING" ELSE "MISSING",
            by |-> NoReviewer, at |-> 0]]

\* Files published one by one without a lock, by processes that may die in
\* between, implement the state machine of a request: missing, pending, decided
\* once and in time.
VerdictIsRegister == Register!Spec

=============================================================================
