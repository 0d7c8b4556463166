-------------------------- MODULE ApprovalRegister --------------------------
(***************************************************************************)
(* What human approval promises (docs/hitl-approval.md, "Approval state    *)
(* machine"), whoever reviews and however often: a request is missing,     *)
(* then pending, and is decided at most once, by a decision made between   *)
(* its request and its deadline.  Expiry is no state of the store: it is   *)
(* what a pending request looks like at a time.                            *)
(***************************************************************************)
EXTENDS Integers

CONSTANTS Requests,    \* records with the fields requested and expires
          Reviewers,
          NoReviewer,
          NoDeadline   \* expires of a request without a deadline

VARIABLE verdict       \* per request

Missing == [state |-> "MISSING", by |-> NoReviewer, at |-> 0]
Pending == [state |-> "PENDING", by |-> NoReviewer, at |-> 0]

InTime(r, at) == r.requested <= at /\ (r.expires = NoDeadline \/ at <= r.expires)

Init == verdict = [r \in Requests |-> Missing]

Open(r) == verdict[r] = Missing /\ verdict' = [verdict EXCEPT ![r] = Pending]

Decide(r, d) ==
  /\ verdict[r] = Pending
  /\ d.state \in {"APPROVED", "DENIED"} /\ d.by \in Reviewers /\ InTime(r, d.at)
  /\ verdict' = [verdict EXCEPT ![r] = d]

Next == \E r \in Requests : Open(r) \/ Decide(r, verdict'[r])

Spec == Init /\ [][Next]_verdict

=============================================================================
