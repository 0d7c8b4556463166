----------------------------- MODULE MCApproval -----------------------------
(* Bounded instance of Approval: two processes and one request, which is due  *)
(* one second after it was made, two ticks a second.  The explicit times are  *)
(* before the request and past its deadline, which the clock crosses.         *)
EXTENDS ApprovalProperties

CONSTANTS p1, p2

MCProcesses == {p1, p2}

MCRequests == {[subject |-> "dataset", requested |-> 2, expires |-> 4]}

MCTimes == {1, 5}

MCNoDeadline == -1

=============================================================================
