SPECIFICATION Spec
CONSTANTS
  p1 = p1
  p2 = p2
  NoReviewer = NoReviewer
  NoRequest = NoRequest
  NoDeadline <- MCNoDeadline
  Processes <- MCProcesses
  Requests <- MCRequests
  Times <- MCTimes
  MaxTime = 5
  Fractions = 2
INVARIANTS
  TypeOK
  AuthorityIsJustified
PROPERTIES
  VerdictsAgree
  VerdictIsRegister
