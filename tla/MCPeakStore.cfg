SPECIFICATION FairSpec
CONSTANTS
  w1 = w1
  w2 = w2
  c0 = c0
  c1 = c1
  c2 = c2
  c3 = c3
  c4 = c4
  c5 = c5
  NoWriter = NoWriter
  NoCheckpoint = NoCheckpoint
  Writers <- MCWriters
  Checkpoints <- MCCheckpoints
  Updates <- MCUpdates
  Linked <- Good
  Calls <- MCCalls
  MaxCrashes = 2
INVARIANTS
  TypeOK
  SwapsAreCurrent
  PeakIsRecorded
PROPERTIES
  PeakIsRegister
  WaitsAreBounded
