SPECIFICATION Spec
CONSTANTS
  w1 = w1
  w2 = w2
  e1 = e1
  e2 = e2
  d1 = d1
  s2 = s2
  x1 = x1
  NoWriter = NoWriter
  NoDecision = NoDecision
  NoTx = NoTx
  Writers <- MCWriters
  Names <- MCNames
  Bodies = {1, 2}
  Runs = {"run"}
  TxIds <- MCTxIds
  Offered <- MCOffered
  MaxCrashes = 2
INVARIANTS
  TypeOK
  CommittedIsComplete
PROPERTIES
  CommitsAreAtomic
