SPECIFICATION FairSpec
CONSTANTS
  w1 = w1
  w2 = w2
  Workers <- MCWorkers
  Name <- MCName
  Tries = 2
  Chunks = 2
  Settings <- MCSettings
INVARIANTS
  TypeOK
  ExitTellsMerged
  RowsContiguous
  VmsAccounted
PROPERTIES
  EveryWorkerEnds
  AllVmsGo
  ImplementsContract
