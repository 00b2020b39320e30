SPECIFICATION FairSpec
CONSTANTS
  NumCores = 3
  BufferWords = 8
  MaxPasses = 3
INVARIANTS
  TypeOK
  QuiescentClock
  SlicesPartition
PROPERTIES
  AllReturn
  ImplementsParallelSweep
