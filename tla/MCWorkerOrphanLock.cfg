SPECIFICATION FairSpec
CONSTANTS
  w1 = w1
  w2 = w2
  Workers <- MCWorkers
  Name <- MCName
  Tries = 2
  Chunks = 2
  Settings <- TailFails
PROPERTIES
  FleetMovesOn
