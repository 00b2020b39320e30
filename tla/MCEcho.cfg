SPECIFICATION FairSpec
CONSTANTS
  EchoPayload = 6
  ProbePayload = 7
  RequestCap = 3
  ReplyCap = 2
  MaxRounds = 3
INVARIANTS
  TypeOK
  WholeRoundTrips
  NoMutualWait
PROPERTIES
  BothEnd
