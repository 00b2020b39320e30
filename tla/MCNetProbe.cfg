SPECIFICATION FairSpec
CONSTANTS
  c4 = c4
  c4d = c4d
  Types <- MCTypes
  SshTries <- MCSshTries
  AptTries = 5
  FaultSets <- MCFaultSets
INVARIANTS
  TypeOK
  NothingLeftBehind
  PortOpenOnlyForPair
PROPERTIES
  FleetEnds
