SPECIFICATION FairSpec
CONSTANTS
  c4 = c4
  c4d = c4d
  Types <- MCTypes
  SshTries <- MCSshTries
  AptTries = 5
  FaultSets <- NoFaults
INVARIANTS
  FleetDeliversRows
