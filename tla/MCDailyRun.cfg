SPECIFICATION Spec
CONSTANTS
  r2 = r2
  r1 = r1
  Runs = {r1, r2}
  Manifests <- MCManifests
  Registered <- MCRegistered
  SectionOrder <- MCSectionOrder
  IdOrder <- MCIdOrder
  Commands <- MCCommands
  Parts = 2
  Faults = {"bench", "open", "write", "kill"}
INVARIANTS
  TypeOK
  RunsRequested
  HeaderFirst
  RowsOnlyOfFullRuns
  FinishedRunComplete
