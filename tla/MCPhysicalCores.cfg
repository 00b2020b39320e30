SPECIFICATION Spec
CONSTANTS
  Cpus = {0, 1, 2, 3}
  Cores <- MCCores
  OtherEntries = {98, 99}
INVARIANTS
  TypeOK
  Usable
  NoSharedCore
