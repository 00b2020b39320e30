SPECIFICATION MCSpec
CONSTANTS
  CommandLines <- MCCommandLines
  Defaults <- MCDefaults
  DefaultBatch <- MCDefaultBatch
  DefaultSize <- MCDefaultSize
  WordModulus = 65536
  UsizeBytes = 8
  OverheadCap = 2
  Elapsed = {0, 1, 2, 7, 240}
  Sizes = {1, 2, 3, 4}
  CanFail = TRUE
INVARIANTS
  TypeOK
  EachPassOnce
  EndTellsResult
  ReportTellsSamples
