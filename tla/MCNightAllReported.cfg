SPECIFICATION MCSpec
CONSTANTS
  c4 = c4
  c4d = c4d
  c4a = c4a
  c7i = c7i
  c7a = c7a
  smallGcp = smallGcp
  smallAws = smallAws
  GcpMachines <- MCGcpMachines
  AwsMachines <- MCAwsMachines
  GcpDefault <- MCGcpDefault
  AwsDefault <- MCAwsDefault
  OldMachine = oldMachine
  LastNight = 2
  LastDate = 2
INVARIANTS
  AllReportedIsTrue
