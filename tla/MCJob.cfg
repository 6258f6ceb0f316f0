SPECIFICATION JobSpec
CONSTANTS
  NoFile = NoFile
  NumCpu = 2
  Removable = {1}
  Addrs = {"A", "B"}
  Bits <- MCBits
  Cookie = {"high"}
  Descriptors = {3}
  Lists <- MCLists
  Initial <- MCInitial
  PowerOn <- MCPowerOn
  JobValues <- MCJobValues
  MaxTime = 0
  MaxTroubles = 0
INVARIANT RegistersReset
