SPECIFICATION SaveSpec
CONSTANTS
  NoFile = NoFile
  NumCpu = 2
  Removable = {0, 1}
  Addrs = {"A", "B"}
  Bits <- MCBits
  Cookie <- MCCookie
  Lists <- MCLists
  Initial <- MCInitial
  PowerOn <- MCPowerOn
  JobValues <- MCJobValues
  MaxTime = 1
  MaxTroubles = 3
INVARIANTS
  SaveTypeOK
  RestoredBehind
  BadReadsNotRestored
  StaleListRefused
