SPECIFICATION EntrySpec
CONSTANTS
  u1 = u1
  u2 = u2
  c1 = c1
  c2 = c2
  NoTask = NoTask
  Closed = Closed
  cNone = cNone
  Minors <- MCMinors
  Users = {u1, u2}
  Lookers = {u1, u2}
  CPUs = {c1}
  Addrs <- MCAddrs
  Regs <- MCRegs
  Bits <- MCBits
  RegBits <- MCBits
  PowerOn <- MCPowerOn
  Values <- MCValues
  W = 3
  MaxPos = 0
  Faulty = {}
  Hotplug = FALSE
  Initial <- Low
  Admin <- Churn
PROPERTY WriteIsMasked
