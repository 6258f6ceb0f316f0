SPECIFICATION EntrySpec
CONSTANTS
  u1 = u1
  u2 = u2
  c1 = c1
  c2 = c2
  NoTask = NoTask
  Closed = Closed
  cNone = cNone
  Minors <- MCMinors
  Users = {u1}
  Lookers = {u1}
  CPUs = {c1, c2}
  Addrs <- TwoRegsAddrs
  Regs <- TwoRegs
  Bits <- MCBits
  RegBits <- MCBits
  PowerOn <- MCPowerOn
  Values <- MCValues
  W = 2
  MaxPos = 2
  Faulty = {1}
  Hotplug = TRUE
  Initial <- Two
  Admin <- TwoLists
INVARIANTS
  EntryTypeOK
  AccessListed
  RefusalJustified
