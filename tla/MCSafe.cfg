SPECIFICATION SafeSpec
CONSTANTS
  t1 = t1
  u1 = u1
  c1 = c1
  c2 = c2
  cNone = cNone
  NoCPU = cNone
  NoTask = NoTask
  Closed = Closed
  Callers = {t1}
  Minors <- MCMinors
  Users = {u1}
  Lookers = {t1, u1}
  CPUs = {c1, c2}
  Addrs <- MCRegs
  Regs <- MCRegs
  Bits <- MCBits
  RegBits <- MCBits
  PowerOn <- MCPowerOn
  Values <- MCValues
  W = 1
  MaxPos = 0
  Faulty = {}
  Hotplug = TRUE
  Batches <- WriteRead
  MaxOps = 2
  Initial <- Low
  Admin <- ListOrNone
  MaskAllocMayFail = FALSE
INVARIANTS
  ReadsOwnWrite
  ClosedBitsKept
PROPERTY MaskedDespiteBatches
