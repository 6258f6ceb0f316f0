SPECIFICATION BatchFairSpec
CONSTANTS
  t1 = t1
  t2 = t2
  c1 = c1
  c2 = c2
  cNone = cNone
  NoCPU = cNone
  NoTask = NoTask
  Callers = {t1, t2}
  Lookers = {t1, t2}
  CPUs = {c1, c2}
  Addrs <- MCRegs
  Regs <- MCRegs
  Bits <- MCBits
  RegBits <- MCBits
  PowerOn <- MCPowerOn
  Faulty = {}
  Hotplug = FALSE
  Batches <- CrossBatches
  MaxOps = 3
  Initial <- L1
  Admin <- NoLists
  MaskAllocMayFail = FALSE
INVARIANTS
  OrderPerCpu
  ReadsOwnWrite
PROPERTY IoctlReturns
