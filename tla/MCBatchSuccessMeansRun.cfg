SPECIFICATION BatchSpec
CONSTANTS
  t1 = t1
  t2 = t2
  c1 = c1
  c2 = c2
  cNone = cNone
  NoCPU = cNone
  NoTask = NoTask
  Callers = {t1}
  Lookers = {t1}
  CPUs = {c1, c2}
  Addrs <- MCRegs
  Regs <- MCRegs
  Bits <- MCBits
  RegBits <- MCBits
  PowerOn <- MCPowerOn
  Faulty = {1}
  Hotplug = TRUE
  Batches <- ErrorBatches
  MaxOps = 3
  Initial <- L1
  Admin <- NoLists
  MaskAllocMayFail = FALSE
INVARIANT SuccessMeansRun
