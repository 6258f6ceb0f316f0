SPECIFICATION Spec
CONSTANTS
  w1 = w1
  w2 = w2
  r1 = r1
  l1 = l1
  b1 = b1
  b2 = b2
  NULL = NULL
  Writers = {w1}
  Readers = {r1}
  Lookers = {l1}
  Addrs <- MCAddrs
  Bits <- MCBits
  ZeroAddr = 0
  Numerals <- MCNumerals
  Texts <- MCTexts
  MaxEntries = 2
  Blocks <- MCBlocks
  Inputs <- MCInputs
  AllocMayFail = TRUE
CHECK_DEADLOCK FALSE
INVARIANT FailedSecondPassEmpties
