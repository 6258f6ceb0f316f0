SPECIFICATION Spec
CONSTANTS
  w1 = w1
  w2 = w2
  r1 = r1
  l1 = l1
  b1 = b1
  b2 = b2
  NULL = NULL
  Writers = {w1, w2}
  Readers = {r1}
  Lookers = {l1}
  Addrs <- MCAddrs
  Bits <- MCBits
  ZeroAddr = 0
  Numerals <- MCNumerals
  Texts <- MCTexts
  MaxEntries = 2
  Blocks <- MCBlocks
  Inputs <- MCInputs
  AllocMayFail = TRUE
\* A reader may die holding the mutex after a failed allocation: all then wait.
CHECK_DEADLOCK FALSE
INVARIANTS
  TypeOK
  HashIsArray
  NoLeak
  OutcomeMatches
  UnraceyLookup
  ListingIsPrefix
  TwoPassesAgree
  ListingParsesBack
  MsrsaveReadsTheList
PROPERTY ImplementsContract
