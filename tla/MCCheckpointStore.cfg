CONSTANTS
  p1 = p1
  Pids <- MCPids
  MaxOps = 5
SPECIFICATION FairSpec
INVARIANT TypeOK
INVARIANT SettledIsDurable
INVARIANT QuiescentFileIsLatest
PROPERTY PreservesOrder
PROPERTY ReadsOwnWrites
PROPERTY ChainDrains
