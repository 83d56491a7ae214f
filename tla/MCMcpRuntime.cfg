CONSTANTS
  Servers <- MCServers
  MaxReloads = 2
  MaxLoad = 3
SPECIFICATION FairSpec
INVARIANT TypeOK
INVARIANT KeptClients
INVARIANT StatusIsTrue
PROPERTY RetriesGoOn
CHECK_DEADLOCK FALSE
