CONSTANTS
  r1 = r1
  r2 = r2
  c1 = c1
  c2 = c2
  RunIds <- MCRunIds
  CallSets <- MCCallSets
  MaxRounds <- MCMaxRounds
  KeepRecent = 2
  MaxFaults = 1
  MaxLines = 7
SPECIFICATION Spec
INVARIANT TypeOK
INVARIANT RequestsAreAccepted
INVARIANT RepairLosesNoMore
INVARIANT RequestsComeFromTheFile
CHECK_DEADLOCK FALSE
