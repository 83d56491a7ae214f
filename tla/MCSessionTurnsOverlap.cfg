CONSTANTS
  r1 = r1
  r2 = r2
  c1 = c1
  c2 = c2
  RunIds <- MCRunIds
  CallSets <- MCCallSets
  MaxRounds <- MCMaxRounds
  KeepRecent = 2
  MaxFaults = 0
  MaxLines = 6
SPECIFICATION Spec
INVARIANT ExchangesStayTogether
CHECK_DEADLOCK FALSE
