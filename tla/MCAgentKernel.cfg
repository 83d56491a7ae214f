CONSTANTS
  p1 = p1
  p2 = p2
  Pids <- MCPids
  Score <- MCScore
  MaxRuns = 3
  DeleteDuringSave = FALSE
SPECIFICATION Spec
INVARIANT TypeOK
 
 
PROPERTY AnswersReachTheStep
CHECK_DEADLOCK FALSE
