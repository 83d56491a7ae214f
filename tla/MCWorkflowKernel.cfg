CONSTANTS
  r1 = r1
  r2 = r2
  RunIds <- MCRunIds
  MaxRuns = 2
  Limit <- MCLimit
  AwaitedIds <- MCAwaitedIds
  MaxCrashes = 1
SPECIFICATION Spec
INVARIANT TypeOK
INVARIANT AcceptedCancelsWin
 
INVARIANT RunsAreScheduled
PROPERTY OneOutcome
CHECK_DEADLOCK FALSE
