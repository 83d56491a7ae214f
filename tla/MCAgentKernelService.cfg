CONSTANTS
  r1 = r1
  r2 = r2
  RunIds <- MCRunIds
  MaxRuns = 3
  Limit <- MCUnequal
  HitDuringSave <- MCSecond
  AwaitedIds <- MCSecond
SPECIFICATION FairSpec
INVARIANT TypeOK
INVARIANT CallsAreExecutedOnce
INVARIANT RecordsMatchLiveRuns
INVARIANT PumpIsArmed
INVARIANT ClosedIsEmpty
PROPERTY GoneRunsAreAccountedFor
PROPERTY WaitersAreAnswered
CHECK_DEADLOCK FALSE
