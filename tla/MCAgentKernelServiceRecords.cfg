CONSTANTS
  r1 = r1
  r2 = r2
  RunIds <- MCRunIds
  MaxRuns = 2
  Limit <- MCEqual
  HitDuringSave <- MCNone
  AwaitedIds <- MCRunIds
SPECIFICATION FairSpec
INVARIANT KilledRunsAreRemembered
CHECK_DEADLOCK FALSE
