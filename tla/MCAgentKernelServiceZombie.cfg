CONSTANTS
  r1 = r1
  r2 = r2
  RunIds <- MCRunIds
  MaxRuns = 2
  Limit <- MCEqual
  HitDuringSave <- MCRunIds
  AwaitedIds <- MCRunIds
SPECIFICATION FairSpec
INVARIANT KilledRunsStayGone
CHECK_DEADLOCK FALSE
