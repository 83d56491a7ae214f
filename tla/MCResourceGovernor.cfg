CONSTANTS
  i1 = i1
  i2 = i2
  w1 = w1
  s1 = s1
  t1 = t1
  Unstated = Unstated
  Calls <- MCCalls
  Lanes <- MCLanes
  LaneOf <- MCLaneOf
  PriorityOf <- MCPriorityOf
  RawLimits <- MCRawLimits
  DefaultLimit <- MCDefaultLimit
SPECIFICATION FairSpec
INVARIANT TypeOK
INVARIANT PermitConservation
INVARIANT NoLostWakeup
PROPERTY NoOvertaking
PROPERTY ImplementsPermitPool
PROPERTY InteractiveCallsAreServed
