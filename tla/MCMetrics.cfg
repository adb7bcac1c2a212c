CONSTANTS
  Callers = {c1, c2}
  Timers = {t1, t2}
  None = none
  Default = 20
  Speeds = {0, 1, 9, 10}
  Highest = 3
  NetworkErrorLimit = 1
  StableNetworkTrigger = 0
  MaxCalls = 4
SPECIFICATION Spec
CHECK_DEADLOCK FALSE
INVARIANTS OneOwnerOneTimer
PROPERTIES RateFollowsVerdicts StopReturns
