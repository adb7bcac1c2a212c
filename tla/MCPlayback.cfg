CONSTANTS
  Duration = 3
  AllowedDelay = 2
  BufferSizes = {0, 2, 4}
  NoTime = NoTime
  MaxAudio = 3
  MaxTime = 5
  MaxCalls = 2
SPECIFICATION Spec
CHECK_DEADLOCK FALSE
INVARIANTS ShrinksInside
PROPERTIES ClockOnlyForward ShownWasTested LateIsSkipped
