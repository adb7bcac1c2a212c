CONSTANTS
  Producers = {p1, p2}
  Owner = owner
  Workers = {w1, w2}
  None = none
  Blank = blank
  MaxItems = 2
SPECIFICATION Spec
INVARIANTS OneWorker HandedAsPushed LeftoversWereInFlight
PROPERTIES HandledInOrder StopReturns QueueIsServed
