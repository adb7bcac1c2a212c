CONSTANTS
  Renderers = {r1, r2}
  Capture = capture
  Main = main
  Permission = permission
  MaxCalls = 4
  MaxFailures = 1
SPECIFICATION Spec
CHECK_DEADLOCK FALSE
INVARIANTS ActiveWhileUsed SystemIsHeeded ResumedIsActive
