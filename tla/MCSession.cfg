CONSTANTS
  Roles = {"broadcaster", "watcher"}
  App = app
  Media = media
  SocketThreads = {g1, g2}
  NoThread = none
  MaxMedia = 2
SPECIFICATION Spec
INVARIANTS HeadIsExpected MetricsEndWithSocket 
PROPERTIES StartedOnlyIfGranted  EndReturns AttemptIsSettled
