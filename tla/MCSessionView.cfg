CONSTANTS
  Roles = {"broadcaster", "watcher"}
  SocketThreads = {g1, g2, g3}
  Media = media
  NoThread = none
  MaxCalls = 3
SPECIFICATION Spec
CHECK_DEADLOCK FALSE
 
PROPERTIES  LostIsNoticed
