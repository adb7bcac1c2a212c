CONSTANTS
  Scenes = {"camera", "media"}
  AllowedDelay = 1
  MaxTime = 1
  MaxQueue = 1
  MaxCalls = 3
SPECIFICATION Spec
CHECK_DEADLOCK FALSE
  
PROPERTIES  ReconnectionStartsAgain
