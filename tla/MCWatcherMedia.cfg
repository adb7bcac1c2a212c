CONSTANTS
  Devices = {"apple", "android"}
  NoSet = NoSet
  Formats = {f1, f2}
  Broadcasters <- OneOfEach
  InputBuffers = 1
  UsPerMs = 2
  Wrap = 4
  MaxTime = 2
  MaxPackets = 4
  MaxSessions = 2
  MaxCalls = 1
SYMMETRY Symmetry
SPECIFICATION Spec
CHECK_DEADLOCK FALSE
INVARIANTS  StreamIsUnderstood 
PROPERTIES PicturesFollowTheStream
