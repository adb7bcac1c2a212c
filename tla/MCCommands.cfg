CONSTANTS
  Scenes = {"threads", "commands"}
  Roles = {"watcher"}
  App = app
  Media = media
  SocketThreads = {g1, g2}
  NoThread = none
  MaxMedia = 2
  Speakers = {"broadcaster", "watcher"}
  DefaultSize = 256
  ServerSizes = {20, 64, 256}
  Windows = {0, 5}
  MediaSizes = {30, 200}
  MaxSessions = 2
  MaxMessages = 1
SPECIFICATION SpecScene
INVARIANTS CommandsAreUnderstood
PROPERTIES CallsReturn
