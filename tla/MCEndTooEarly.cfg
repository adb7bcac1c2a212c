CONSTANTS
  Roles = {"broadcaster"}
  App = app
  Media = media
  SocketThreads = {g1, g2}
  NoThread = none
  MaxMedia = 2
SPECIFICATION Spec
PROPERTIES EndedSessionStaysEnded
