CONSTANTS
  MaxSize = 1
  Sizes = {0, 2, 3}
  Window = 1
  MaxMessages = 1
SPECIFICATION ChunkSpec
PROPERTIES ErrorEndsTheLoop
