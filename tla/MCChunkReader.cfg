CONSTANTS
  MaxSize = 2
  Sizes = {0, 2, 3}
  Window = 1
  MaxMessages = 2
SPECIFICATION ChunkSpec
INVARIANTS ReadsWhatWasSent NoUnderflow
PROPERTIES LengthIsDeclared MessagesArrive
