SPECIFICATION Spec
CONSTANTS
  Blocks <- RepeatedBlocks
  MaxBlocks = 2
  MaxFlushes = 0
  BufferSize = 48
PROPERTY StableCode
