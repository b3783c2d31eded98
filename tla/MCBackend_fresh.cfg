SPECIFICATION Spec
CONSTANTS
  Blocks <- PlainBlocks
  MaxBlocks = 2
  MaxFlushes = 0
  BufferSize = 48
INVARIANT TypeOK
INVARIANT CalledAsAsked
INVARIANT NoStrayReturn
PROPERTY StableCode
