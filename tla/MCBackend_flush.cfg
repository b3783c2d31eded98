SPECIFICATION Spec
CONSTANTS
  Blocks <- OneExitBlocks
  MaxBlocks = 2
  MaxFlushes = 1
  BufferSize = 48
INVARIANT Ascending
INVARIANT CalledAsAsked
INVARIANT NoStrayReturn
PROPERTY StableCode
