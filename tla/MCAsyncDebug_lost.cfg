SPECIFICATION Spec
CONSTANTS
  NULL = NULL
  Modules <- TwoPlugins
  Clients = {"c1"}
  Argv <- OneFlush
  Environ <- FirstVariable
  Folded = TRUE
  MaxBoots = 1
INVARIANTS
  NoCommandLost
