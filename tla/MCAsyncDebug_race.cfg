SPECIFICATION Spec
CONSTANTS
  NULL = NULL
  Modules <- TwoPlugins
  Clients = {"c1", "c2"}
  Argv <- TwoProcesses
  Environ <- FirstVariable
  Folded = TRUE
  MaxBoots = 2
INVARIANTS
  TypeOK
  AtMostOnce
