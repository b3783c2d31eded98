SPECIFICATION FairSpec
CONSTANTS
  NULL = NULL
  Modules <- TwoPlugins
  Clients = {"c1"}
  Argv <- OneFlush
  Environ <- FirstVariable
  Folded = FALSE
  MaxBoots = 1
PROPERTIES
  HandledReleases
