SPECIFICATION FairSpec
CONSTANTS
  NULL = NULL
  Modules <- TwoPlugins
  Clients = {"c1"}
  Argv <- OneNamed
  Environ <- FirstVariable
  Folded = TRUE
  MaxBoots = 2

  
PROPERTIES
  ClientsFinish
  
