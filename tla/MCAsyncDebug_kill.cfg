SPECIFICATION KillSpec
CONSTANTS
  NULL = NULL
  Modules <- TwoPlugins
  Clients = {"c1", "c3", "c4"}
  Argv <- OddArguments
  Environ <- FirstVariable
  Folded = FALSE
  MaxBoots = 2
INVARIANTS
  OncePerBoot
