SPECIFICATION Spec
CONSTANTS
  Insns = {"load", "store", "movs", "movreg", "silent"}
  Asks <- ListAsks
  MaxCalls = 2
  MaxUiid = 3
  MAX_ICONTEXT_ROOT = 3
  Addrs = {1}
  Values = {0}
  Sizes = {2}
  Paths = {"hit", "miss"}
INVARIANT RootValid
INVARIANT NoLeak
INVARIANT OwnContexts
