SPECIFICATION Spec
CONSTANTS
  Insns = {"load", "store", "movs"}
  Asks <- ValueAsks
  MaxCalls = 1
  MaxUiid = 2
  MAX_ICONTEXT_ROOT = 3
  Addrs = {1, 2}
  Values = {0, 1}
  Sizes = {2}
  Paths = {"hit"}
INVARIANT ArgsAsRequested
 
