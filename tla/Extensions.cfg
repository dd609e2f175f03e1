SPECIFICATION Spec
CONSTANTS
  ore = ore
  Containers = {c1, c2}
  Shared = shared
  NoGroup = nogroup
  Items = {ore}
  StackLimit <- StackLimits
  Capacity <- Tokens
  Checks <- AllChecks
  Maxima <- OnlySmall
  StartMaximum <- Large
  MaxEntries = 2
  MaxTotalItemCopies = 4
  Defaults <- GroupDefaults
  Amounts = {1, 2}
  MaxKey = 2
  MaxStackKey = 2
  MaxCopies = 3
INVARIANTS
  CachesAreContent
PROPERTIES
  DumpLosesNothing
CHECK_DEADLOCK FALSE
