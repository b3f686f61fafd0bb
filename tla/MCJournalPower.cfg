SPECIFICATION Spec
CONSTANTS
  MaxPages = 3
  Val = {11}
  None = None
  MaxOps = 3
  MaxFailures = 1
  MaxCrashes = 2
  PowerCuts = TRUE
INVARIANT PowerCutAtomic
CHECK_DEADLOCK FALSE
