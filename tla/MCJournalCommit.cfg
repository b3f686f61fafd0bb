SPECIFICATION Spec
CONSTANTS
  MaxPages = 3
  Val = {11, 12}
  None = None
  MaxOps = 3
  MaxFailures = 1
  MaxCrashes = 2
  PowerCuts = FALSE
CONSTRAINT TwoAccidents
VIEW WithoutPowerCuts
INVARIANTS TypeOK FileOpens
PROPERTY ImplementsAtomicStore
CHECK_DEADLOCK FALSE
