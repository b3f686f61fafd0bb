SPECIFICATION Spec
CONSTANTS
  Page = {p1, p2, p3}
  HeaderPage = p1
  Reader = {r1}
  Writer = w
  Unlocked = {p1}
  Capacity = 2
  Val = {0, 1}
  None = None
  MaxPins = 2
  MaxTxns = 2
  MaxFailures = 1
SYMMETRY DataSymmetry
INVARIANTS TypeOK PinsMatchHolders NoSteal ReadsCommitted IdleCoherent
