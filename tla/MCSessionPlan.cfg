SPECIFICATION Spec
CONSTANTS
  Conn = {c1, c2}
  Table = {t1}
  Index = {i1}
  Stat = quill_stat1
  None = None
  MaxTxn = 2
  MaxChanges = 2
SYMMETRY ConnSymmetry
INVARIANTS CachedPlanUsable
CHECK_DEADLOCK FALSE
