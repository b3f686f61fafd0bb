SPECIFICATION FairSpec
CONSTANTS
  Txn = {1, 2, 3}
  Resource = {ra, rb}
  NoResource = NoResource
  Impatient = {1}
  MaxRequests = 2
ACTION_CONSTRAINT ThirdJoins
INVARIANTS TypeOK HoldersCompatible NoLostWakeup DoomedIsWoken DoomEndsWithWait OldestNeverVictim NoLatchDeadlock
PROPERTIES LocksOnlyGrow ImplementsLockTable DeadlockResolved
CHECK_DEADLOCK FALSE
