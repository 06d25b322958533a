SPECIFICATION FairSpec
CONSTANTS
  Cores <- MCCores
  Locks <- MCLocks
  IsrLock = 0
  MaxCount = 3
INVARIANTS
  LockTypeOK
  AssertionsHold
PROPERTIES
  ImplementsCoreLock
  WaitedLockIsFreed
