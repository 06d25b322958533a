SPECIFICATION LockFairSpec
CONSTANTS
  Cores <- MCCores
  Locks <- MCLocks
  MaxLevel = 1
  MaxCalls = 2
INVARIANTS
  LockTypeOK
  CountIsHoldings
  MaskPreserved
PROPERTIES
  ImplementsCoreLock
  ContendedLockIsFreed
