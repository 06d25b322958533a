SPECIFICATION Spec
CONSTANTS
  t1 = t1
  t2 = t2
  t3 = t3
  Cores <- MCCores
  Tasks <- MCTasks
  TickCore = 1
  XT_TIMER_INTNUM = 8
  Devices <- MCDevices
  Level <- MCLevel
  First <- MCFirst
  MaxDepth = 2
INVARIANTS
  ContextsIntact
  SwitchSafe
  NestingMatches
  StartInOrder
PROPERTIES
  ImplementsCoreLock
