SPECIFICATION Spec
CONSTANTS
  idle = idle
  a = a
  Tasks <- MCTasks
  Idle = idle
  Builds <- MCBuilds
  MaxStack = 3
  Wide = 5
  PerTick = 2
  Expected <- MCExpected
  MaxNow = 9
INVARIANTS
  InterruptsFollowTask
  ContextsIntact
  WakesInTime
  StepIsSleep
CHECK_DEADLOCK FALSE
