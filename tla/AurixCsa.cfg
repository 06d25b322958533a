SPECIFICATION FairSpec
CONSTANTS
  idle = idle
  worker = worker
  Areas <- MCAreas
  Tasks <- MCTasks
  Resident = idle
  CallDepth = 1
  YieldId = 0
  MaxCalls <- MCMaxCalls
  MaxNesting = 2
INVARIANTS
  EachAreaInOnePlace
  OwnCalls
  MaskFollowsTask
PROPERTIES
  RequestServed
