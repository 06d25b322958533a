SPECIFICATION Spec
CONSTANTS
  t1 = t1
  t2 = t2
  t3 = t3
  Cores <- MCCores
  Primary = 0
  Tasks <- MCTasks
  FpuTasks <- MCFpuTasks
  Main = Main
  Live = Live
  NoData = NoData
  FirstTask <- MCFirstTask
  MaxNest = 2
INVARIANTS
  SwitchSafe
  ContextsIntact
  FPUContextKept
