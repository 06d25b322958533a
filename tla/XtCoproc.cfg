SPECIFICATION Spec
CONSTANTS
  c0 = c0
  c1 = c1
  cp = cp
  dp = dp
  t1 = t1
  t2 = t2
  Cores <- MCCores
  Core0 = c0
  Builds <- MCBuilds
  CPs = {cp, dp}
  Tasks <- MCTasks
  Idle = idle
  Null = null
  Junk = junk
  MayUse <- MCMayUse
CONSTRAINT MCSmall
SYMMETRY Symmetry
INVARIANTS
  
  
  OwnersExist
