SPECIFICATION FairSpec
CONSTANTS
  t1 = t1
  t2 = t2
  t3 = t3
  Cores <- MCCores
  Primary = 0
  Tasks <- MCTasks
  Main = Main
  Live = Live
  FirstTask <- MCFirstTask
  MaxNest <- MCMaxNest
INVARIANTS
  SwitchSafe
  ContextsIntact
PROPERTIES
  RequestsServed
