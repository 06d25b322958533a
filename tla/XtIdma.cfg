SPECIFICATION Spec
CHECK_DEADLOCK FALSE
CONSTANTS
  t1 = t1
  t2 = t2
  t3 = t3
  ch0 = ch0
  ch1 = ch1
  b = b
  None = None
  Tasks <- MCTasks
  Core <- MCCore
  heap_sentry = 3
  Sizes = {1}
  Channels = {ch0, ch1}
  Buffers = {b}
  MAX_THREADS = 2
CONSTRAINT MCOnce
SYMMETRY MCSymmetry
INVARIANTS
  BlocksApart
  BuffersKept
  WakeKept
