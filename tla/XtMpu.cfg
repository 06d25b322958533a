SPECIFICATION MpuSpec
CONSTANTS
  t1 = t1
  t2 = t2
  UserTasks <- MCUserTasks
  NoTask = none
  XCHAL_MPU_ENTRIES = 14
  XCHAL_MPU_ALIGN = 2
  MaxAddress = 22
  Fixed <- MCFixed
  Legacy <- MCLegacy
  portNUM_CONFIGURABLE_REGIONS = 1
  Setups <- MCSetups
  Requests <- MCRequests
INVARIANTS
  TableInOrder
  FixedKept
  OwnMemoryOnly
