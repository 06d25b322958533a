SPECIFICATION Spec
CONSTANTS
  W = 32
  Tick = 10
  Periods <- MCPeriods
  BootPeriods <- MCBoot
  MaxIdle = 5
  MaxChanges = 2
  MaxLate = 5
  MaxStep = 1
CONSTRAINT MCAdapted
INVARIANTS
  TicksExact
  DeadlineNear
  NeverPastUnblock
