\* A thread re-enters a monitor after leaving a nested block on it.
SPECIFICATION Spec
CONSTANTS
  MaxThreads = 2
  Objects = {o1}
  NoObject = NoObject
  MaxForced = 1
  MaxNest = 2
  Delays = {}
  Timeouts = {}
  Semaphores = {}
  Ports = {}
  Channels = {}
  TaskThreads = {}
  MsPerTick = 10
  Horizon = 0
  MaxScheduleTime = 1000
INVARIANTS
  NoSelfBlock
CHECK_DEADLOCK FALSE
