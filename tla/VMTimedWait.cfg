\* The only thread waits for an object with a timeout.
SPECIFICATION Spec
CONSTANTS
  MaxThreads = 2
  Objects = {o1}
  NoObject = NoObject
  MaxForced = 1
  MaxNest = 2
  Delays = {}
  Timeouts = {10}
  Semaphores = {}
  Ports = {}
  Channels = {}
  TaskThreads = {}
  MsPerTick = 10
  Horizon = 20
  MaxScheduleTime = 1000
INVARIANTS
  TimerCoversWaits
CHECK_DEADLOCK FALSE
