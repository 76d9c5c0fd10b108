\* The radio wakes a thread that is blocked on a lock.
SPECIFICATION Spec
CONSTANTS
  MaxThreads = 2
  Objects = {o1}
  NoObject = NoObject
  MaxForced = 1
  MaxNest = 2
  Delays = {}
  Timeouts = {}
  Semaphores = {}
  Ports = {}
  Channels = {radio}
  TaskThreads = {}
  MsPerTick = 10
  Horizon = 0
  MaxScheduleTime = 1000
INVARIANTS
  NoTrespass
CHECK_DEADLOCK FALSE
