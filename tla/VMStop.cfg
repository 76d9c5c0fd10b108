\* A task that stops itself, or that is stopped while it holds a semaphore id.
SPECIFICATION Spec
CONSTANTS
  MaxThreads = 2
  Objects = {}
  NoObject = NoObject
  MaxForced = 1
  MaxNest = 2
  Delays = {}
  Timeouts = {}
  Semaphores = {7}
  Ports = {}
  Channels = {}
  TaskThreads = {2}
  MsPerTick = 10
  Horizon = 0
  MaxScheduleTime = 1000
PROPERTIES
  StoppedStaysStopped
CHECK_DEADLOCK FALSE
