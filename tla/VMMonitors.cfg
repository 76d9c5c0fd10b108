\* Three threads on two locks: monitors, wait and notify, stopped tasks and
\* semaphores.  No clock, no callbacks.  The VM stops when no thread is left.
SPECIFICATION Spec
CONSTANTS
  MaxThreads = 3
  Objects = {o1, o2}
  NoObject = NoObject
  MaxForced = 1
  MaxNest = 2
  Delays = {}
  Timeouts = {0}
  Semaphores = {7}
  Ports = {}
  Channels = {}
  TaskThreads = {2, 3}
  MsPerTick = 10
  Horizon = 0
  MaxScheduleTime = 1000
INVARIANTS
  IdsFollowList
  MutualExclusion
  CountIsNesting
  BlockedAreCounted
  NoForgottenHandover
SYMMETRY ObjectSymmetry
CHECK_DEADLOCK FALSE
