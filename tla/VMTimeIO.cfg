\* Two threads, one lock, a port, the radio and the clock: a sleep that is not
\* a whole number of ticks, timed waits, callbacks that wake whoever is registered.
\* The clock stops at the horizon, a whole number of ticks.
SPECIFICATION FairSpec
CONSTANTS
  MaxThreads = 2
  Objects = {o1}
  NoObject = NoObject
  MaxForced = 0
  MaxNest = 1
  Delays = {5}
  Timeouts = {10}
  Semaphores = {}
  Ports = {0}
  Channels = {radio}
  TaskThreads = {}
  MsPerTick = 10
  Horizon = 10
  MaxScheduleTime = 1000
INVARIANTS
  TypeOK
  NoLostWakeup
  TimerCoversSleepers
  UrgencyIsFresh
PROPERTIES
  SleepEndsInTime
  EveryRunnableRuns
  EverySleepEnds
  TurnComesNearer
CHECK_DEADLOCK FALSE
