------------------------------ MODULE VMThreads ------------------------------
(***************************************************************************)
(* The threads of the Darjeeling virtual machine as VirtualSense runs it:   *)
(* the thread list, the scheduler, the monitors, the natives that block or  *)
(* wake a thread, the Contiki process that drives the VM and the callbacks  *)
(* by which the radio, the serial line and the digital ports wake it.       *)
(*                                                                         *)
(* A thread is its serial number, in order of creation.  dj_vm_addThread    *)
(* appends, so the order of the linked list vm->threads IS the order of the *)
(* serial numbers and the list is the set `live'.  The thread number a Java *)
(* program sees is the separate field `id'.                                 *)
(*                                                                         *)
(* A bytecode or a native is one step: the interpreter switches threads     *)
(* only between two of them.  The programs are arbitrary, except that, like *)
(* the code javac emits, they leave each monitor as often as they enter it. *)
(***************************************************************************)
EXTENDS Integers, FiniteSets

CONSTANTS
  MaxThreads,       \* bound: threads ever created
  Objects,          \* Java objects used as locks
  NoObject,         \* the null reference
  MaxForced,        \* bound: threads that pass one monitor ungranted
  MaxNest,          \* bound: synchronized blocks of a thread on one object
  Delays,           \* arguments of Thread.sleep, in ms
  Timeouts,         \* arguments of Object.wait, in ms (0: no timeout)
  Semaphores,       \* ids handed out by Semaphore._create
  Ports,            \* digital input ports
  Channels,         \* callbacks that wake a registered thread: radio, serial
  TaskThreads,      \* threads with a frame in a task that can be stopped
  MsPerTick,        \* ms of a Contiki clock tick (10)
  Horizon,          \* bound: the clock, and every schedule time
  MaxScheduleTime   \* MAX_SCHEDULE_TIME

Threads == 1 .. MaxThreads
NoThread == 0
NoId == 65535       \* (uint16_t) -1: no thread has registered

Statuses == {"CREATED", "BLOCKED", "RUNNING", "SLEEPING", "BLOCKED_FOR_MONITOR",
             "WAITING_FOR_MONITOR", "BLOCKED_FOR_IO", "FINISHED"}

\* The states of darjeeling_process: at the top of its loop, interpreting the
\* current thread, about to schedule, about to set its timer, yielded, dead.
Phases == {"top", "run", "schedule", "arm", "idle", "panic"}

ASSUME ConstantsAssumption ==
  /\ MaxThreads \in Nat \ {0}
  /\ NoObject \notin Objects
  /\ MaxForced \in Nat
  /\ MaxNest \in 1 .. 255
  /\ Delays \subseteq Nat
  /\ Timeouts \subseteq Nat
  /\ Semaphores \subseteq Nat \ {0}
  /\ Ports \subseteq Nat
  /\ \A s \in Semaphores, p \in Ports : s > p + 1
  /\ TaskThreads \subseteq Threads
  /\ MsPerTick \in Nat \ {0}
  /\ Horizon \in Nat
  /\ MaxScheduleTime \in Nat
  /\ Horizon + MsPerTick < MaxScheduleTime

VARIABLES
  \* the machine (dj_vm, darjeeling_process)
  live,             \* vm->threads
  created,          \* threads created so far
  current,          \* vm->currentThread
  phase,            \* where darjeeling_process stands
  \* the threads (dj_thread)
  id, status, scheduleTime, priority, needResched, semId, monitorObject,
  started,          \* threads with a frame stack
  \* the monitors (dj_monitor): an object without one has count = waiting = 0
  count, waiting, owner,
  \* time and events
  now,              \* dj_timer_getTimeMillis()
  nextTime,         \* nextScheduleTime of main.c
  timer,            \* when the etimer et expires
  poll,             \* a PROCESS_EVENT_POLL is queued
  receiver,         \* receiver_thread_id, serial_receiver_thread_id
  \* where the Java programs stand
  depth,            \* synchronized blocks on the object the thread is inside of
  entering,         \* the monitor a MONITORENTER of the thread is blocked on
  forced,           \* threads that passed the object's monitor without a grant
  leaked            \* entries of dead owners whose monitor another thread took over

machineVars == <<live, created, current, id, started>>
timeVars    == <<scheduleTime, now>>
monitorVars == <<count, waiting, owner>>
loopVars    == <<nextTime, timer, poll>>
programVars == <<depth, entering, forced, leaked>>

vars == <<live, created, current, phase, id, status, scheduleTime, priority,
          needResched, semId, monitorObject, started, count, waiting, owner, now,
          nextTime, timer, poll, receiver, depth, entering, forced, leaked>>

U8(n) == n % 256    \* count, waiting_threads and priority are uint8_t

FirstOf(t, S) == t \in S /\ \A u \in S : t <= u
LastOf(t, S)  == t \in S /\ \A u \in S : u <= t

-----------------------------------------------------------------------------
\* dj_thread_create zeroes the fields; the embedded infusions leave one main
\* thread running when darjeeling_process enters its loop.
Init ==
  /\ live = {1} /\ created = 1 /\ current = NoThread /\ phase = "top"
  /\ id = [t \in Threads |-> 0]
  /\ status = [t \in Threads |-> IF t = 1 THEN "RUNNING" ELSE "CREATED"]
  /\ scheduleTime = [t \in Threads |-> 0]
  /\ priority = [t \in Threads |-> 0]
  /\ needResched = [t \in Threads |-> FALSE]
  /\ semId = [t \in Threads |-> 0]
  /\ monitorObject = [t \in Threads |-> NoObject]
  /\ started = {1}
  /\ count = [o \in Objects |-> 0]
  /\ waiting = [o \in Objects |-> 0]
  /\ owner = [o \in Objects |-> NoThread]
  /\ now = 0 /\ nextTime = 0 /\ timer = 0 /\ poll = FALSE
  /\ receiver = [c \in Channels |-> NoId]
  /\ depth = [t \in Threads |-> [o \in Objects |-> 0]]
  /\ entering = [t \in Threads |-> NoObject]
  /\ forced = [o \in Objects |-> 0]
  /\ leaked = [o \in Objects |-> 0]

\* t executes an instruction of its quantum.  A thread stopped by itself keeps
\* running to the end of the quantum: dj_exec_run does not look at the status.
Executes(t) == phase = "run" /\ t = current

\* dj_exec_breakExecution
BreakExecution == phase' = "schedule"

-----------------------------------------------------------------------------
\* Monitors.

\* The count of a monitor after one more, or one less, of its owner's entries.  (Here
\* and below a definition marked "faulty" is used by no action: it is what the one that
\* follows would be with a plausible mistake, and the properties must tell the two apart.)
ReenteredOnce(n) == n     \* faulty: a lock without a count
Reentered(n) == U8(n + 1)
LeftAltogether(n) == 0    \* faulty: every exit opens the monitor
Left(n) == U8(n - 1)

\* The owner is a pointer to a thread that has been removed and freed.
Dangling(o) == owner[o] # NoThread /\ owner[o] \notin live

\* MONITORENTER: enter a free monitor, re-enter one's own, or block.  A dangling owner
\* may compare equal to any thread, which has been allocated, or moved, to its place.
MonitorEnter(t, o) ==
  /\ Executes(t)
  /\ depth[t][o] < MaxNest
  /\ \/ /\ count[o] = 0
        /\ count' = [count EXCEPT ![o] = 1]
        /\ owner' = [owner EXCEPT ![o] = t]
        /\ depth' = [depth EXCEPT ![t][o] = @ + 1]
        /\ UNCHANGED <<phase, status, monitorObject, waiting, entering, leaked>>
     \/ /\ count[o] # 0
        /\ owner[o] = t
        /\ depth[t][o] + leaked[o] < MaxNest
        /\ count' = [count EXCEPT ![o] = Reentered(@)]
        /\ depth' = [depth EXCEPT ![t][o] = @ + 1]
        /\ UNCHANGED <<phase, status, monitorObject, waiting, owner, entering, leaked>>
     \/ /\ count[o] # 0
        /\ owner[o] # t /\ Dangling(o)
        /\ depth[owner[o]][o] + leaked[o] < MaxNest
        /\ count' = [count EXCEPT ![o] = Reentered(@)]
        /\ owner' = [owner EXCEPT ![o] = t]
        /\ depth' = [depth EXCEPT ![t][o] = @ + 1, ![owner[o]][o] = 0]
        /\ leaked' = [leaked EXCEPT ![o] = @ + depth[owner[o]][o]]
        /\ UNCHANGED <<phase, status, monitorObject, waiting, entering>>
     \/ /\ count[o] # 0
        /\ owner[o] # t
        /\ status' = [status EXCEPT ![t] = "BLOCKED_FOR_MONITOR"]
        /\ monitorObject' = [monitorObject EXCEPT ![t] = o]
        /\ waiting' = [waiting EXCEPT ![o] = U8(@ + 1)]
        /\ entering' = [entering EXCEPT ![t] = o]
        /\ BreakExecution
        /\ UNCHANGED <<count, owner, depth, leaked>>
  /\ UNCHANGED <<machineVars, timeVars, loopVars, priority, needResched, semId,
                 receiver, forced>>

\* MONITOREXIT: the owner is cleared at every exit, nested or not, and nothing
\* checks that the thread owns the monitor.  A monitor with count and waiting
\* both 0 is removed, which is how this model represents one that is absent.
MonitorExit(t, o) ==
  /\ Executes(t)
  /\ depth[t][o] > 0
  /\ count' = [count EXCEPT ![o] = Left(@)]
  /\ owner' = [owner EXCEPT ![o] = NoThread]
  /\ monitorObject' = [monitorObject EXCEPT ![t] = NoObject]
  /\ depth' = [depth EXCEPT ![t][o] = @ - 1]
  /\ UNCHANGED <<machineVars, timeVars, loopVars, phase, status, priority, needResched,
                 semId, waiting, receiver, entering, forced, leaked>>

\* Object.wait: the monitor, if the thread holds it, is not released.
Wait(t, o, d) ==
  /\ Executes(t)
  /\ now + d <= Horizon
  /\ status' = [status EXCEPT ![t] = "WAITING_FOR_MONITOR"]
  /\ scheduleTime' = [scheduleTime EXCEPT ![t] = IF d = 0 THEN 0 ELSE now + d]
  /\ monitorObject' = [monitorObject EXCEPT ![t] = o]
  /\ BreakExecution
  /\ UNCHANGED <<machineVars, monitorVars, loopVars, programVars, now, priority,
                 needResched, semId, receiver>>

Waiters(o) == {t \in live : status[t] = "WAITING_FOR_MONITOR" /\ monitorObject[t] = o}

\* Object.notify, and Object.notifyAll, which passes all = false too: the first
\* waiter of the list wakes, or nobody.  The caller need not own the monitor.
Notify(t, o) ==
  /\ Executes(t)
  /\ \/ \E u \in Waiters(o) :
          /\ FirstOf(u, Waiters(o))
          /\ status' = [status EXCEPT ![u] = "RUNNING"]
          /\ monitorObject' = [monitorObject EXCEPT ![u] = NoObject]
     \/ Waiters(o) = {} /\ UNCHANGED <<status, monitorObject>>
  /\ UNCHANGED <<machineVars, timeVars, monitorVars, loopVars, programVars, phase,
                 priority, needResched, semId, receiver>>

-----------------------------------------------------------------------------
\* Threads.

\* Thread.sleep
Sleep(t, d) ==
  /\ Executes(t)
  /\ now + d <= Horizon
  /\ status' = [status EXCEPT ![t] = "SLEEPING"]
  /\ scheduleTime' = [scheduleTime EXCEPT ![t] = now + d]
  /\ BreakExecution
  /\ UNCHANGED <<machineVars, monitorVars, loopVars, programVars, now, priority,
                 needResched, semId, monitorObject, receiver>>

\* Thread.yield, and the end of the RUNSIZE bytecodes of a quantum.
EndQuantum(t) ==
  /\ Executes(t)
  /\ BreakExecution
  /\ UNCHANGED <<machineVars, timeVars, monitorVars, loopVars, programVars, status,
                 priority, needResched, semId, monitorObject, receiver>>

\* Faulty: the number of threads is handed out again while its thread lives.
NumberByLength(u) == id' = [id EXCEPT ![u] = Cardinality(live)]

\* Faulty: the list is numbered from its head on, against the order it grows in.
NumberBelowHead(u) ==
  \/ live = {} /\ id' = [id EXCEPT ![u] = 0]
  \/ \E head \in live : FirstOf(head, live) /\ id' = [id EXCEPT ![u] = id[head] - 1]

\* dj_vm_addThread: the thread goes to the tail, numbered one beyond it.
NumberAfterTail(u) ==
  \/ live = {} /\ id' = [id EXCEPT ![u] = 0]
  \/ \E tail \in live : LastOf(tail, live) /\ id' = [id EXCEPT ![u] = id[tail] + 1]

AddThread(u) ==
  /\ u = created + 1 /\ u <= MaxThreads
  /\ created' = u
  /\ live' = live \cup {u}
  /\ NumberAfterTail(u)

\* Thread._create, Thread._setRunnable: the constructor of java.lang.Thread.
CreateThread(t) ==
  /\ Executes(t)
  /\ AddThread(created + 1)
  /\ UNCHANGED <<timeVars, monitorVars, loopVars, programVars, current, phase, status,
                 priority, needResched, semId, monitorObject, started, receiver>>

\* Thread.start: the number is looked up, and only a CREATED thread may start.  (The status
\* is tested in Thread.java, some bytecodes before the native call: one step here.)
StartThread(t, u) ==
  /\ Executes(t)
  /\ FirstOf(u, {v \in live : id[v] = id[u]})
  /\ status[u] = "CREATED"
  /\ status' = [status EXCEPT ![u] = "RUNNING"]
  /\ started' = started \cup {u}
  /\ UNCHANGED <<timeVars, monitorVars, loopVars, programVars, live, created, current,
                 id, phase, priority, needResched, semId, monitorObject, receiver>>

\* Task._start: a thread for the task's entry point, to be run first.
StartTask(t) ==
  LET u == created + 1 IN
  /\ Executes(t)
  /\ AddThread(u)
  /\ status' = [status EXCEPT ![u] = "RUNNING"]
  /\ needResched' = [needResched EXCEPT ![u] = TRUE]
  /\ started' = started \cup {u}
  /\ UNCHANGED <<timeVars, monitorVars, loopVars, programVars, current, phase,
                 priority, semId, monitorObject, receiver>>

\* Task._stop, and the first loop of dj_vm_unloadInfusion: the threads S with a
\* frame in the task are finished where they stand, the caller included, and the
\* caller's quantum goes on.  (Infusion.unload breaks it: its caller does less than this.)
StopTask(t, S) ==
  /\ Executes(t)
  /\ S # {}
  /\ S \subseteq TaskThreads \cap live \cap started
  /\ status' = [u \in Threads |-> IF u \in S THEN "FINISHED" ELSE status[u]]
  /\ UNCHANGED <<machineVars, timeVars, monitorVars, loopVars, programVars, phase,
                 priority, needResched, semId, monitorObject, receiver>>

\* The return from the thread's first method.
Finish(t) ==
  /\ Executes(t)
  /\ \A o \in Objects : depth[t][o] = 0
  /\ status' = [status EXCEPT ![t] = "FINISHED"]
  /\ started' = started \ {t}
  /\ BreakExecution
  /\ UNCHANGED <<timeVars, monitorVars, loopVars, programVars, live, created, current,
                 id, priority, needResched, semId, monitorObject, receiver>>

-----------------------------------------------------------------------------
\* Semaphores and input.

\* A thread set to THREADSTATUS_RUNNING from outside goes on after the instruction
\* it was blocked in.  Where that is a MONITORENTER it is now inside the monitor
\* without having been granted it.
PassMonitors(S) ==
  /\ depth' = [t \in Threads |-> [o \in Objects |->
                 IF t \in S /\ entering[t] = o THEN depth[t][o] + 1 ELSE depth[t][o]]]
  /\ entering' = [t \in Threads |-> IF t \in S THEN NoObject ELSE entering[t]]
  /\ forced' = [o \in Objects |-> forced[o] + Cardinality({t \in S : entering[t] = o})]
  /\ \A o \in Objects : forced'[o] <= MaxForced

\* Semaphore._waitForSemaphore
WaitForSemaphore(t, s) ==
  /\ Executes(t)
  /\ semId' = [semId EXCEPT ![t] = s]
  /\ status' = [status EXCEPT ![t] = "BLOCKED"]
  /\ BreakExecution
  /\ UNCHANGED <<machineVars, timeVars, monitorVars, loopVars, programVars, priority,
                 needResched, monitorObject, receiver>>

BySem(s) == {u \in live : semId[u] = s}

\* Semaphore._wakeupWaitingThread: the first thread of the list with the semaphore
\* in its sem_id runs, whatever its status.  (Without one the native writes through
\* a null pointer: this model has no such call.)
WakeupWaitingThread(t, s) ==
  /\ Executes(t)
  /\ \E u \in BySem(s) :
       /\ FirstOf(u, BySem(s))
       /\ status' = [status EXCEPT ![u] = "RUNNING"]
       /\ semId' = [semId EXCEPT ![u] = 0]
       /\ PassMonitors({u})
  /\ UNCHANGED <<machineVars, timeVars, monitorVars, loopVars, phase, priority,
                 needResched, monitorObject, receiver, leaked>>

\* InterruptPin.waitForInterrupt: ports use the semaphore ids 1 and up.
WaitForInterrupt(t, p) ==
  /\ Executes(t)
  /\ semId' = [semId EXCEPT ![t] = p + 1]
  /\ status' = [status EXCEPT ![t] = "BLOCKED_FOR_IO"]
  /\ BreakExecution
  /\ UNCHANGED <<machineVars, timeVars, monitorVars, loopVars, programVars, priority,
                 needResched, monitorObject, receiver>>

\* Radio._waitForMessage and its serial counterpart.
WaitForMessage(t) ==
  /\ Executes(t)
  /\ Channels # {}
  /\ status' = [status EXCEPT ![t] = "BLOCKED_FOR_IO"]
  /\ BreakExecution
  /\ UNCHANGED <<machineVars, timeVars, monitorVars, loopVars, programVars, priority,
                 needResched, semId, monitorObject, receiver>>

\* Radio._init, serial_input_open: the number of the calling thread is kept.
OpenChannel(t, c) ==
  /\ Executes(t)
  /\ receiver' = [receiver EXCEPT ![c] = id[t]]
  /\ UNCHANGED <<machineVars, timeVars, monitorVars, loopVars, programVars, phase,
                 status, priority, needResched, semId, monitorObject>>

-----------------------------------------------------------------------------
\* The scheduler, dj_vm_schedule.

\* dj_vm_checkFinishedThreads
Kept == {t \in live : status[t] # "FINISHED"}

\* dj_vm_wakeThreads walks the list once: a free monitor goes to the first thread
\* blocked on it, and is taken for those behind it.
GrantedAtHead(t) ==    \* faulty: only the head of the list is looked at
  FirstOf(t, live) /\ status[t] = "BLOCKED_FOR_MONITOR" /\ count[monitorObject[t]] = 0

Granted(t) ==
  /\ status[t] = "BLOCKED_FOR_MONITOR"
  /\ count[monitorObject[t]] = 0
  /\ FirstOf(t, {u \in Kept : /\ status[u] = "BLOCKED_FOR_MONITOR"
                              /\ monitorObject[u] = monitorObject[t]})

WokenEarly(t) == status[t] = "SLEEPING"   \* faulty: any schedule ends a sleep
SleepOver(t) == status[t] = "SLEEPING" /\ scheduleTime[t] <= now

TimedOut(t) == /\ status[t] = "WAITING_FOR_MONITOR"
               /\ scheduleTime[t] # 0 /\ scheduleTime[t] <= now

Runnable == {t \in Kept : \/ status[t] = "RUNNING" \/ SleepOver(t)
                          \/ TimedOut(t) \/ Granted(t)}

WaitingForgotten(n) == 0    \* faulty: the other blocked threads are forgotten
WaitingLess(n) == U8(n - 1)

Grantees(o) == {t \in Kept : Granted(t) /\ monitorObject[t] = o}

WakeThreads ==
  /\ status' = [t \in Threads |-> IF t \in Runnable THEN "RUNNING" ELSE status[t]]
  /\ monitorObject' =
       [t \in Threads |-> IF t \in Kept /\ TimedOut(t) THEN NoObject ELSE monitorObject[t]]
  /\ count' = [o \in Objects |-> IF Grantees(o) # {} THEN 1 ELSE count[o]]
  /\ waiting' = [o \in Objects |-> IF Grantees(o) # {} THEN WaitingLess(waiting[o])
                                                       ELSE waiting[o]]
  /\ owner' = [o \in Objects |-> IF Grantees(o) # {} THEN CHOOSE t \in Grantees(o) : TRUE
                                                     ELSE owner[o]]
  /\ depth' = [t \in Threads |-> [o \in Objects |->
                 IF t \in Grantees(o) THEN depth[t][o] + 1 ELSE depth[t][o]]]
  /\ entering' = [t \in Threads |->
                    IF t \in Kept /\ Granted(t) THEN NoObject ELSE entering[t]]

\* The times dj_vm_wakeThreads takes the minimum of: those of sleeping threads,
\* also of one it wakes in the same pass, and not those of timed waits.
\* Faulty: the times of the wrong status are collected.
TimesOfWaits == {scheduleTime[t] : t \in {u \in Kept : status[u] = "WAITING_FOR_MONITOR"}}
TimesOfSleeps == {scheduleTime[t] : t \in {u \in Kept : status[u] = "SLEEPING"}}

AnyTime(S) == \E e \in S : nextTime' = e     \* faulty: not the minimum
Earliest(S) == \E e \in S : FirstOf(e, S) /\ nextTime' = e
NextScheduleTime ==
  Earliest({MaxScheduleTime} \cup {s \in TimesOfSleeps : s > 0 /\ s < MaxScheduleTime})

\* The selection loop stops at the first thread that need_resched; the threads it
\* passes, that one included, age by one.
NeverAged(n) == n          \* faulty: the first runnable thread always wins
Aged(n) == U8(n + 1)

Urgent == {t \in Runnable : needResched[t]}

Ageing(t) == IF t \in Runnable /\ \A u \in Urgent : t <= u THEN Aged(priority[t])
                                                           ELSE priority[t]

Selects(t) ==
  \/ FirstOf(t, Urgent)
  \/ /\ Urgent = {} /\ t \in Runnable
     /\ \A u \in Runnable : \/ Ageing(u) < Ageing(t)
                            \/ Ageing(u) = Ageing(t) /\ t <= u
  \/ Runnable = {} /\ t = NoThread

CountsAsLive == {"RUNNING", "BLOCKED", "BLOCKED_FOR_MONITOR", "WAITING_FOR_MONITOR",
                 "SLEEPING", "BLOCKED_FOR_IO"}

LiveThreads == {t \in live : status[t] \in CountsAsLive}

UrgentForEver(u, t) == needResched[u]   \* faulty: the flag outlives its purpose
StillUrgent(u, t) == needResched[u] /\ u # t

\* dj_vm_schedule with dj_vm_activateThread, which panics on a thread that has no
\* frame.  With no thread to activate the process leaves its inner loop.
Schedule ==
  /\ phase = "schedule" \/ (phase = "top" /\ LiveThreads # {})
  /\ live' = Kept
  /\ WakeThreads
  /\ NextScheduleTime
  /\ \E t \in Threads \cup {NoThread} :
       /\ Selects(t)
       /\ current' = t
       /\ priority' = [u \in Threads |-> IF u = t THEN 0 ELSE Ageing(u)]
       /\ needResched' = [u \in Threads |-> StillUrgent(u, t)]
       /\ phase' = IF t = NoThread THEN "arm" ELSE IF t \in started THEN "run" ELSE "panic"
  /\ UNCHANGED <<timeVars, created, id, semId, started, timer, poll, receiver, forced,
                 leaked>>

-----------------------------------------------------------------------------
\* darjeeling_process and what wakes it.

\* With no live thread the loop skips the scheduler and keeps the last time.
NothingLive ==
  /\ phase = "top" /\ LiveThreads = {}
  /\ phase' = "arm"
  /\ UNCHANGED <<machineVars, timeVars, monitorVars, loopVars, programVars, status,
                 priority, needResched, semId, monitorObject, receiver>>

DeltaSleep == LET d == (nextTime - now) \div MsPerTick IN IF d <= 0 THEN 1 ELSE d

\* etimer_set, then PROCESS_YIELD_UNTIL
Arm ==
  /\ phase = "arm"
  /\ timer' = now + MsPerTick * DeltaSleep
  /\ phase' = "idle"
  /\ UNCHANGED <<machineVars, timeVars, monitorVars, programVars, nextTime, poll, status,
                 priority, needResched, semId, monitorObject, receiver>>

Resume ==
  /\ phase = "idle"
  /\ \/ timer <= now /\ UNCHANGED poll
     \/ poll /\ poll' = FALSE
  /\ phase' = "top"
  /\ UNCHANGED <<machineVars, timeVars, monitorVars, programVars, nextTime, timer, status,
                 priority, needResched, semId, monitorObject, receiver>>

\* The callbacks run in other Contiki processes, so only while this one has yielded.
\* They put their threads S at the head of the queue, whatever the threads wait for.
NoPoll == UNCHANGED poll    \* faulty: the process is not polled
Poll == poll' = TRUE

WakeFirst(S) ==
  /\ phase = "idle"
  /\ status' = [t \in Threads |-> IF t \in S THEN "RUNNING" ELSE status[t]]
  /\ needResched' = [t \in Threads |-> t \in S \/ needResched[t]]
  /\ PassMonitors(S)
  /\ Poll
  /\ UNCHANGED <<machineVars, timeVars, monitorVars, phase, priority, monitorObject,
                 nextTime, timer, receiver, leaked>>

\* broadcast_recv, recv_uc, serial_input_callback
Receive(c) ==
  /\ WakeFirst({t \in live : FirstOf(t, {u \in live : id[u] = receiver[c]})})
  /\ UNCHANGED semId

\* digital_io_callback
PortInterrupt(p) ==
  /\ WakeFirst(BySem(p + 1))
  /\ semId' = [t \in Threads |-> IF t \in BySem(p + 1) THEN 0 ELSE semId[t]]

\* The clock.  Bound: it stops at the horizon, two ticks later while the VM idles
\* so that every timer of a sleeping thread still expires.
Tick ==
  /\ now + MsPerTick <= Horizon + (IF phase = "idle" THEN 2 * MsPerTick ELSE 0)
  /\ now' = now + MsPerTick
  /\ UNCHANGED <<machineVars, monitorVars, loopVars, programVars, phase, status,
                 scheduleTime, priority, needResched, semId, monitorObject, receiver>>

-----------------------------------------------------------------------------
Instruction(t) ==
  \/ \E o \in Objects : MonitorEnter(t, o)
  \/ \E o \in Objects : MonitorExit(t, o)
  \/ \E o \in Objects, d \in Timeouts : Wait(t, o, d)
  \/ \E o \in Objects : Notify(t, o)
  \/ \E d \in Delays : Sleep(t, d)
  \/ EndQuantum(t)
  \/ CreateThread(t)
  \/ \E u \in live : StartThread(t, u)
  \/ StartTask(t)
  \/ \E S \in SUBSET TaskThreads : StopTask(t, S)
  \/ Finish(t)
  \/ \E s \in Semaphores : WaitForSemaphore(t, s)
  \/ \E s \in Semaphores : WakeupWaitingThread(t, s)
  \/ \E p \in Ports : WaitForInterrupt(t, p)
  \/ WaitForMessage(t)
  \/ \E c \in Channels : OpenChannel(t, c)

Next ==
  \/ \E t \in Threads : Instruction(t)
  \/ Schedule
  \/ NothingLive
  \/ Arm
  \/ Resume
  \/ \E c \in Channels : Receive(c)
  \/ \E p \in Ports : PortInterrupt(p)
  \/ Tick

Spec == Init /\ [][Next]_vars

\* The clock runs, a quantum is RUNSIZE bytecodes long, and the Contiki kernel runs
\* a process that has an event.  The programs owe nothing.
Fairness ==
  /\ WF_vars(Tick)
  /\ WF_vars(\E t \in Threads : EndQuantum(t))
  /\ WF_vars(Schedule)
  /\ WF_vars(NothingLive)
  /\ WF_vars(Arm)
  /\ WF_vars(Resume)

FairSpec == Spec /\ Fairness

-----------------------------------------------------------------------------
\* Properties.

\* The monitors that no thread ever passed ungranted.
Unforced == {o \in Objects : forced[o] = 0}

TypeOK ==
  /\ live \subseteq Threads /\ created \in Threads
  /\ current \in Threads \cup {NoThread} /\ phase \in Phases
  /\ id \in [Threads -> Nat]
  /\ status \in [Threads -> Statuses]
  /\ scheduleTime \in [Threads -> Nat]
  /\ priority \in [Threads -> 0 .. 255]
  /\ needResched \in [Threads -> BOOLEAN]
  /\ semId \in [Threads -> Nat]
  /\ monitorObject \in [Threads -> Objects \cup {NoObject}]
  /\ started \subseteq Threads
  /\ count \in [Objects -> 0 .. 255]
  /\ waiting \in [Objects -> 0 .. 255]
  /\ owner \in [Objects -> Threads \cup {NoThread}]
  /\ now \in Nat /\ nextTime \in Nat /\ timer \in Nat /\ poll \in BOOLEAN
  /\ receiver \in [Channels -> Nat]
  /\ depth \in [Threads -> [Objects -> Nat]]
  /\ entering \in [Threads -> Objects \cup {NoObject}]
  /\ forced \in [Objects -> Nat]
  /\ leaked \in [Objects -> Nat]

\* The thread numbers grow along the list, so they are distinct: Thread.start and the
\* radio callback find by number the thread they mean, although the numbers of removed
\* tail threads are handed out again.
IdsFollowList == \A t, u \in live : t < u => id[t] < id[u]

\* The inductive form: a new thread comes after every thread of the list.
ListInv == (\A t \in live : t <= created) /\ IdsFollowList

\* At most one thread is inside the synchronized blocks of an object, through nested
\* exits that clear the owner, hand-overs by the scheduler, threads stopped inside and
\* owners that dangle, unless a thread was set running out of its MONITORENTER.
MutualExclusion ==
  \A o \in Unforced : \A t, u \in Threads :
    depth[t][o] > 0 /\ depth[u][o] > 0 => t = u

\* The count of a monitor is the nesting of the thread inside it, also after that thread
\* is dead, plus what dead owners leaked, and an owner on record is inside: nothing else
\* is left over, or short, to lock a monitor for ever or to open it early.
CountIsNesting ==
  \A o \in Unforced :
    /\ \A t \in Threads : depth[t][o] > 0 => count[o] = depth[t][o] + leaked[o]
    /\ (\A t \in Threads : depth[t][o] = 0) => count[o] = leaked[o]
    /\ owner[o] # NoThread => depth[owner[o]][o] > 0

\* The two together are inductive: a monitor is free to enter only when nobody is inside.
MonitorInv == MutualExclusion /\ CountIsNesting

\* waiting_threads never falls short of the threads blocked on the monitor: MONITOREXIT
\* does not remove a monitor that the scheduler is still going to look up for them.
BlockedAreCounted ==
  \A o \in Objects :
    waiting[o] >= Cardinality({t \in live : /\ status[t] = "BLOCKED_FOR_MONITOR"
                                            /\ monitorObject[t] = o})

\* When the VM goes to sleep nobody is left blocked on a free monitor.
NoForgottenHandover ==
  phase \in {"arm", "idle"} =>
    \A t \in live : status[t] = "BLOCKED_FOR_MONITOR" => count[monitorObject[t]] # 0

\* When the VM sleeps with a thread that can run, an event to wake it is queued: a
\* callback that comes between two schedules is not lost.
NoLostWakeup ==
  phase = "idle" /\ (\E t \in live : status[t] = "RUNNING") => poll

\* The two together are inductive, with what the scheduler leaves for the process to arm
\* its timer by.
IdleInv ==
  /\ phase = "arm" => \A t \in live : status[t] # "RUNNING"
  /\ NoLostWakeup
  /\ NoForgottenHandover

\* When the VM sleeps, its timer expires no later than one tick after the time of each
\* sleeping thread: clipping the delay to whole ticks, at least one, costs no more.
TimerCoversSleepers ==
  phase = "idle" =>
    \A t \in live : status[t] = "SLEEPING" =>
      timer <= MsPerTick + (IF scheduleTime[t] > now THEN scheduleTime[t] ELSE now)

\* The inductive form: the scheduler hands the process a time that covers the sleepers.
TimerInv ==
  /\ \A t \in Threads : scheduleTime[t] <= Horizon
  /\ phase = "arm" => \A t \in live : status[t] = "SLEEPING" => nextTime <= scheduleTime[t]
  /\ TimerCoversSleepers

\* A thread marked to take the CPU first can run, or has been stopped: the mark of a
\* callback or of a task's start never survives to jump a later queue.
UrgencyIsFresh ==
  \A t \in live : needResched[t] => status[t] \in {"RUNNING", "FINISHED"}

\* The inductive form: the thread that runs has lost its mark, and a new one has none.
UrgencyInv ==
  /\ \A t \in live : t <= created
  /\ \A t \in Threads : t > created => ~ needResched[t]
  /\ phase = "run" => current \in live /\ ~ needResched[current]
  /\ UrgencyIsFresh

\* Thread.sleep ends before its time only when the VM is idle and a callback wakes the
\* thread, or through the sem_id that an interrupted semaphore wait left in the thread.
SleepEndsInTime ==
  [][\A t \in live : status[t] = "SLEEPING" /\ status'[t] = "RUNNING" =>
        scheduleTime[t] <= now \/ phase = "idle" \/ semId[t] # 0]_vars

\* A thread that waits for its turn is passed over by finitely many schedules, as long as no
\* thread is marked to jump the queue and no age wraps its byte: each of them uses up a mark,
\* or else takes a thread from those that go before it, and no step adds one.
Marked == {u \in live : needResched[u]}
GoesBefore(t) == {u \in live : \/ priority[u] > priority[t]
                               \/ priority[u] = priority[t] /\ u < t}
AgesFit == \A u \in live : priority[u] < 255
Shrinks(old, new) == new \subseteq old /\ new # old
WaitsForTurn(t) == t \in live /\ status[t] = "RUNNING" /\ t # current
Schedules == phase \in {"schedule", "top"} /\ phase' = "run"
TurnComesNearer ==
  [][\A t \in live :
       AgesFit /\ status[t] = "RUNNING" /\ WaitsForTurn(t)' /\ Marked' \subseteq Marked =>
         \/ Shrinks(Marked, Marked')
         \/ Shrinks(GoesBefore(t), GoesBefore(t)')
         \/ ~Schedules /\ GoesBefore(t)' = GoesBefore(t)]_vars

\* Every thread that can run does run, whatever the others do: round robin by age, and
\* a thread resumed by a callback gets its schedule.
EveryRunnableRuns ==
  \A t \in Threads :
    (t \in live /\ status[t] = "RUNNING") ~>
      (current = t \/ t \notin live \/ status[t] # "RUNNING" \/ phase = "panic")

\* Every Thread.sleep ends.
EverySleepEnds ==
  \A t \in Threads :
    (t \in live /\ status[t] = "SLEEPING") ~> (status[t] # "SLEEPING" \/ phase = "panic")

\* A thread that finds a monitor taken waits for it ("we can't enter, so just block",
\* misc_instructions.h): no two threads are ever inside the same object.
NoTrespass ==
  \A o \in Objects, t, u \in Threads : depth[t][o] > 0 /\ depth[u][o] > 0 => t = u

\* A thread does not block on a monitor it is inside of ("Reentering monitor",
\* misc_instructions.h).
NoSelfBlock == \A t \in live, o \in Objects : entering[t] = o => depth[t][o] = 0

\* "kill the thread" (Task.c, vm.c): a thread that was stopped is never live again.
StoppedStaysStopped ==
  [][\A t \in live : status[t] = "FINISHED" /\ t \in live' => status'[t] = "FINISHED"]_vars

\* "wake waiting threads that timed out" (vm.c): when the VM sleeps, its timer expires no
\* later than one tick after the time of each thread in a timed Object.wait.
TimerCoversWaits ==
  phase = "idle" =>
    \A t \in live : status[t] = "WAITING_FOR_MONITOR" /\ scheduleTime[t] # 0 =>
      timer <= MsPerTick + (IF scheduleTime[t] > now THEN scheduleTime[t] ELSE now)
==============================================================================
