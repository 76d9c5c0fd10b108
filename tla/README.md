# Verification of the VirtualSense virtual machine

VirtualSense is a wireless sensor node that runs Java. Its firmware is Contiki with a
port of the Darjeeling virtual machine (`src/VirtualSense/DJ_VirtualMachine.1.0/
darjeeling.1.1/src`, below `DJ/`), on an MSP430. This directory holds TLA+ models of the
parts of it in which order, sharing and time decide, the TLC runs that check them, and
proofs that TLAPS checks.

Paths below: `vm.c` is `DJ/vm/common/vm.c`, `vmthread.c` is `DJ/vm/common/vmthread.c`,
`misc_instructions.h` and `execution.c` are in `DJ/vm/common/execution/`, the natives in
`DJ/vm/common/native_methods/` and `DJ/vm/opt/virtualsense/contiki/`, `main.c` and
`djtimer.c` in `DJ/vm/platform/contiki/`, the Java library in
`DJ/lib/virtualsense/javax/virtualsense/`.

## Inventory

| Part | State | Operations | Interacts with | Hard about it |
|---|---|---|---|---|
| Thread list, scheduler (`vm.c`, `vmthread.c`) | list of `dj_thread`: id, status, scheduleTime, priority, need_resched, sem_id, monitorObject; currentThread | add, remove finished, wake, select, activate | everything that blocks or wakes | order of the list, byte ages, stale fields, numbers reused |
| Monitors (`misc_instructions.h`, `vm.c`) | count, waiting_threads, owner per locked object | MONITORENTER, MONITOREXIT, hand-over in `dj_vm_wakeThreads`, wait/notify | scheduler, collector | nested entry, dead owners, removal while somebody waits |
| Natives that block | status, sem_id, scheduleTime of the caller | sleep, wait, semaphore, port, radio | scheduler, callbacks | wake-ups that do not look at the status |
| `darjeeling_process` (`main.c`) | nextScheduleTime, etimer, poll, receiver ids | loop, yield, callbacks of radio, serial line, ports | Contiki | lost polls, rounding of time |
| Monitor table (`vm.c` 912-1031) | linked blocks of `dj_monitor`, numMonitors | find or create, remove by moving the last | monitors, heap | swap with the last, empty blocks |
| Semaphore class (`Semaphore.java`) | permits, id | acquire, release: declared synchronized, but the infuser compiles such methods without a monitor and only warns | semaphore natives | a quantum may end between test and wait |
| Tasks (`TaskManager.java`, `Task.java`, `javax_virtualsense_platform_Task.c`) | tasks[20], infusion ids | load, start, stop, unload | infusions, threads | ids that shift, threads that survive |
| Infusions, runtime ids (`infusion.c`, `vm.c`, `global_id.c`) | list of infusions, class ids | load, link, unload, shift | heap | ids that shift |
| Class initialisers (`vm.c` 1083-1133) | extra threads numbered -1 | run to the end inside a loader | scheduler, `main.c` | nested scheduling |
| Heap and collector (`heap.c`) | chunks, colours, update stack | alloc, free, mark, compact, shift ids | everything | moves, stale pointers |
| Hibernation (`system_hibernation.c`) | image in EEPROM | save, power down, restore | heap, clock | power failure, C statics |
| Power locks (`power-interface.c`) | byte counters | lock, release, shut down | radio, power manager | unbalanced, wrap |
| Network in Java (`Dispatcher`, `Protocol`, `Network`, `Radio`, `CommandProtocol`) | protocols[10], actual packet, locks | receive, dispatch, send, flood commands | radio native, tasks | one packet buffer, duplicates |
| Interpreter (`execution.c`) | frames | about 200 bytecodes | heap, natives | sequential |
| Application and command managers, storage, drivers, infuser | tables in flash, registers | I/O | | pure I/O or off-line |

What makes each part correct:

- *threads*: numbers identify threads; every runnable thread runs; sleeps end, and not
  before their time; a stopped thread stays stopped; the mark that lets a thread jump the
  queue does not outlive its use;
- *monitors*: one thread at a time inside an object; the count says how deep; a free
  monitor with blocked threads is handed over; a monitor is not removed while the
  scheduler will still look it up; a thread never blocks on itself;
- *process loop*: no wake-up is lost between a schedule and the yield; the timer covers
  every thread that waits for a time;
- *monitor table*: it is a map from objects to monitors;
- *semaphore*: as many holders as permits, and no permit or waiter is lost;
- *tasks, infusions*: an id names the same infusion, or class, until it is unloaded; the
  code a thread runs is loaded;
- *heap*: a collection frees what cannot be reached, and the program cannot tell the heap
  after it from the heap before;
- *network*: a command whose flood is alone reaches every node that can hear it, once, and
  its flood ends; nothing in the code keeps two floods apart;
- *hibernation*: an accepted image is a complete one;
- *power locks*: a peripheral is off only when nobody needs it.

## Plan

1. `VMThreads`, `VMThreads_proofs` (done): threads, scheduler, monitors, blocking natives,
   process loop, callbacks, time. It is the core, every other part meets it.
2. `MonitorTable`, `MonitorMap`, `MonitorTable_proofs` (done): the blocks of monitors, shown
   to implement the map from objects to monitors that `VMThreads` uses.
3. `Heap`, `Infusions` (done): the compacting collector under the instructions that
   allocate, and infusions that are loaded and unloaded while it runs.
4. `CommandNet`, `CommandNet_proofs` (done): the flooding of commands by the dispatcher
   threads of several nodes over a lossy channel.
5. Open: the hand-over of a packet to the receiving thread (`Semaphore.java` over the
   natives of `VMThreads`); deferred class initialisers; hibernation, with a crash between
   two writes; the power locks.
6. `Heap_proofs`, `Infusions_proofs`, `Classes_proofs` (done): the heap, the class ranges, the
   code and the classes of objects stay in order, for any threads, infusions, sizes and heap.
7. `References_proofs`, `Collector_proofs` (done): every reference through the collection, and
   from it what marking frees, that the program does not see a collection, and that it ends.
8. Open: an abstract specification of a store of objects without addresses or collector, which
   `Infusions` implements under the mapping `View`.

## Modules

| Module | Models |
|---|---|
| `VMThreads` | threads, scheduler, monitors, natives, process loop, callbacks, clock |
| `MCVMThreads` | symmetry of the objects for TLC |
| `VMThreads_proofs` | theorems about `VMThreads` |
| `MonitorMap` | the promise of the monitor table: a count and a number of waiters per object |
| `MonitorTable` | the table: blocks, slots, counters |
| `MCMonitorTable` | symmetry of the objects for TLC |
| `MonitorTable_proofs` | theorems about `MonitorTable`, among them the refinement |
| `Heap` | chunks, allocation, marking, compaction |
| `Infusions` | extends `Heap`: instructions, frames, exceptions, threads, loading, unloading |
| `MCInfusions` | infusions, who imports whom, and symmetries for TLC |
| `Heap_proofs` | theorems about the collector of `Heap` |
| `Infusions_proofs` | extends `Infusions` and `Heap_proofs`: theorems about the heap and its infusions |
| `Classes_proofs` | extends `Infusions_proofs`: the classes of objects |
| `References_proofs` | extends `Infusions_proofs`: types, references and colours |
| `Collector_proofs` | extends `References_proofs`: garbage, the view of the program, the end of a collection |
| `CommandNet` | nodes, dispatcher threads, packets in the air |
| `MCCommandNet` | a network of four nodes and one of three for TLC |
| `FloodsMeet` | extends `MCCommandNet` by the commands each node has taken |
| `CommandNet_proofs` | theorems about `CommandNet` |

### VMThreads and the code

A thread is its serial number of creation. `dj_vm_addThread` appends to `vm->threads` and
`dj_vm_checkFinishedThreads` only takes threads out, so the order of the linked list is the
order of the serial numbers, and the list is the set `live`. What Java calls the number of
a thread is the field `id`, which the code computes from the tail of the list.

| TLA+ | Code |
|---|---|
| `live`, `current`, `id`, `status`, `scheduleTime`, `priority`, `needResched`, `semId`, `monitorObject` | `vm->threads`, `vm->currentThread`, the fields of `dj_thread` |
| `started` | the thread has a frame stack (`dj_vm_activateThread` panics on one that has none) |
| `count`, `waiting`, `owner` | `dj_monitor`; an object without a monitor has count and waiting 0 |
| `now`, `nextTime`, `timer`, `poll` | `dj_timer_getTimeMillis`, `nextScheduleTime`, the etimer, a queued poll event |
| `receiver` | `receiver_thread_id`, `serial_receiver_thread_id` |
| `phase` | where `darjeeling_process` stands: top of the loop, interpreting, scheduling, arming the timer, yielded, panic |
| `depth`, `entering`, `forced`, `leaked` | where the Java programs stand: history of what they entered, not state of the machine |

One action is one bytecode, one native call, one call of the scheduler, one piece of the
process loop between two yields, or one callback: the firmware is single-threaded, Contiki
runs callbacks only while the process has yielded, and the interpreter switches threads only
between two bytecodes. `WakeThreads`, the removal of finished threads, selection, ageing
and activation are one action, `Schedule`, as they are one call. A native that blocks ends
the quantum (`BreakExecution`); one that does not, and `Task._stop` of the caller's own
task, leaves the quantum going.

Abstractions:

- programs are arbitrary sequences of the modelled instructions, except that they leave each
  monitor as often as they enter it, which is what compiled `synchronized` blocks do;
- a thread that has been removed and freed may still be a monitor's owner. The dangling
  pointer may equal the address of another thread, so `MonitorEnter` lets any thread choose
  between re-entering and blocking on it; the entries of the dead owner go to `leaked`;
- the status that `Thread.start` tests in Java, some bytecodes before the native that looks up
  the number, is tested in one step with it. `Infusion.unload` ends the caller's quantum when
  the caller is stopped, `Task.stop` does not; `StopTask`, for both, lets it go on;
- a MONITORENTER for which there is no room in the heap throws and changes nothing: it is a
  stuttering step. Exceptions are otherwise left out;
- `Semaphore._wakeupWaitingThread` without a waiter writes through a null pointer; the model
  has no such call. Packets and power locks are data nothing here reads;
- class-initialiser threads (number -1), deferred initialisers, loading and unloading, and
  the wrap of the 32-bit clock are left out. The moves of the collector change addresses,
  which the model does not have, apart from the comparison of owners above.

### MonitorTable and the code

`blocks` is the linked list `vm->monitors`, a sequence of blocks with their slots and
counter; `numMonitors` is the field of that name (a `uint16_t`, which the heap keeps far
from its end). `Finds` is the search of `dj_vm_getMonitor`, `Grown` and `Appended` the rest
of it, `Removed` is `dj_vm_removeMonitor`. `Enter`, `Exit` and `Grant` are MONITORENTER,
MONITOREXIT and the hand-over in `dj_vm_wakeThreads`, reduced to what they do to the table;
who the owner is decides nothing there, so an entry into a used monitor may count up or
wait. A slot that is given up keeps its content, as in memory. That MONITOREXIT and the
hand-over only meet monitors that exist is `CountIsNesting` and `NoForgottenHandover` of
`VMThreads`.

### Heap, Infusions and the code

`mem` maps the address of each chunk to its header and contents; `left` is `left_pointer`.
Addresses count units of the allocator, and chunks have the sizes `FrameSize`,
`InfusionSize` and `ObjectSize`. The threads, the VM struct and the monitor blocks, which
are never collected, are kept outside: `infusions` and `stack` are the lists that hang on
them.

| TLA+ | Code |
|---|---|
| `Ask`, `Granted`, `Refused` | `dj_mem_alloc` up to the collection, and its two ends |
| `Mark`, `MarkAgain` | one visit, and one round, of `dj_mem_mark` |
| `Shift`, `UpdateManaged`, `UpdateSystem`, `Move`, `EndMove` | the loops of `dj_mem_compact`; a turn of the last one is a step, as the moves overwrite each other's places |
| `refStack` | the compaction update stack; `dj_frame_create` keeps its infusion there |
| `GETFIELD_A` .. `ARETURN` | the instructions, one action each; `THROW` is any of them that finds null or an object of an unloaded class |
| `GotObject`, `GotFrame`, `GotInfusion`, `GotException` | what each caller of `dj_mem_alloc` does with the chunk; `OutOfMemory` and `Panic` what it does without |
| `CATCH`, `UNWIND` | the loop of `dj_exec_throw`; an exception nobody catches stops the machine |
| `LOAD`, `UNLOAD` | `dj_vm_loadInfusion`, `_unload` of `javax.darjeeling.vm.Infusion` with `dj_vm_unloadInfusion` |
| `SCHEDULE` | `dj_vm_checkFinishedThreads` and the choice of a thread, which is left open |

`pending` and `phase` are the program counter of the C code. `halted` says why the machine
stopped. `label`, `name`, `class` and `kind` of a chunk are history, for the properties.

Abstractions: a Java object has one reference and an array one element; integers, and the
objects that hold nothing else, are left out, and so is the argument list of a call (the
callee gets what the instructions give it). A program is any sequence of the instructions
that does not pop an empty stack. An infusion is loaded once at a time. No exception object
is set aside (`dj_mem_setPanicExceptionObject` has no caller on this platform). The id of a
chunk, a byte in the code, does not wrap. What the machine does after it read a stale
pointer is not followed: `halted` becomes "stale". An unload that is refused throws, which is
left out: `THROW` is the step for exceptions.

### CommandNet and the code

Every node runs `Dispatcher.run`, a thread whose place is `dispatcher[n]`: before and in
`_waitForMessage`, before `_readBytes`, before `getSenderId`, in the sleep of
`CommandProtocol.packetHandler`, and before the broadcast that follows. `Deliver` is the
callback `broadcast_recv`: it fills the packet buffer and sets the dispatcher thread
running, also out of the sleep. `air` is the set of packets on their way, each of which
`Deliver` or `Lose` takes, in any order. `Command` is `SerialReceiver.run`, which sends
whenever a line comes in and waits for nothing: copies of several commands may be on their way
at once, and a node, which keeps only the last number, may then take the older one again.

Two variables are history. `alone` says that no flood was under way when the sink sent its last
command (`Quiet`); what the properties promise they promise of such a flood, whatever floods
that met have left behind. `missed` has the senders whose copy of the current command did
not get to a node that needed it, because it was lost or because nobody was waiting; it is
kept while the flood is alone.

Abstractions: a command is its id. A broadcast is one packet to each node in reach, sent once,
as the MAC layer does without an acknowledgement; of equal packets on their way to one node all
but one are lost. A packet is kept in the buffer only when the dispatcher is to read it, and
the handler empties the buffer, which nobody reads again before the next packet: the code does
not clear it there. The sink sends through its own buffer, whose content its dispatcher reads
and ignores. Applications send nothing: their packets share the packet buffer, and a sender
read after one of them would be the wrong path. InfoMsg packets, unicast, the main thread that
`notifyReceiver` wakes, and restarts of nodes are left out.

## Runs

| Run | Question | States |
|---|---|---|
| `VMMonitors` | monitors of 3 threads, 2 objects, with stops and semaphores | 1.6 million |
| `VMTimeIO` | time, timer, poll and callbacks of 2 threads; does every runnable thread run, every sleep end | 426 000 |
| `VMReentry`, `VMStop`, `VMTrespass`, `VMTimedWait` | counterexamples, see Findings | |
| `MonTable` | the table as a map, 6 objects, blocks of 2 | 5 300 |
| `VMHeap` | the collector and its end under all instructions, 2 threads, 3 infusions in a chain | 650 000 |
| `VMUnload` | loading and unloading, 2 threads, 2 infusions besides the system one | 1.5 million |
| `VMShiftIds` | counterexample, see Findings | |
| `Flood` | two commands, at any time, in a network of 4 nodes | 525 000 |
| `FloodsMeet` | counterexample, see Findings | |

*VMMonitors.* `MutualExclusion` and `CountIsNesting` relate the programs to the bytes in the
monitor, through nested exits that clear the owner, threads stopped inside, dangling owners
and grants. They are about objects whose monitor no thread was thrown into by a wake-up
(`Unforced`); that this can happen is a finding. `BlockedAreCounted` keeps MONITOREXIT
from removing a monitor the scheduler will look up. `NoForgottenHandover`: the VM never
sleeps with a thread blocked on a free monitor. `IdsFollowList`: numbers identify threads
although tail numbers are reused. Three threads are an owner and two that compete, two
objects make nesting cross; `MaxNest` 2 is the first depth at which an inner exit clears the
owner. More threads only lengthen the lists; the theorems cover them.

*VMTimeIO.* A sleep of 5 ms is no whole number of ticks, a timed wait of 10 ms is one; a port
and the radio call back; the second thread may be removed while it is registered as the
receiver. `NoLostWakeup`, `TimerCoversSleepers` (a sleeper is at most a tick late),
`UrgencyIsFresh` (the mark that lets a thread overtake is used up) and `SleepEndsInTime` are the
safety properties, the last one except for callbacks, which end sleeps early. `TypeOK` is
the type invariant; that bytes do not wrap at 256 is no result of the runs, which do not get
there. No thread passes its monitor without a grant here (`MaxForced` 0), so that time and
callbacks can be followed to the end; `VMTrespass` has those passes.

`EveryRunnableRuns` and `EverySleepEnds` hold under `FairSpec`, and `TurnComesNearer` is the
reason for the first: a schedule that passes a runnable thread over uses up a mark, or else the
threads that go before that one, by age and then by the order of the list, become fewer. Two
threads are the least that can overtake each other; the theorem is about any number. It
says nothing of steps that set a new mark. Callbacks do so only while the VM is idle, but
`Task._start` can do it in any quantum: tasks started without end keep the others waiting, which
the bound on the threads ever created hides from `EveryRunnableRuns`.

*MonTable.* Six objects over blocks of two: up to three blocks, holes in each, blocks given
up and taken again. `TableIsMap` is the refinement of `MonitorMap`: each step of the table
changes the entry of one object and no other. `BlocksAreFull` is what the search and the
collector rely on, `OneMonitorEach` what makes a monitor a lock. A count of 2 does not occur
with `MaxUse` 1; the proof covers it.

*VMHeap.* `ViewKept` is the promise of the collector: between the start of a collection and
its end, the frames, statics and reachable objects, read with old addresses or new ones as
each pass has left them, are the same for the program. `TriColor` and `GarbageFreed` are
the two halves of marking, `HeapTiled` what every loop over the heap relies on, `RefsLive`
what the instructions rely on, `CodeLoaded` what frames and imports rely on. The heap is
seven units: the system infusion and its frame leave four, so two objects, or a frame and
an object, or two infusions and an object fill it, and nearly every allocation collects.
Two objects are enough for a cycle, a chain and a garbage object below a live one; the
depth of two frames and the stack of two operands are the least at which PUTFIELD, ARETURN
and an exception that unwinds occur. `CollectionAdvances` says of each step of a collection
that less is left to do after it: the loop of `dj_mem_mark` goes round until it finds nothing
gray, which ends only because no chunk loses its black.

*VMUnload.* With objects of size one, an object can outlive its infusion: `ClassKept` says
that it is invalid then and that every other object keeps its class, `RangesTile` that the
ranges of ids stay adjacent, whichever infusion goes first. `CollectorGoesOn` says which
stale reads occur: those for frames of threads that unloading ended. In both runs the first
class of each infusion has no objects (`FirstClass` 1), because of the finding *VMShiftIds*,
whose run has them.

*Flood.* The sink n1 reaches n2 and n3, n3 reaches n2, and n2 and n4
reach each other: copies meet, come back and overtake. The second command is sent at any time.
When it comes after the first flood it meets numbers and paths of that one; when it comes into
the first flood nothing is claimed until the sink sends a third, which the theorems cover.
`AcceptedOnce` and `FloodEnds` are about duplicates, `PathsLeadToSink` about the sender that is
read late, `FloodCovers` about packets lost to a busy node. `FloodAdvances` is the reason for
`FloodEnds`: every step that is not a new command leaves fewer nodes without the command, or else
fewer that are still to send it, or else fewer packets in the air, or else a dispatcher nearer
to its wait. No node reaches the sink here, whose dispatcher would only multiply the states:
it reads each packet and ignores it. It is reached in *FloodsMeet*, a line of three nodes.

Deadlock is not checked in the runs of `Infusions`, where the machine may stop by a panic or
by running out of threads, nor in `Flood` and `FloodsMeet`, where the sink may have sent all its commands. It
is not checked in the runs of `VMThreads`: when all threads have ended, or all
wait for each other with no clock in the run, the machine stops by rights. It is checked in
`MonTable`.

### Bounds

`MaxThreads` (threads ever created), `MaxNest` (entries on one object, also of `depth` and
`leaked` together, so that the byte does not wrap), `MaxForced` (threads thrown into one
monitor), `Horizon` (the clock, and every time asked for), `MaxBlocks` and `MaxUse`. The
clock may pass the horizon by two ticks while the VM idles, so that the last timers
expire. In `Infusions`: `HeapSize` and the sizes, `MaxStack`, `MaxDepth`, `FirstClass`, and
the number of labels, which bounds the objects that exist at once; in `CommandNet`:
`MaxCommand`. The proofs hold for every value of them allowed by the assumptions.

### Fairness

`FairSpec` assumes weak fairness of `Tick` (the clock runs), of ending the quantum
(`RUNSIZE` bytecodes, `dj_exec_run` counts them down), and of `Schedule`, `NothingLive`,
`Arm` and `Resume`: the process runs on until it yields, and Contiki runs a process that has
an event. Nothing is assumed of programs or callbacks: a thread may hold a monitor, or
compute, for ever.

`FairSpec` of `CommandNet` assumes weak fairness of all steps together other than new commands:
as long as a packet is in the air or a dispatcher can go on, something of that happens. The
scheduler runs a runnable thread and ends a sleep, which `VMTimeIO` shows, and packets do not
stay in the air; that each of them takes its turn is not even needed. The sink need not send. `Infusions` has no liveness property, hence no
fairness: a collection runs within one call, and that it ends follows from
`CollectionAdvances`, as a heap has finitely many chunks.

## Findings

- *VMReentry*: MONITOREXIT clears the owner at every exit, also a nested one. A thread that
  enters an object twice, leaves once and enters again blocks on the monitor it holds.
- *VMStop*: a task that stops itself can leave `THREADSTATUS_FINISHED` again by a blocking
  instruction in the same quantum.
- *VMTrespass*: a message sets its receiver running even out of a MONITORENTER, and it
  goes on inside the monitor of another thread.
- *VMTimedWait*: the time of a timed `Object.wait` is not in the next schedule time, so the
  VM sleeps past it.
- *FloodsMeet*: a node takes a command that it has taken before, when it has taken another in
  between: it keeps the last number only, and the sink does not wait for one flood to end
  before it starts the next. The node obeys and forwards the command again, goes on with the
  older number, and its best path becomes the node it had sent the command to. Two commands may
  chase each other in this way for as long as copies of both are sent on.
- *VMShiftIds*: unloading an infusion does not invalidate the objects of its first class, and
  does not shift those of the first class of the next infusion.

The quotes and lines are in `PROJECT.json`.

## Proofs

All theorems hold for every value of the constants that the assumptions allow
(`ConstantsAssumption`, `TableAssumption`, `CommandNetAssumption`, `HeapAssumption`,
`InfusionsAssumption`); TLC evaluates them in every run. For threads and monitors they say
that the null reference is not an object, that the bounds are numbers, that at most 255
entries are made, that semaphore and port ids differ, and that the horizon lies before
`MAX_SCHEDULE_TIME`.

`VMThreads_proofs`, each theorem by its own inductive invariant on top of `TypeOK`:

| Theorem | Property | Inductive invariant, and why the property alone is not enough |
|---|---|---|
| `TypeCorrect` | `TypeOK` | itself |
| `NumbersIdentify` | `IdsFollowList` | `ListInv`: also that no listed thread is newer than `created`, so that a new one is the tail |
| `MonitorsExclude` | `MutualExclusion`, `CountIsNesting` | `MonitorInv`: one needs the other, since the count opens the monitor and the nesting says what the count must be |
| `SleepsWithCause` | `NoLostWakeup`, `NoForgottenHandover` | `IdleInv`: also that nothing is runnable when the scheduler has found nothing to run |
| `SleepersAreCovered` | `TimerCoversSleepers` | `TimerInv`: also that the time the scheduler leaves covers the sleepers, before the timer is set |
| `BlockedAreRemembered` | `BlockedAreCounted` | `WaitingInv`: `waiting_threads` is exactly the number of threads that stand in the MONITORENTER, stopped ones included, plus those that passed it without a grant, whom nobody takes off. From `WaitingFits`: threads and such passes are 255 together at most, else the byte of the code does wrap |
| `MarksAreFresh` | `UrgencyIsFresh` | `UrgencyInv`: also that the thread that runs has lost its mark, so its blocking leaves none |
| `TurnsComeNearer` | `TurnComesNearer` | `YoungInv`: a new thread has age 0 and is the last of the list, so it goes before nobody |
| `SleepsAreKept` | `SleepEndsInTime` | `TypeOK`; one case per action |

`TurnComesNearer` is about ages that fit in their byte (`AgesFit`). `AgesNeverWrap` shows that they
do when at most 15 threads are ever created. Its invariant `AgeInv` bounds a sum that no schedule
makes grow: the age of a thread, the number of threads that go before it, and `MaxThreads` for
each mark there is or a task start may still set, since a thread that jumps the queue makes up
to that many others older. The sum starts anew for a thread that has just run or cannot run,
whose age is 0, and callbacks set marks only when all ages are 0.

`CountsAreNesting` and `HandoversHappen` are the second halves of `MonitorsExclude` and
`SleepsWithCause`, each with its own name, as `TableTyped` and `BlocksFilled` are of
`TableCorrect` below.

Each has a lemma for the initial states, one for the steps with a case per action, and one
for what the scheduler does; the hard one is `MonitorsExclude`, whose lemmas follow a
monitor through an entry, an exit and a grant for one object at a time
(`ConsistentEnter`, `ConsistentExit`, `ConsistentSchedule`).

`MonitorTable_proofs` goes through arrays. Quotient and remainder name a slot
(`PositionIs`, `PositionExists`); writing a monitor, appending one and removing one are
shown to be the array operations they stand for (`PutWrites`, `AppendedIs`, `RemovedIs`);
array operations are shown to keep objects unique and to change the map at one object
(`ChangedSays`, `AppendedSays`, `RemovedSays`); `EnterStep`, `ExitStep` and `GrantStep` put
the two together. The inductive invariant is `Good`: `TypeOK`, `BlocksAreFull` and
`OneMonitorEach` at once, as the position of the last monitor depends on the counters and
the search on the uniqueness. `TableCorrect` states it, `TableImplementsMap` that every step
maps to a step of `MonitorMap` or a stutter.

`CommandNet_proofs` holds for every set of nodes, every symmetric or asymmetric reach and any
number of commands, sent at any time. All but the first theorem are about a flood that is alone,
as their properties say; floods that met before it are covered.

| Theorem | Property | Inductive invariant, and why the property alone is not enough |
|---|---|---|
| `TypeCorrect` | `TypeOK` | itself |
| `CommandsOnce` | `AcceptedOnce` | `NetInv`: at all times no number, in the air, in a buffer or kept by a node, is above that of the last command (`BehindSink`), so a command sent into a quiet network is new to every node; and `FloodInv` from then on: every copy, in the air, in a buffer or in the dispatcher, is of this command, so an id that differs from the last is newer |
| `PathsAreRight` | `PathsLeadToSink` | `FloodInv`: also that whoever sent a copy has the command; a set of nodes closed under best paths, with a node that has the command in it, stays one that reaches the sink when a node sets its path to one that has the command before it does. Paths of nodes without the command, which may form circles, are never followed |
| `FloodComesToEnd` | `FloodAdvances` | `FloodInv`: a node that takes a command had not got it, so it leaves those that lack it; otherwise a copy is dropped. With finitely many nodes, the order of the four measures is well-founded, so no flood that is alone goes on for ever |
| `FloodReaches` | `FloodCovers` | `CoverInv`: a node without the command, in reach of one that has it, has missed its copy, or the copy is still to come: in the air, in the buffer, or behind the sleep of the sender |

`Heap_proofs`, `Infusions_proofs` and `Classes_proofs` hold for every set of threads, of
infusions with any imports and any number of classes, every size of object, frame and infusion, and every size
of the heap, from `HeapAssumption` and `InfusionsAssumption`: `NoRef` is no address, sizes are
positive, and the base infusion and the first frame fit in the heap. Bounds of the runs
(`MaxStack`, `MaxDepth`) are any numbers.

| Theorem | States | What it needs |
|---|---|---|
| `CompactionFits` | the shifts that compaction computes take the chunks in use not below `heap_base`, not up, not over another one | a shift is the number of free units below a chunk (`Below`), so shifts do not decrease and targets do not meet |
| `CollectorKeepsHeap` | each step of a collection keeps `HeapInv` | `Shaped` and `Tiled`; between the passes that all shifts are set; during the moves `Sliding`: what has moved and what has not do not overlap, and the next chunk has room. At the end the chunks in use fill the space they are moved to (`CompactionFills`, by counting the addresses) |
| `HeapStaysTiled` | `Spec => []HeapTiled` | `IInv` |
| `RangesStayTiled` | `Spec => []RangesTile` | `IInv` |
| `CodeStaysLoaded` | `Spec => []CodeLoaded` | `IInv` |
| `ClassesStayKept` | `Spec => []ClassKept`, from `NotFirst` | `IInv` and `ClassInv`: the same of objects that are about to be freed or moved, and of the one an operation still waits for, said of positions in the list of infusions, which the moves do not change |

`IInv` is `HeapInv` with what the pointers outside the heap point to: `FramesInv` (each thread
has its frames to itself and, unless it is finished, runs code of loaded infusions),
`InfusionsInv` (the list starts with the base infusion at the first Java id, each range
starts where the one before ends, imports are loaded), `PendingInv` (what the operation that
waits for memory asked for; the infusion saved on the update stack for a frame request is
loaded). None of the properties is inductive alone: all are about chunks named by their
address, and a collection changes the addresses. `Spot` and `ChunkOf` name a chunk by where
it will be, so that the parts of `IInv` read the same before, during and after the moves;
`UpdateFollows` and `CollectFollows` show that every pass takes pointers and chunks there
together. `IInv` was also checked with
TLC, as an invariant of the instances of `VMHeap` and `VMUnload` without symmetry (2.3 and 6.1
million states); the theorems replace that run, so there is no configuration for it.

`NotFirst` says that objects are of the second class of their infusion or a later one, and
that the base infusion has that class, for the exceptions. It is not there to ease the proof:
unloading does not renumber objects of a first class as it should (*VMShiftIds*), and they
then have the id of another class. The hard case is unloading (`UnloadedLists`): an object
that goes on gets the id that its infusion's new range gives to its class, since its id lies
above both bounds at which the comparison of the code is off by one.

`References_proofs` and `Collector_proofs` add every reference there is, from the same
assumptions:

| Theorem | States | What it needs |
|---|---|---|
| `TypesHold` | `Spec => []TypeOK` | `RInv` |
| `ReferencesLive` | `Spec => []RefsLive` | `RInv` |
| `ColorsHold` | `Spec => []TriColor` | `RInv` and `MarkInv` |
| `CollectorNeverStops` | `Spec => []CollectorGoesOn`, from `NotFirst` | `NamesInv`: the infusion that a frame of a thread that goes on points to is the one its method came from, and so never a chunk that has since taken that place; and `ClassInv` for the classes of objects |
| `GarbageIsFreed` | `Spec => []GarbageFreed` | `MarkedInv` |
| `CollectionUnseen` | `Spec => ViewKept` | `MarkedInv` before and after the step |
| `CollectionComesToEnd` | `Spec => CollectionAdvances` | `IInv` |

`RInv` says where every reference leads. While the program runs, an operand, a static, a field
or a saved C pointer is null or the address of an object in use (`Live`); while marking, the
same. Once shifts are set, it is the old address of a chunk or the new one, depending on the
phase and on whether its holder has been updated (`Leads`): objects after `UpdateManaged`, all
after `UpdateSystem`; during the moves the new address names a chunk that has moved or has not
yet. `RefsLive` alone is about the moments between collections and says nothing of any of
this. `MarkInv` is `TriColor` for the visits already made, with the chunk that the loop is at.

`GarbageFreed` needs both halves of marking: what is reachable is kept, and what is kept is
reachable. Reachability is a closure, so it is
used through the sets that bound it from above (`Bounding`: a set of labels with the roots in
it and closed under references), as `Reached` is the intersection of these. `TraceInv` is: every such set
contains each chunk that is gray or black. It holds at the start of a collection, since only
roots are gray, and each visit follows one reference. `LabelsInv` says that labels are unique,
so that a set of labels is a set of objects. `MarkedInv` is all of these together.

`ViewKept` is proved for each loop of the collector by one argument (`ViewCarried`): the step
takes each chunk at `d` to one at `b[d]`, with the same contents and with references that mean
the same after as before. For the visits `b` changes nothing; for the sweep it drops what is in
no `Bounding` set; for the updates the references change and the chunks stay; for a move one
chunk changes its place, and no two chunks have one target (`TargetsApart`, from
`CompactionFits`).

`RInv`, `MarkInv`, `NamesInv`, `LabelsInv` and `TraceInv` were checked with TLC on the instance
of `VMHeap` before they were proved, and `AgeInv` on those of `VMTimeIO` and
`VMMonitors`.

Only model-checked are `EveryRunnableRuns`, `EverySleepEnds` and `FloodEnds`, which say that
something happens under fairness and are out of the prover's reach; `FloodAdvances` is the part
of `FloodEnds` that can be proved, `TurnComesNearer` that of `EveryRunnableRuns`. That a decreasing measure must stop is an induction, which is
left to the reader.

## Not modelled

The components and reasons are listed in `PROJECT.json`. In short:

- the semaphore class: its constructor ignores the number of permits, and a release without a
  waiter writes through a null pointer, after which nothing is defined;
- the task manager: sequential Java over a table; its effects on threads and infusions are in
  `VMThreads` and `Infusions`;
- class initialisers: they run in an interpreter loop nested in the loader;
- hibernation: it needs the write order of the file system and the C statics it forgets;
- the power locks: counters of which nothing in the code says what they promise;
- drivers, storage, flash tables and the off-line infuser have no shared state that order or
  timing could break; Contiki is third-party code of which the models use the promises named
  under Fairness.
