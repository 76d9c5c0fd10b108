-------------------------- MODULE VMThreads_proofs --------------------------
(***************************************************************************)
(* Proofs about VMThreads, for any number of threads, objects, ports and    *)
(* channels and any bounds.                                                 *)
(***************************************************************************)
EXTENDS VMThreads, FiniteSetTheorems, WellFoundedInduction, TLAPS

-----------------------------------------------------------------------------
\* Type correctness.

\* A byte stays a byte whatever is added to it.
LEMMA U8Type == ASSUME NEW n \in Int PROVE U8(n) \in 0 .. 255
BY DEF U8

\* A number that fits in a byte is kept.
LEMMA U8Fits == ASSUME NEW n \in 0 .. 255 PROVE U8(n) = n
BY DEF U8

\* The threads of any description are finitely many.
LEMMA ThreadsAreCounted ==
  ASSUME NEW S, S \subseteq Threads PROVE IsFiniteSet(S) /\ Cardinality(S) \in Nat
<1>1. IsFiniteSet(Threads)
  BY ConstantsAssumption, FS_Interval DEF Threads
<1>. QED
  BY <1>1, FS_Subset, FS_CardinalityType

LEMMA TypeInit == Init => TypeOK
<1>. SUFFICES ASSUME Init PROVE TypeOK
  OBVIOUS
<1>1. 1 \in Threads /\ NoThread \in Threads \cup {NoThread}
  BY ConstantsAssumption DEF Threads
<1>2. /\ live \subseteq Threads /\ created \in Threads /\ started \subseteq Threads
      /\ current \in Threads \cup {NoThread} /\ phase \in Phases
  BY <1>1 DEF Init, Phases
<1>3. /\ id \in [Threads -> Nat] /\ scheduleTime \in [Threads -> Nat]
      /\ priority \in [Threads -> 0 .. 255] /\ needResched \in [Threads -> BOOLEAN]
      /\ semId \in [Threads -> Nat]
  BY DEF Init
<1>4. /\ status \in [Threads -> Statuses]
      /\ monitorObject \in [Threads -> Objects \cup {NoObject}]
      /\ entering \in [Threads -> Objects \cup {NoObject}]
  BY DEF Init, Statuses
<1>5. /\ count \in [Objects -> 0 .. 255] /\ waiting \in [Objects -> 0 .. 255]
      /\ owner \in [Objects -> Threads \cup {NoThread}]
      /\ forced \in [Objects -> Nat] /\ leaked \in [Objects -> Nat]
      /\ depth \in [Threads -> [Objects -> Nat]]
  BY DEF Init
<1>6. /\ now \in Nat /\ nextTime \in Nat /\ timer \in Nat
      /\ receiver \in [Channels -> Nat]
  BY DEF Init, NoId
<1>7. poll \in BOOLEAN
  BY DEF Init
<1>. QED
  BY <1>2, <1>3, <1>4, <1>5, <1>6, <1>7 DEF TypeOK

\* Passing monitors ungranted keeps the types of what it counts.
LEMMA PassMonitorsType ==
  ASSUME TypeOK, NEW S \in SUBSET Threads, PassMonitors(S)
  PROVE  /\ depth' \in [Threads -> [Objects -> Nat]]
         /\ entering' \in [Threads -> Objects \cup {NoObject}]
         /\ forced' \in [Objects -> Nat]
<1>1. ASSUME NEW t \in Threads, NEW o \in Objects
      PROVE  depth[t][o] \in Nat /\ depth[t][o] + 1 \in Nat
  BY DEF TypeOK
<1>2. depth' \in [Threads -> [Objects -> Nat]]
  BY <1>1 DEF PassMonitors
<1>3. entering' \in [Threads -> Objects \cup {NoObject}]
  BY DEF TypeOK, PassMonitors
<1>4. ASSUME NEW o \in Objects
      PROVE  forced[o] + Cardinality({t \in S : entering[t] = o}) \in Nat
  <2>1. {t \in S : entering[t] = o} \subseteq Threads
    OBVIOUS
  <2>2. Cardinality({t \in S : entering[t] = o}) \in Nat
    BY <2>1, ThreadsAreCounted
  <2>. QED
    BY <2>2 DEF TypeOK
<1>. QED
  BY <1>2, <1>3, <1>4 DEF PassMonitors

\* A new thread keeps the types of what the thread list is made of.
LEMMA AddThreadType ==
  ASSUME TypeOK, NEW u, AddThread(u)
  PROVE  live' \subseteq Threads /\ created' \in Threads /\ id' \in [Threads -> Nat]
<1>1. u \in Threads
  BY DEF AddThread, TypeOK, Threads
<1>2. id' \in [Threads -> Nat]
  BY <1>1 DEF AddThread, NumberAfterTail, LastOf, TypeOK
<1>. QED
  BY <1>1, <1>2 DEF AddThread, TypeOK

LEMMA TypeInstruction ==
  ASSUME TypeOK, NEW t \in Threads, Instruction(t)
  PROVE  TypeOK'
<1>. USE DEF Executes, BreakExecution, machineVars, timeVars,
         monitorVars, loopVars, programVars
<1>1. ASSUME NEW o \in Objects, MonitorEnter(t, o) PROVE TypeOK'
  <2>1. /\ count[o] \in 0 .. 255 /\ waiting[o] \in 0 .. 255 /\ depth[t][o] \in Nat
        /\ "BLOCKED_FOR_MONITOR" \in Statuses /\ "schedule" \in Phases
    BY DEF TypeOK, Statuses, Phases
  <2>2. Reentered(count[o]) \in 0 .. 255 /\ U8(waiting[o] + 1) \in 0 .. 255
    BY <2>1 DEF Reentered, U8
  <2>3. [depth EXCEPT ![t][o] = @ + 1] \in [Threads -> [Objects -> Nat]]
    BY <2>1 DEF TypeOK
  <2>4. /\ count \in [Objects -> 0 .. 255] /\ waiting \in [Objects -> 0 .. 255]
         /\ owner \in [Objects -> Threads \cup {NoThread}]
         /\ status \in [Threads -> Statuses] /\ phase \in Phases
         /\ monitorObject \in [Threads -> Objects \cup {NoObject}]
         /\ entering \in [Threads -> Objects \cup {NoObject}]
    BY DEF TypeOK
  <2>5. /\ count' \in [Objects -> 0 .. 255] /\ waiting' \in [Objects -> 0 .. 255]
        /\ owner' \in [Objects -> Threads \cup {NoThread}]
    BY <1>1, <2>2, <2>4 DEF MonitorEnter
  <2>6. /\ status' \in [Threads -> Statuses] /\ phase' \in Phases
        /\ monitorObject' \in [Threads -> Objects \cup {NoObject}]
        /\ entering' \in [Threads -> Objects \cup {NoObject}]
    BY <1>1, <2>1, <2>4 DEF MonitorEnter
  <2>7. [depth EXCEPT ![t][o] = @ + 1, ![owner[o]][o] = 0]
            \in [Threads -> [Objects -> Nat]]
    BY <2>3
  <2>8. depth' \in [Threads -> [Objects -> Nat]]
    BY <1>1, <2>3, <2>7 DEF MonitorEnter, TypeOK
  <2>9. leaked' \in [Objects -> Nat]
    <3>1. leaked \in [Objects -> Nat] /\ depth \in [Threads -> [Objects -> Nat]]
      BY DEF TypeOK
    <3>2. owner[o] \in Threads \/ owner[o] = NoThread
      BY <2>4
    <3>3. CASE Dangling(o)
      <4>1. depth[owner[o]][o] \in Nat
        BY <3>1, <3>2, <3>3 DEF Dangling
      <4>. QED
        BY <1>1, <3>1, <4>1 DEF MonitorEnter
    <3>4. CASE ~ Dangling(o)
      BY <1>1, <3>1, <3>4 DEF MonitorEnter
    <3>. QED
      BY <3>3, <3>4
  <2>. QED
    BY <1>1, <2>5, <2>6, <2>8, <2>9 DEF MonitorEnter, TypeOK
<1>2. ASSUME NEW o \in Objects, MonitorExit(t, o) PROVE TypeOK'
  <2>1. count[o] \in 0 .. 255 /\ depth[t][o] \in Nat
    BY DEF TypeOK
  <2>2. Left(count[o]) \in 0 .. 255 /\ depth[t][o] - 1 \in Nat
    BY <1>2, <2>1 DEF Left, MonitorExit, U8
  <2>3. /\ count' \in [Objects -> 0 .. 255] /\ depth' \in [Threads -> [Objects -> Nat]]
        /\ owner' \in [Objects -> Threads \cup {NoThread}]
    BY <1>2, <2>2 DEF MonitorExit, TypeOK
  <2>. QED
    BY <1>2, <2>3 DEF MonitorExit, TypeOK
<1>3. ASSUME NEW o \in Objects, NEW d \in Timeouts, Wait(t, o, d) PROVE TypeOK'
  BY <1>3, ConstantsAssumption DEF Wait, TypeOK, Statuses, Phases
<1>4. ASSUME NEW o \in Objects, Notify(t, o) PROVE TypeOK'
  <2>0. status \in [Threads -> Statuses] /\ "RUNNING" \in Statuses
        /\ monitorObject \in [Threads -> Objects \cup {NoObject}]
    BY DEF TypeOK, Statuses
  <2>1. /\ status' \in [Threads -> Statuses]
        /\ monitorObject' \in [Threads -> Objects \cup {NoObject}]
    BY <1>4, <2>0 DEF Notify
  <2>. QED
    BY <1>4, <2>1 DEF Notify, TypeOK
<1>5. ASSUME NEW d \in Delays, Sleep(t, d) PROVE TypeOK'
  BY <1>5, ConstantsAssumption DEF Sleep, TypeOK, Statuses, Phases
<1>6. CASE EndQuantum(t)
  BY <1>6 DEF EndQuantum, TypeOK, Phases
<1>7. CASE CreateThread(t)
  BY <1>7, AddThreadType DEF CreateThread, TypeOK
<1>8. ASSUME NEW u \in live, StartThread(t, u) PROVE TypeOK'
  BY <1>8 DEF StartThread, TypeOK, Statuses
<1>9. CASE StartTask(t)
  <2>1. /\ live' \subseteq Threads /\ created' \in Threads /\ id' \in [Threads -> Nat]
        /\ created + 1 \in Threads
    BY <1>9, AddThreadType DEF StartTask, AddThread, TypeOK, Threads
  <2>2. /\ status' \in [Threads -> Statuses] /\ needResched' \in [Threads -> BOOLEAN]
        /\ started' \subseteq Threads
    BY <1>9, <2>1 DEF StartTask, TypeOK, Statuses
  <2>. QED
    BY <1>9, <2>1, <2>2 DEF StartTask, TypeOK
<1>10. ASSUME NEW S \in SUBSET TaskThreads, StopTask(t, S) PROVE TypeOK'
  BY <1>10, ConstantsAssumption DEF StopTask, TypeOK, Statuses
<1>11. CASE Finish(t)
  BY <1>11 DEF Finish, TypeOK, Statuses, Phases
<1>12. ASSUME NEW s \in Semaphores, WaitForSemaphore(t, s) PROVE TypeOK'
  BY <1>12, ConstantsAssumption DEF WaitForSemaphore, TypeOK, Statuses, Phases
<1>13. ASSUME NEW s \in Semaphores, WakeupWaitingThread(t, s) PROVE TypeOK'
  <2>1. PICK u \in BySem(s) : /\ status' = [status EXCEPT ![u] = "RUNNING"]
                              /\ semId' = [semId EXCEPT ![u] = 0]
                              /\ PassMonitors({u})
    BY <1>13 DEF WakeupWaitingThread
  <2>2. {u} \in SUBSET Threads
    BY DEF BySem, TypeOK
  <2>. QED
    BY <1>13, <2>1, <2>2, PassMonitorsType DEF WakeupWaitingThread, TypeOK, Statuses
<1>14. ASSUME NEW p \in Ports, WaitForInterrupt(t, p) PROVE TypeOK'
  BY <1>14, ConstantsAssumption DEF WaitForInterrupt, TypeOK, Statuses, Phases
<1>15. CASE WaitForMessage(t)
  BY <1>15 DEF WaitForMessage, TypeOK, Statuses, Phases
<1>16. ASSUME NEW c \in Channels, OpenChannel(t, c) PROVE TypeOK'
  BY <1>16 DEF OpenChannel, TypeOK
<1>. QED
  BY <1>1, <1>2, <1>3, <1>4, <1>5, <1>6, <1>7, <1>8, <1>9, <1>10, <1>11, <1>12,
     <1>13, <1>14, <1>15, <1>16 DEF Instruction

LEMMA KeptThreads == TypeOK => Kept \subseteq live /\ Kept \subseteq Threads
BY DEF Kept, TypeOK

LEMMA WakeThreadsType ==
  ASSUME TypeOK, WakeThreads
  PROVE  /\ status' \in [Threads -> Statuses]
         /\ monitorObject' \in [Threads -> Objects \cup {NoObject}]
         /\ count' \in [Objects -> 0 .. 255]
         /\ waiting' \in [Objects -> 0 .. 255]
         /\ owner' \in [Objects -> Threads \cup {NoThread}]
         /\ depth' \in [Threads -> [Objects -> Nat]]
         /\ entering' \in [Threads -> Objects \cup {NoObject}]
<1>1. status' \in [Threads -> Statuses]
  BY DEF WakeThreads, TypeOK, Statuses
<1>2. monitorObject' \in [Threads -> Objects \cup {NoObject}]
  BY DEF WakeThreads, TypeOK
<1>3. count' \in [Objects -> 0 .. 255]
  BY DEF WakeThreads, TypeOK
<1>4. waiting' \in [Objects -> 0 .. 255]
  <2>1. ASSUME NEW o \in Objects
        PROVE  waiting[o] \in 0 .. 255 /\ WaitingLess(waiting[o]) \in 0 .. 255
    <3>1. waiting[o] \in 0 .. 255
      BY DEF TypeOK
    <3>. QED
      BY <3>1 DEF WaitingLess, U8
  <2>. QED
    BY <2>1 DEF WakeThreads
<1>5. owner' \in [Objects -> Threads \cup {NoThread}]
  <2>1. ASSUME NEW o \in Objects, Grantees(o) # {}
        PROVE  (CHOOSE t \in Grantees(o) : TRUE) \in Threads
    BY <2>1, KeptThreads DEF Grantees
  <2>2. owner \in [Objects -> Threads \cup {NoThread}]
    BY DEF TypeOK
  <2>. QED
    BY <2>1, <2>2 DEF WakeThreads
<1>6. depth' \in [Threads -> [Objects -> Nat]]
  <2>1. ASSUME NEW t \in Threads, NEW o \in Objects
        PROVE  depth[t][o] \in Nat /\ depth[t][o] + 1 \in Nat
    BY DEF TypeOK
  <2>. QED
    BY <2>1 DEF WakeThreads
<1>7. entering' \in [Threads -> Objects \cup {NoObject}]
  BY DEF WakeThreads, TypeOK
<1>. QED
  BY <1>1, <1>2, <1>3, <1>4, <1>5, <1>6, <1>7

LEMMA TypeSchedule == ASSUME TypeOK, Schedule PROVE TypeOK'
<1>1. PICK t \in Threads \cup {NoThread} :
        /\ current' = t
        /\ priority' = [u \in Threads |-> IF u = t THEN 0 ELSE Ageing(u)]
        /\ needResched' = [u \in Threads |-> StillUrgent(u, t)]
        /\ phase' = IF t = NoThread THEN "arm" ELSE IF t \in started THEN "run" ELSE "panic"
  BY DEF Schedule
<1>2. live' \subseteq Threads
  BY KeptThreads DEF Schedule
<1>3. nextTime' \in Nat
  BY KeptThreads, ConstantsAssumption
     DEF Schedule, NextScheduleTime, Earliest, TimesOfSleeps, TypeOK
<1>4. priority' \in [Threads -> 0 .. 255]
  <2>1. ASSUME NEW u \in Threads PROVE Ageing(u) \in 0 .. 255
    <3>1. priority[u] \in 0 .. 255
      BY DEF TypeOK
    <3>. QED
      BY <3>1 DEF Ageing, Aged, U8
  <2>. QED
    BY <1>1, <2>1
<1>5. needResched' \in [Threads -> BOOLEAN]
  BY <1>1 DEF StillUrgent
<1>6. phase' \in Phases
  BY <1>1 DEF Phases
<1>7. /\ id' \in [Threads -> Nat] /\ scheduleTime' \in [Threads -> Nat]
      /\ semId' \in [Threads -> Nat] /\ created' \in Threads /\ started' \subseteq Threads
      /\ now' \in Nat /\ timer' \in Nat /\ poll' \in BOOLEAN
      /\ receiver' \in [Channels -> Nat] /\ forced' \in [Objects -> Nat]
      /\ leaked' \in [Objects -> Nat]
  BY DEF Schedule, TypeOK, timeVars
<1>. QED
  BY <1>1, <1>2, <1>3, <1>4, <1>5, <1>6, <1>7, WakeThreadsType DEF Schedule, TypeOK

\* Arming the timer: the delay is a positive number of ticks.
LEMMA DeltaSleepType == ASSUME TypeOK PROVE DeltaSleep \in Nat \ {0}
<1>1. nextTime - now \in Int /\ MsPerTick \in Nat \ {0}
  BY ConstantsAssumption DEF TypeOK
<1>2. (nextTime - now) \div MsPerTick \in Int
  BY <1>1
<1>. QED
  BY <1>2 DEF DeltaSleep

LEMMA WakeFirstType ==
  ASSUME TypeOK, NEW S \in SUBSET Threads, WakeFirst(S), semId' \in [Threads -> Nat]
  PROVE  TypeOK'
<1>1. /\ depth' \in [Threads -> [Objects -> Nat]]
      /\ entering' \in [Threads -> Objects \cup {NoObject}]
      /\ forced' \in [Objects -> Nat]
  BY PassMonitorsType DEF WakeFirst
<1>2. status' \in [Threads -> Statuses]
  BY DEF WakeFirst, TypeOK, Statuses
<1>3. needResched' \in [Threads -> BOOLEAN] /\ poll' \in BOOLEAN
  BY DEF WakeFirst, Poll
<1>. QED
  BY <1>1, <1>2, <1>3 DEF WakeFirst, TypeOK, machineVars, timeVars, monitorVars

LEMMA TypeNext == TypeOK /\ [Next]_vars => TypeOK'
<1>. SUFFICES ASSUME TypeOK, [Next]_vars PROVE TypeOK'
  OBVIOUS
<1>1. ASSUME NEW t \in Threads, Instruction(t) PROVE TypeOK'
  BY <1>1, TypeInstruction
<1>2. CASE Schedule
  BY <1>2, TypeSchedule
<1>3. CASE NothingLive
  BY <1>3 DEF NothingLive, TypeOK, Phases, machineVars, timeVars, monitorVars, loopVars,
              programVars
<1>4. CASE Arm
  <2>1. now \in Nat /\ MsPerTick \in Nat /\ DeltaSleep \in Nat
    BY DeltaSleepType, ConstantsAssumption DEF TypeOK
  <2>2. now + MsPerTick * DeltaSleep \in Nat
    BY <2>1
  <2>. QED
    BY <1>4, <2>2 DEF Arm, TypeOK, Phases, machineVars, timeVars, monitorVars, programVars
<1>5. CASE Resume
  <2>1. poll' \in BOOLEAN
    BY <1>5 DEF Resume, TypeOK
  <2>. QED
    BY <1>5, <2>1 DEF Resume, TypeOK, Phases, machineVars, timeVars, monitorVars, programVars
<1>6. ASSUME NEW c \in Channels, Receive(c) PROVE TypeOK'
  <2>1. {t \in live : FirstOf(t, {u \in live : id[u] = receiver[c]})} \in SUBSET Threads
    BY DEF TypeOK
  <2>2. semId' \in [Threads -> Nat]
    BY <1>6 DEF Receive, TypeOK
  <2>. QED
    BY <1>6, <2>1, <2>2, WakeFirstType DEF Receive
<1>7. ASSUME NEW p \in Ports, PortInterrupt(p) PROVE TypeOK'
  <2>1. BySem(p + 1) \in SUBSET Threads
    BY DEF BySem, TypeOK
  <2>2. semId' \in [Threads -> Nat]
    BY <1>7 DEF PortInterrupt, TypeOK
  <2>. QED
    BY <1>7, <2>1, <2>2, WakeFirstType DEF PortInterrupt
<1>8. CASE Tick
  BY <1>8, ConstantsAssumption
     DEF Tick, TypeOK, machineVars, monitorVars, loopVars, programVars
<1>9. CASE UNCHANGED vars
  BY <1>9 DEF vars, TypeOK
<1>. QED
  BY <1>1, <1>2, <1>3, <1>4, <1>5, <1>6, <1>7, <1>8, <1>9 DEF Next

\* Every variable keeps its type, in particular the counts of the monitors and the
\* priorities stay bytes.
THEOREM TypeCorrect == Spec => []TypeOK
BY TypeInit, TypeNext, PTL DEF Spec

-----------------------------------------------------------------------------
\* The thread list.

LEMMA ListInit == Init => ListInv
BY DEF Init, ListInv, IdsFollowList

\* dj_vm_addThread: the thread that becomes the tail gets the greatest number.
LEMMA AddThreadList ==
  ASSUME TypeOK, ListInv, NEW u, AddThread(u)
  PROVE  ListInv'
<1>. SUFFICES ASSUME NEW t \in live', NEW v \in live'
              PROVE  /\ t <= created'
                     /\ t < v => id'[t] < id'[v]
  BY DEF ListInv, IdsFollowList
<1>0. Threads \subseteq Nat
  BY DEF Threads
<1>1. /\ live \subseteq Threads /\ u \in Threads /\ u = created + 1 /\ created' = u
      /\ live' = live \cup {u} /\ id \in [Threads -> Nat] /\ created \in Threads
  BY DEF AddThread, TypeOK, Threads
<1>2. \A w \in live : w < u
  BY <1>0, <1>1 DEF ListInv
<1>3. t <= created'
  BY <1>0, <1>1, <1>2
<1>4. ASSUME t < v PROVE id'[t] < id'[v]
  <2>1. t \in live
    BY <1>0, <1>1, <1>2, <1>4
  <2>2. CASE v \in live
    <3>1. id'[t] = id[t] /\ id'[v] = id[v]
      BY <1>0, <1>1, <1>2, <2>1, <2>2 DEF AddThread, NumberAfterTail
    <3>. QED
      BY <1>4, <2>1, <2>2, <3>1 DEF ListInv, IdsFollowList
  <2>3. CASE v = u
    <3>1. PICK tail \in live : LastOf(tail, live) /\ id' = [id EXCEPT ![u] = id[tail] + 1]
      BY <2>1 DEF AddThread, NumberAfterTail
    <3>2. id'[t] = id[t] /\ id'[v] = id[tail] + 1 /\ id[t] \in Nat /\ id[tail] \in Nat
      BY <1>0, <1>1, <1>2, <2>1, <2>3, <3>1
    <3>3. t = tail \/ t < tail
      BY <1>0, <1>1, <2>1, <3>1 DEF LastOf
    <3>4. id[t] <= id[tail]
      BY <2>1, <3>1, <3>2, <3>3 DEF ListInv, IdsFollowList
    <3>. QED
      BY <3>2, <3>4
  <2>. QED
    BY <1>1, <2>2, <2>3
<1>. QED
  BY <1>3, <1>4

LEMMA ListNext == TypeOK /\ ListInv /\ [Next]_vars => ListInv'
<1>. SUFFICES ASSUME TypeOK, ListInv, [Next]_vars PROVE ListInv'
  OBVIOUS
<1>1. CASE \E u : AddThread(u)
  BY <1>1, AddThreadList
<1>2. CASE live' \subseteq live /\ UNCHANGED <<created, id>>
  BY <1>2 DEF ListInv, IdsFollowList
<1>3. ASSUME NEW t \in Threads, Instruction(t)
      PROVE  (\E u : AddThread(u)) \/ UNCHANGED <<live, created, id>>
  BY <1>3 DEF Instruction, MonitorEnter, MonitorExit, Wait, Notify, Sleep, EndQuantum,
     CreateThread, StartThread, StartTask, StopTask, Finish, WaitForSemaphore,
     WakeupWaitingThread, WaitForInterrupt, WaitForMessage, OpenChannel, machineVars
<1>4. Schedule => live' \subseteq live /\ UNCHANGED <<created, id>>
  BY DEF Schedule, Kept
<1>5. ASSUME ~(\E t \in Threads : Instruction(t)), ~Schedule
      PROVE  UNCHANGED <<live, created, id>>
  BY <1>5 DEF Next, NothingLive, Arm, Resume, Receive, PortInterrupt, WakeFirst, Tick,
     machineVars, vars
<1>. QED
  BY <1>1, <1>2, <1>3, <1>4, <1>5

LEMMA ListCorrect == Spec => [](TypeOK /\ ListInv)
<1>1. Init => TypeOK /\ ListInv
  BY TypeInit, ListInit
<1>2. TypeOK /\ ListInv /\ [Next]_vars => (TypeOK /\ ListInv)'
  BY TypeNext, ListNext
<1>. QED
  BY <1>1, <1>2, PTL DEF Spec

\* The numbers of the threads grow along vm->threads: dj_vm_getThreadById finds the one
\* thread that has the number.
THEOREM NumbersIdentify == Spec => []IdsFollowList
<1>1. ListInv => IdsFollowList
  BY DEF ListInv
<1>. QED
  BY <1>1, ListCorrect, PTL

-----------------------------------------------------------------------------
\* The monitors.

\* What MonitorInv says of one object.
Consistent(o) ==
  /\ \A t, u \in Threads : depth[t][o] > 0 /\ depth[u][o] > 0 => t = u
  /\ \A t \in Threads : depth[t][o] > 0 => count[o] = depth[t][o] + leaked[o]
  /\ (\A t \in Threads : depth[t][o] = 0) => count[o] = leaked[o]
  /\ owner[o] # NoThread => depth[owner[o]][o] > 0

LEMMA MonitorInvPerObject ==
  MonitorInv <=> \A o \in Objects : forced[o] = 0 => Consistent(o)
BY DEF MonitorInv, MutualExclusion, CountIsNesting, Unforced, Consistent

LEMMA MonitorInit == Init => MonitorInv
<1>. SUFFICES ASSUME Init, NEW o \in Objects PROVE Consistent(o)
  BY MonitorInvPerObject
<1>1. /\ count[o] = 0 /\ owner[o] = NoThread /\ leaked[o] = 0
      /\ \A t \in Threads : depth[t][o] = 0
  BY DEF Init
<1>. QED
  BY <1>1 DEF Consistent

\* What the types say of the monitors.
LEMMA MonitorTypes ==
  ASSUME TypeOK
  PROVE  /\ owner \in [Objects -> Threads \cup {NoThread}] /\ count \in [Objects -> 0 .. 255]
         /\ depth \in [Threads -> [Objects -> Nat]] /\ leaked \in [Objects -> Nat]
         /\ NoThread \notin Threads
BY DEF TypeOK, Threads, NoThread

\* An object whose monitor, and the threads inside it, a step leaves alone.
LEMMA ConsistentUnchanged ==
  ASSUME NEW o \in Objects, Consistent(o), count'[o] = count[o], owner'[o] = owner[o],
         leaked'[o] = leaked[o], owner \in [Objects -> Threads \cup {NoThread}],
         \A t \in Threads : depth'[t][o] = depth[t][o]
  PROVE  Consistent(o)'
BY DEF Consistent

\* An object that one thread at most is inside of, and owns if it has an owner.
LEMMA ConsistentAlone ==
  ASSUME NEW o \in Objects, NEW t \in Threads, NEW n \in Nat,
         depth' \in [Threads -> [Objects -> Nat]], leaked'[o] \in Nat,
         \A u \in Threads : depth'[u][o] = IF u = t THEN n ELSE 0,
         count'[o] = n + leaked'[o],
         owner'[o] = NoThread \/ (owner'[o] = t /\ n > 0)
  PROVE  Consistent(o)'
BY DEF Consistent

\* Nobody is inside a free monitor, nor has a dead owner leaked an entry.
LEMMA FreeIsEmpty ==
  ASSUME TypeOK, NEW o \in Objects, Consistent(o), count[o] = 0
  PROVE  leaked[o] = 0 /\ \A t \in Threads : depth[t][o] = 0
<1>1. leaked[o] \in Nat /\ \A t \in Threads : depth[t][o] \in Nat
  BY MonitorTypes
<1>. QED
  BY <1>1 DEF Consistent

\* The thread inside an object is alone there.
LEMMA InsideAlone ==
  ASSUME TypeOK, NEW o \in Objects, Consistent(o), NEW t \in Threads, depth[t][o] > 0
  PROVE  /\ count[o] = depth[t][o] + leaked[o]
         /\ \A u \in Threads : u # t => depth[u][o] = 0
<1>1. \A u \in Threads : depth[u][o] \in Nat
  BY MonitorTypes
<1>. QED
  BY <1>1 DEF Consistent

LEMMA ConsistentEnter ==
  ASSUME TypeOK, TypeOK', NEW t \in Threads, NEW p \in Objects, MonitorEnter(t, p),
         NEW o \in Objects, Consistent(o)
  PROVE  Consistent(o)'
<1>1. /\ owner \in [Objects -> Threads \cup {NoThread}] /\ count \in [Objects -> 0 .. 255]
      /\ depth \in [Threads -> [Objects -> Nat]] /\ leaked \in [Objects -> Nat]
      /\ NoThread \notin Threads
  BY MonitorTypes
<1>2. depth' \in [Threads -> [Objects -> Nat]] /\ leaked'[o] \in Nat
  BY DEF TypeOK
<1>3. CASE UNCHANGED <<count, owner, depth, leaked>>
  BY <1>1, <1>3, ConsistentUnchanged
<1>4. CASE o # p
  <2>1. /\ count'[o] = count[o] /\ owner'[o] = owner[o] /\ leaked'[o] = leaked[o]
        /\ \A u \in Threads : depth'[u][o] = depth[u][o]
    BY <1>1, <1>4 DEF MonitorEnter
  <2>. QED
    BY <1>1, <2>1, ConsistentUnchanged
<1>5. ASSUME o = p, count[o] = 0, count' = [count EXCEPT ![o] = 1],
             owner' = [owner EXCEPT ![o] = t], depth' = [depth EXCEPT ![t][o] = @ + 1],
             UNCHANGED leaked
      PROVE  Consistent(o)'
  <2>1. leaked[o] = 0 /\ \A u \in Threads : depth[u][o] = 0
    BY <1>5, FreeIsEmpty
  <2>2. count'[o] = 1 /\ owner'[o] = t /\ leaked'[o] = 0
    BY <1>1, <1>5, <2>1
  <2>3. \A u \in Threads : depth'[u][o] = IF u = t THEN 1 ELSE 0
    BY <1>1, <1>5, <2>1
  <2>. QED
    BY <1>2, <2>2, <2>3, ConsistentAlone
<1>6. ASSUME o = p, owner[o] = t, depth[t][o] + leaked[o] < MaxNest,
             count' = [count EXCEPT ![o] = Reentered(@)],
             depth' = [depth EXCEPT ![t][o] = @ + 1], UNCHANGED <<owner, leaked>>
      PROVE  Consistent(o)'
  <2>1. depth[t][o] > 0 /\ depth[t][o] \in Nat /\ leaked[o] \in Nat
    BY <1>1, <1>6 DEF Consistent
  <2>2. /\ count[o] = depth[t][o] + leaked[o]
        /\ \A u \in Threads : u # t => depth[u][o] = 0
    BY <2>1, InsideAlone
  <2>3. count'[o] = depth[t][o] + 1 + leaked[o]
    <3>0. depth[t][o] + leaked[o] < MaxNest /\ MaxNest \in 1 .. 255
      BY <1>6, ConstantsAssumption
    <3>1. count[o] + 1 \in 0 .. 255
      BY <2>1, <2>2, <3>0
    <3>2. count'[o] = Reentered(count[o])
      BY <1>1, <1>6
    <3>. QED
      BY <2>1, <2>2, <3>1, <3>2, U8Fits DEF Reentered
  <2>4. \A u \in Threads : depth'[u][o] = IF u = t THEN depth[t][o] + 1 ELSE 0
    BY <1>1, <1>6, <2>2
  <2>5. depth[t][o] + 1 \in Nat /\ depth[t][o] + 1 > 0
    BY <2>1
  <2>. QED
    BY <1>2, <1>6, <2>3, <2>4, <2>5, ConsistentAlone
<1>7. ASSUME o = p, owner[o] # t, Dangling(o), depth[owner[o]][o] + leaked[o] < MaxNest,
             count' = [count EXCEPT ![o] = Reentered(@)],
             owner' = [owner EXCEPT ![o] = t],
             depth' = [depth EXCEPT ![t][o] = @ + 1, ![owner[o]][o] = 0],
             leaked' = [leaked EXCEPT ![o] = @ + depth[owner[o]][o]]
      PROVE  Consistent(o)'
  <2>. DEFINE w == owner[o]
  <2>1. w \in Threads /\ w # t /\ depth[w][o] > 0 /\ depth[w][o] \in Nat /\ leaked[o] \in Nat
    BY <1>1, <1>7 DEF Consistent, Dangling
  <2>2. /\ count[o] = depth[w][o] + leaked[o]
        /\ \A u \in Threads : u # w => depth[u][o] = 0
    BY <2>1, InsideAlone
  <2>3. leaked'[o] = leaked[o] + depth[w][o] /\ owner'[o] = t
    BY <1>1, <1>7
  <2>4. count'[o] = 1 + leaked'[o]
    <3>0. depth[w][o] + leaked[o] < MaxNest /\ MaxNest \in 1 .. 255
      BY <1>7, ConstantsAssumption
    <3>1. count[o] + 1 \in 0 .. 255
      BY <2>1, <2>2, <3>0
    <3>2. count'[o] = Reentered(count[o])
      BY <1>1, <1>7
    <3>. QED
      BY <2>1, <2>2, <2>3, <3>1, <3>2, U8Fits DEF Reentered
  <2>5. \A u \in Threads : depth'[u][o] = IF u = t THEN 1 ELSE 0
    BY <1>1, <1>7, <2>1, <2>2
  <2>. QED
    BY <1>2, <2>3, <2>4, <2>5, ConsistentAlone
<1>. QED
  BY <1>3, <1>4, <1>5, <1>6, <1>7 DEF MonitorEnter

LEMMA ConsistentExit ==
  ASSUME TypeOK, TypeOK', NEW t \in Threads, NEW p \in Objects, MonitorExit(t, p),
         NEW o \in Objects, Consistent(o)
  PROVE  Consistent(o)'
<1>1. /\ owner \in [Objects -> Threads \cup {NoThread}] /\ count \in [Objects -> 0 .. 255]
      /\ depth \in [Threads -> [Objects -> Nat]] /\ leaked \in [Objects -> Nat]
  BY MonitorTypes
<1>2. UNCHANGED leaked
  BY DEF MonitorExit
<1>3. CASE o # p
  <2>1. /\ count'[o] = count[o] /\ owner'[o] = owner[o]
        /\ \A u \in Threads : depth'[u][o] = depth[u][o]
    BY <1>1, <1>3 DEF MonitorExit
  <2>. QED
    BY <1>1, <1>2, <2>1, ConsistentUnchanged
<1>4. CASE o = p
  <2>1. depth[t][o] > 0 /\ depth[t][o] \in Nat /\ leaked[o] \in Nat
    BY <1>1, <1>4 DEF MonitorExit
  <2>2. /\ count[o] = depth[t][o] + leaked[o]
        /\ \A u \in Threads : u # t => depth[u][o] = 0
    BY <2>1, InsideAlone
  <2>3. /\ count' = [count EXCEPT ![o] = Left(@)] /\ owner'[o] = NoThread
        /\ depth' = [depth EXCEPT ![t][o] = @ - 1]
    BY <1>1, <1>4 DEF MonitorExit
  <2>4. count'[o] = depth[t][o] - 1 + leaked[o]
    <3>1. count[o] \in 0 .. 255 /\ count[o] - 1 \in 0 .. 255
      BY <1>1, <2>1, <2>2
    <3>2. count'[o] = Left(count[o])
      BY <1>1, <2>3
    <3>. QED
      BY <2>1, <2>2, <3>1, <3>2, U8Fits DEF Left
  <2>5. \A u \in Threads : depth'[u][o] = IF u = t THEN depth[t][o] - 1 ELSE 0
    BY <1>1, <2>2, <2>3
  <2>6. depth[t][o] - 1 \in Nat /\ depth' \in [Threads -> [Objects -> Nat]]
    BY <2>1 DEF TypeOK
  <2>. QED
    BY <1>2, <2>1, <2>3, <2>4, <2>5, <2>6, ConsistentAlone
<1>. QED
  BY <1>3, <1>4

\* The scheduler hands a free monitor to one thread at most.
LEMMA OneGrantee ==
  ASSUME TypeOK, NEW o \in Objects, NEW t \in Grantees(o), NEW u \in Grantees(o)
  PROVE  t = u
<1>1. t \in Nat /\ u \in Nat
  BY KeptThreads DEF Grantees, Threads
<1>2. t <= u /\ u <= t
  BY DEF Grantees, Granted, FirstOf
<1>. QED
  BY <1>1, <1>2

LEMMA ConsistentSchedule ==
  ASSUME TypeOK, TypeOK', Schedule, NEW o \in Objects, Consistent(o)
  PROVE  Consistent(o)'
<1>1. /\ owner \in [Objects -> Threads \cup {NoThread}] /\ depth' \in [Threads -> [Objects -> Nat]]
      /\ UNCHANGED leaked
  BY MonitorTypes DEF TypeOK, Schedule
<1>2. CASE Grantees(o) = {}
  <2>1. /\ count'[o] = count[o] /\ owner'[o] = owner[o]
        /\ \A u \in Threads : depth'[u][o] = depth[u][o]
    BY <1>2 DEF Schedule, WakeThreads
  <2>. QED
    BY <1>1, <2>1, ConsistentUnchanged
<1>3. CASE Grantees(o) # {}
  <2>1. PICK t \in Grantees(o) : TRUE
    BY <1>3
  <2>2. t \in Threads /\ count[o] = 0 /\ Grantees(o) = {t}
    BY <2>1, KeptThreads, OneGrantee DEF Grantees, Granted
  <2>3. leaked[o] = 0 /\ \A u \in Threads : depth[u][o] = 0
    BY <2>2, FreeIsEmpty
  <2>4. count'[o] = 1 /\ owner'[o] = t
    BY <2>2 DEF Schedule, WakeThreads
  <2>5. \A u \in Threads : depth'[u][o] = IF u = t THEN 1 ELSE 0
    BY <2>2, <2>3 DEF Schedule, WakeThreads
  <2>. QED
    BY <1>1, <2>2, <2>3, <2>4, <2>5, ConsistentAlone
<1>. QED
  BY <1>2, <1>3

\* A thread that passes a monitor ungranted is counted; the others leave it alone.
LEMMA PassMonitorsKeeps ==
  ASSUME TypeOK, NEW S \in SUBSET Threads, PassMonitors(S),
         UNCHANGED <<monitorVars, leaked>>, NEW o \in Objects, forced'[o] = 0
  PROVE  forced[o] = 0 /\ (Consistent(o) => Consistent(o)')
<1>. DEFINE P == {t \in S : entering[t] = o}
<1>1. forced[o] \in Nat /\ owner \in [Objects -> Threads \cup {NoThread}]
  BY DEF TypeOK
<1>2. P \subseteq Threads
  OBVIOUS
<1>3. IsFiniteSet(P) /\ Cardinality(P) \in Nat
  BY <1>2, ThreadsAreCounted
<1>4. forced'[o] = forced[o] + Cardinality(P)
  BY DEF PassMonitors
<1>5. forced[o] = 0 /\ Cardinality(P) = 0
  BY <1>1, <1>3, <1>4
<1>6. P = {}
  BY <1>3, <1>5, FS_EmptySet
<1>7. \A t \in Threads : depth'[t][o] = depth[t][o]
  BY <1>6 DEF PassMonitors
<1>8. count'[o] = count[o] /\ owner'[o] = owner[o]
  BY DEF monitorVars
<1>. QED
  BY <1>1, <1>5, <1>7, <1>8, ConsistentUnchanged

LEMMA MonitorNext == TypeOK /\ MonitorInv /\ [Next]_vars => MonitorInv'
<1>. SUFFICES ASSUME TypeOK, MonitorInv, [Next]_vars, NEW o \in Objects, forced'[o] = 0
              PROVE  Consistent(o)'
  BY MonitorInvPerObject DEF MonitorInv, MutualExclusion, CountIsNesting, Unforced, Consistent
<1>. DEFINE NoMonitor == UNCHANGED <<monitorVars, depth, forced, leaked>>
<1>0. TypeOK'
  BY TypeNext
<1>1. forced[o] = 0 => Consistent(o)
  BY MonitorInvPerObject
<1>2. CASE NoMonitor
  BY <1>1, <1>2, ConsistentUnchanged DEF monitorVars, TypeOK
<1>3. ASSUME NEW t \in Threads, Instruction(t)
      PROVE  Consistent(o)'
  <2>1. ASSUME NEW p \in Objects, MonitorEnter(t, p) PROVE Consistent(o)'
    BY <1>0, <1>1, <2>1, ConsistentEnter DEF MonitorEnter
  <2>2. ASSUME NEW p \in Objects, MonitorExit(t, p) PROVE Consistent(o)'
    BY <1>0, <1>1, <2>2, ConsistentExit DEF MonitorExit, programVars
  <2>3. ASSUME NEW s \in Semaphores, WakeupWaitingThread(t, s) PROVE Consistent(o)'
    <3>1. PICK u \in BySem(s) : PassMonitors({u})
      BY <2>3 DEF WakeupWaitingThread
    <3>2. {u} \in SUBSET Threads /\ UNCHANGED <<monitorVars, leaked>>
      BY <2>3 DEF BySem, TypeOK, WakeupWaitingThread
    <3>. QED
      BY <1>1, <3>1, <3>2, PassMonitorsKeeps
  <2>4. ASSUME ~(\E p \in Objects : MonitorEnter(t, p) \/ MonitorExit(t, p)),
               ~(\E s \in Semaphores : WakeupWaitingThread(t, s))
        PROVE  NoMonitor
    BY <1>3, <2>4 DEF Instruction, Wait, Notify, Sleep, EndQuantum, CreateThread,
       StartThread, StartTask, StopTask, Finish, WaitForSemaphore, WaitForInterrupt,
       WaitForMessage, OpenChannel, monitorVars, programVars
  <2>. QED
    BY <1>2, <2>1, <2>2, <2>3, <2>4
<1>4. CASE Schedule
  BY <1>0, <1>1, <1>4, ConsistentSchedule DEF Schedule
<1>5. ASSUME NEW c \in Channels, Receive(c) PROVE Consistent(o)'
  <2>1. PICK S \in SUBSET Threads : WakeFirst(S)
    BY <1>5 DEF Receive, TypeOK
  <2>. QED
    BY <1>1, <2>1, PassMonitorsKeeps DEF WakeFirst
<1>6. ASSUME NEW p \in Ports, PortInterrupt(p) PROVE Consistent(o)'
  <2>1. PICK S \in SUBSET Threads : WakeFirst(S)
    BY <1>6 DEF PortInterrupt, BySem, TypeOK
  <2>. QED
    BY <1>1, <2>1, PassMonitorsKeeps DEF WakeFirst
<1>7. CASE NothingLive \/ Arm \/ Resume \/ Tick \/ UNCHANGED vars
  BY <1>2, <1>7 DEF NothingLive, Arm, Resume, Tick, monitorVars, programVars, vars
<1>. QED
  BY <1>3, <1>4, <1>5, <1>6, <1>7 DEF Next

\* The monitors work, as long as nobody sets a thread running out of its MONITORENTER: one
\* thread at a time is inside an object, and the count is its nesting, whatever the nested
\* exits do to the owner and whoever is stopped inside.
THEOREM MonitorsExclude == Spec => [](MutualExclusion /\ CountIsNesting)
<1>1. Init => TypeOK /\ MonitorInv
  BY TypeInit, MonitorInit
<1>2. TypeOK /\ MonitorInv /\ [Next]_vars => (TypeOK /\ MonitorInv)'
  BY TypeNext, MonitorNext
<1>3. MonitorInv => MutualExclusion /\ CountIsNesting
  BY DEF MonitorInv
<1>. QED
  BY <1>1, <1>2, <1>3, PTL DEF Spec

\* The byte in a monitor is the nesting of the threads inside, plus what dead owners left
\* (MONITORENTER, MONITOREXIT).
THEOREM CountsAreNesting == Spec => []CountIsNesting
  BY MonitorsExclude, PTL

-----------------------------------------------------------------------------
\* Going to sleep.

LEMMA SmallestExists ==
  ASSUME NEW S, S \subseteq Nat, S # {}
  PROVE  \E m \in S : \A n \in S : m <= n
<1>. DEFINE R == OpToRel(<, Nat)
<1>1. IsWellFoundedOn(R, Nat)
  BY NatLessThanWellFounded
<1>. HIDE DEF R
<1>2. PICK m \in S : \A n \in S : ~ (<<n, m>> \in R)
  BY <1>1, WFMin
<1>3. ASSUME NEW n \in S, n < m PROVE <<n, m>> \in R
  BY <1>3 DEF R, OpToRel
<1>4. \A n \in S : ~ (n < m)
  BY <1>2, <1>3
<1>. QED
  BY <1>4

\* A free monitor that some thread is blocked on is handed over.
LEMMA HandoverHappens ==
  ASSUME TypeOK, NEW t \in Kept, status[t] = "BLOCKED_FOR_MONITOR", count[monitorObject[t]] = 0
  PROVE  Runnable # {}
<1>. DEFINE B == {u \in Kept : /\ status[u] = "BLOCKED_FOR_MONITOR"
                               /\ monitorObject[u] = monitorObject[t]}
<1>1. B \subseteq Nat /\ B # {}
  BY KeptThreads DEF Threads
<1>2. PICK m \in B : \A n \in B : m <= n
  BY <1>1, SmallestExists
<1>3. Granted(m)
  BY <1>2 DEF Granted, FirstOf
<1>. QED
  BY <1>2, <1>3 DEF Runnable

\* The scheduler leaves its inner loop only with nothing to run.
LEMMA ArmsWhenIdle ==
  ASSUME TypeOK, Schedule, phase' = "arm"
  PROVE  /\ Runnable = {}
         /\ live' = Kept /\ Kept \subseteq live /\ Kept \subseteq Threads
         /\ \A t \in Threads : status'[t] = status[t]
         /\ \A t \in Threads : monitorObject'[t] = monitorObject[t]
         /\ count' = count
<1>1. Kept \subseteq live /\ Kept \subseteq Threads /\ Runnable \subseteq Threads
  BY KeptThreads DEF Runnable
<1>2. PICK t \in Threads \cup {NoThread} :
        Selects(t) /\ phase' = IF t = NoThread THEN "arm" ELSE IF t \in started THEN "run" ELSE "panic"
  BY DEF Schedule
<1>3. t = NoThread /\ NoThread \notin Threads
  BY <1>2 DEF Threads, NoThread
<1>4. Runnable = {}
  BY <1>1, <1>2, <1>3 DEF Selects, FirstOf, Urgent
<1>5. \A o \in Objects : Grantees(o) = {}
  BY <1>4 DEF Grantees, Runnable
<1>6. \A u \in Threads : status'[u] = status[u]
  BY <1>4 DEF Schedule, WakeThreads
<1>7. \A u \in Threads : monitorObject'[u] = monitorObject[u]
  BY <1>4 DEF Schedule, WakeThreads, Runnable
<1>8. count \in [Objects -> 0 .. 255]
  BY DEF TypeOK
<1>9. count' = count
  BY <1>5, <1>8 DEF Schedule, WakeThreads
<1>. QED
  BY <1>1, <1>4, <1>6, <1>7, <1>9 DEF Schedule

\* An instruction is executed in a quantum, and leaves it or ends it.
LEMMA InstructionPhase ==
  ASSUME NEW t \in Threads, Instruction(t)
  PROVE  phase = "run" /\ t = current /\ phase' \in {"run", "schedule"}
<1>. USE DEF Executes, BreakExecution
<1>1. ASSUME NEW o \in Objects, MonitorEnter(t, o) \/ MonitorExit(t, o) \/ Notify(t, o)
      PROVE  phase = "run" /\ t = current /\ phase' \in {"run", "schedule"}
  BY <1>1 DEF MonitorEnter, MonitorExit, Notify
<1>2. ASSUME NEW o \in Objects, NEW d \in Timeouts, Wait(t, o, d)
      PROVE  phase = "run" /\ t = current /\ phase' \in {"run", "schedule"}
  BY <1>2 DEF Wait
<1>3. ASSUME NEW d \in Delays, Sleep(t, d)
      PROVE  phase = "run" /\ t = current /\ phase' \in {"run", "schedule"}
  BY <1>3 DEF Sleep
<1>4. ASSUME \/ EndQuantum(t) \/ CreateThread(t) \/ StartTask(t) \/ Finish(t)
             \/ WaitForMessage(t) \/ (\E u \in live : StartThread(t, u))
             \/ (\E S \in SUBSET TaskThreads : StopTask(t, S))
      PROVE  phase = "run" /\ t = current /\ phase' \in {"run", "schedule"}
  BY <1>4 DEF EndQuantum, CreateThread, StartTask, Finish, WaitForMessage, StartThread,
     StopTask
<1>5. ASSUME \/ \E s \in Semaphores : WaitForSemaphore(t, s) \/ WakeupWaitingThread(t, s)
             \/ \E p \in Ports : WaitForInterrupt(t, p)
             \/ \E c \in Channels : OpenChannel(t, c)
      PROVE  phase = "run" /\ t = current /\ phase' \in {"run", "schedule"}
  BY <1>5 DEF WaitForSemaphore, WakeupWaitingThread, WaitForInterrupt, OpenChannel
<1>. QED
  BY <1>1, <1>2, <1>3, <1>4, <1>5 DEF Instruction

\* What leads to the states in which the process arms its timer or sleeps.
LEMMA WaysToSleep ==
  ASSUME [Next]_vars, phase' \in {"arm", "idle"}
  PROVE  \/ Schedule \/ NothingLive \/ Arm
         \/ \E S : WakeFirst(S) /\ (\/ \E c \in Channels : Receive(c)
                                   \/ \E p \in Ports : PortInterrupt(p))
         \/ Tick
         \/ UNCHANGED vars
<1>1. ASSUME NEW t \in Threads, Instruction(t) PROVE FALSE
  BY <1>1, InstructionPhase
<1>2. ~ Resume
  BY DEF Resume
<1>3. \A c \in Channels : Receive(c) => \E S : WakeFirst(S)
  BY DEF Receive
<1>4. \A p \in Ports : PortInterrupt(p) => \E S : WakeFirst(S)
  BY DEF PortInterrupt
<1>. QED
  BY <1>1, <1>2, <1>3, <1>4 DEF Next

LEMMA IdleInit == Init => IdleInv
BY DEF Init, IdleInv, NoLostWakeup, NoForgottenHandover

LEMMA IdleNext == TypeOK /\ IdleInv /\ [Next]_vars => IdleInv'
<1>. SUFFICES ASSUME TypeOK, IdleInv, [Next]_vars, phase' \in {"arm", "idle"}
              PROVE  IdleInv'
  BY DEF IdleInv, NoLostWakeup, NoForgottenHandover
<1>1. CASE Schedule
  <2>1. phase' = "arm"
    BY <1>1 DEF Schedule
  <2>2. /\ Runnable = {} /\ live' = Kept /\ Kept \subseteq Threads /\ count' = count
        /\ \A t \in Threads : status'[t] = status[t] /\ monitorObject'[t] = monitorObject[t]
    BY <1>1, <2>1, ArmsWhenIdle
  <2>3. \A t \in live' : status'[t] # "RUNNING"
    BY <2>2 DEF Runnable
  <2>4. \A t \in live' : status'[t] = "BLOCKED_FOR_MONITOR" => count'[monitorObject'[t]] # 0
    BY <2>2, HandoverHappens
  <2>. QED
    BY <2>1, <2>3, <2>4 DEF IdleInv, NoLostWakeup, NoForgottenHandover
<1>2. CASE NothingLive
  <2>1. \A t \in live : status[t] # "RUNNING" /\ status[t] # "BLOCKED_FOR_MONITOR"
    BY <1>2 DEF NothingLive, LiveThreads, CountsAsLive
  <2>2. phase' = "arm" /\ live' = live /\ status' = status
    BY <1>2 DEF NothingLive, machineVars
  <2>. QED
    BY <2>1, <2>2 DEF IdleInv, NoLostWakeup, NoForgottenHandover
<1>3. CASE Arm
  BY <1>3 DEF Arm, IdleInv, NoLostWakeup, NoForgottenHandover, machineVars, monitorVars
<1>4. ASSUME NEW S, WakeFirst(S) PROVE IdleInv'
  <2>1. /\ phase = "idle" /\ phase' = "idle" /\ poll' /\ live' = live /\ count' = count
        /\ monitorObject' = monitorObject
    BY <1>4 DEF WakeFirst, Poll, machineVars, monitorVars
  <2>2. \A t \in live : status'[t] = IF t \in S THEN "RUNNING" ELSE status[t]
    BY <1>4 DEF WakeFirst, TypeOK
  <2>. QED
    BY <2>1, <2>2 DEF IdleInv, NoLostWakeup, NoForgottenHandover
<1>5. CASE Tick \/ UNCHANGED vars
  <2>1. UNCHANGED <<live, status, phase, poll, count, monitorObject>>
    BY <1>5 DEF Tick, vars, machineVars, monitorVars, loopVars
  <2>. QED
    BY <2>1 DEF IdleInv, NoLostWakeup, NoForgottenHandover
<1>. QED
  BY <1>1, <1>2, <1>3, <1>4, <1>5, WaysToSleep

\* The process never sleeps on a thread that can run, or that is blocked on a free monitor,
\* without an event that wakes it: no callback and no hand-over is lost.
THEOREM SleepsWithCause == Spec => [](NoLostWakeup /\ NoForgottenHandover)
<1>1. Init => TypeOK /\ IdleInv
  BY TypeInit, IdleInit
<1>2. TypeOK /\ IdleInv /\ [Next]_vars => (TypeOK /\ IdleInv)'
  BY TypeNext, IdleNext
<1>3. IdleInv => NoLostWakeup /\ NoForgottenHandover
  BY DEF IdleInv
<1>. QED
  BY <1>1, <1>2, <1>3, PTL DEF Spec

\* The VM never sleeps with a thread blocked on a free monitor (dj_vm_wakeThreads).
THEOREM HandoversHappen == Spec => []NoForgottenHandover
  BY SleepsWithCause, PTL

-----------------------------------------------------------------------------
\* The timer.

LEMMA TimerInit == Init => TimerInv
<1>. SUFFICES ASSUME Init PROVE TimerInv
  OBVIOUS
<1>1. phase = "top" /\ Horizon \in Nat /\ \A t \in Threads : scheduleTime[t] = 0
  BY ConstantsAssumption DEF Init
<1>. QED
  BY <1>1 DEF TimerInv, TimerCoversSleepers

\* Rounding a delay down to whole ticks never makes it longer.
LEMMA TicksRoundDown ==
  ASSUME NEW d \in Int, NEW m \in Nat \ {0}
  PROVE  m * (d \div m) <= d
OBVIOUS

\* Nobody is given a time beyond the horizon.
LEMMA TimesBounded ==
  ASSUME TypeOK, TimerInv, [Next]_vars
  PROVE  \A t \in Threads : scheduleTime'[t] <= Horizon
<1>1. scheduleTime \in [Threads -> Nat] /\ now \in Nat /\ Horizon \in Nat
  BY ConstantsAssumption DEF TypeOK
<1>2. CASE UNCHANGED scheduleTime
  BY <1>2 DEF TimerInv
<1>3. ASSUME NEW t \in Threads, NEW d \in Delays, Sleep(t, d)
      PROVE  \A u \in Threads : scheduleTime'[u] <= Horizon
  BY <1>1, <1>3 DEF Sleep, TimerInv
<1>4. ASSUME NEW t \in Threads, NEW o \in Objects, NEW d \in Timeouts, Wait(t, o, d)
      PROVE  \A u \in Threads : scheduleTime'[u] <= Horizon
  BY <1>1, <1>4 DEF Wait, TimerInv
<1>5. ASSUME NEW t \in Threads, Instruction(t),
             ~ (\E d \in Delays : Sleep(t, d)),
             ~ (\E o \in Objects, d \in Timeouts : Wait(t, o, d))
      PROVE  UNCHANGED scheduleTime
  BY <1>5 DEF Instruction, MonitorEnter, MonitorExit, Notify, EndQuantum, CreateThread,
     StartThread, StartTask, StopTask, Finish, WaitForSemaphore, WakeupWaitingThread,
     WaitForInterrupt, WaitForMessage, OpenChannel, timeVars
<1>6. ASSUME ~ (\E t \in Threads : Instruction(t))
      PROVE  UNCHANGED scheduleTime
  BY <1>6 DEF Next, Schedule, NothingLive, Arm, Resume, Receive, PortInterrupt, WakeFirst,
     Tick, timeVars, vars
<1>. QED
  BY <1>2, <1>3, <1>4, <1>5, <1>6

LEMMA TimerNext == TypeOK /\ TimerInv /\ [Next]_vars => TimerInv'
<1>. SUFFICES ASSUME TypeOK, TimerInv, [Next]_vars, phase' \in {"arm", "idle"}
              PROVE  /\ phase' = "arm" => \A t \in live' :
                          status'[t] = "SLEEPING" => nextTime' <= scheduleTime'[t]
                     /\ TimerCoversSleepers'
  BY TimesBounded DEF TimerInv, TimerCoversSleepers
<1>1. /\ scheduleTime \in [Threads -> Nat] /\ now \in Nat /\ nextTime \in Nat /\ timer \in Nat
      /\ live \subseteq Threads
  BY DEF TypeOK
<1>2. /\ MsPerTick \in Nat \ {0} /\ Horizon \in Nat /\ MaxScheduleTime \in Nat
      /\ Horizon < MaxScheduleTime
  BY ConstantsAssumption
<1>3. CASE Schedule
  <2>1. phase' = "arm"
    BY <1>3 DEF Schedule
  <2>2. /\ Runnable = {} /\ live' = Kept /\ Kept \subseteq Threads
        /\ \A t \in Threads : status'[t] = status[t]
    BY <1>3, <2>1, ArmsWhenIdle
  <2>3. ASSUME NEW t \in live', status'[t] = "SLEEPING"
        PROVE  nextTime' <= scheduleTime'[t]
    <3>1. t \in Kept /\ t \in Threads /\ status[t] = "SLEEPING"
      BY <2>2, <2>3
    <3>2. ~ (scheduleTime[t] <= now)
      BY <2>2, <3>1 DEF Runnable, SleepOver
    <3>3. scheduleTime[t] > 0 /\ scheduleTime[t] < MaxScheduleTime /\ scheduleTime[t] \in Nat
      BY <1>1, <1>2, <3>1, <3>2 DEF TimerInv
    <3>4. scheduleTime[t] \in TimesOfSleeps
      BY <3>1 DEF TimesOfSleeps
    <3>5. nextTime' <= scheduleTime[t]
      BY <1>3, <3>3, <3>4 DEF Schedule, NextScheduleTime, Earliest, FirstOf
    <3>6. scheduleTime' = scheduleTime
      BY <1>3 DEF Schedule, timeVars
    <3>. QED
      BY <3>5, <3>6
  <2>. QED
    BY <2>1, <2>3 DEF TimerCoversSleepers
<1>4. CASE NothingLive
  <2>1. \A t \in live : status[t] # "SLEEPING"
    BY <1>4 DEF NothingLive, LiveThreads, CountsAsLive
  <2>2. phase' = "arm" /\ live' = live /\ status' = status
    BY <1>4 DEF NothingLive, machineVars
  <2>. QED
    BY <2>1, <2>2 DEF TimerCoversSleepers
<1>5. CASE Arm
  <2>1. /\ phase = "arm" /\ phase' = "idle" /\ live' = live /\ status' = status /\ now' = now
        /\ scheduleTime' = scheduleTime /\ timer' = now + MsPerTick * DeltaSleep
    BY <1>5 DEF Arm, machineVars, timeVars
  <2>2. timer' <= now + MsPerTick \/ timer' <= nextTime
    <3>1. nextTime - now \in Int
      BY <1>1
    <3>2. MsPerTick * ((nextTime - now) \div MsPerTick) <= nextTime - now
      BY <1>2, <3>1, TicksRoundDown
    <3>3. (nextTime - now) \div MsPerTick \in Int
      BY <1>2, <3>1
    <3>4. CASE (nextTime - now) \div MsPerTick <= 0
      BY <1>1, <1>2, <2>1, <3>4 DEF DeltaSleep
    <3>5. CASE ~ ((nextTime - now) \div MsPerTick <= 0)
      <4>1. DeltaSleep = (nextTime - now) \div MsPerTick
        BY <3>5 DEF DeltaSleep
      <4>2. MsPerTick * DeltaSleep \in Int /\ MsPerTick * DeltaSleep <= nextTime - now
        BY <1>2, <3>2, <3>3, <4>1
      <4>. QED
        BY <1>1, <2>1, <4>2
    <3>. QED
      BY <3>4, <3>5
  <2>3. ASSUME NEW t \in live, status[t] = "SLEEPING"
        PROVE  timer' <= MsPerTick + (IF scheduleTime[t] > now THEN scheduleTime[t] ELSE now)
    <3>1. nextTime <= scheduleTime[t] /\ scheduleTime[t] \in Nat
      BY <1>1, <2>1, <2>3 DEF TimerInv
    <3>2. timer' \in Nat
      BY TypeNext DEF TypeOK
    <3>. QED
      BY <1>1, <1>2, <2>2, <3>1, <3>2
  <2>. QED
    BY <2>1, <2>3 DEF TimerCoversSleepers
<1>6. ASSUME NEW S, WakeFirst(S)
      PROVE  phase' = "idle" /\ TimerCoversSleepers'
  <2>1. /\ phase = "idle" /\ phase' = "idle" /\ live' = live /\ timer' = timer /\ now' = now
        /\ scheduleTime' = scheduleTime
    BY <1>6 DEF WakeFirst, machineVars, timeVars
  <2>2. \A t \in live : status'[t] = "SLEEPING" => status[t] = "SLEEPING"
    BY <1>6 DEF WakeFirst, TypeOK
  <2>. QED
    BY <2>1, <2>2 DEF TimerInv, TimerCoversSleepers
<1>7. CASE Tick
  <2>1. UNCHANGED <<live, status, phase, nextTime, timer, scheduleTime>> /\ now' = now + MsPerTick
    BY <1>7 DEF Tick, machineVars, loopVars
  <2>2. ASSUME phase' = "idle", NEW t \in live, status[t] = "SLEEPING"
        PROVE  timer <= MsPerTick + (IF scheduleTime[t] > now' THEN scheduleTime[t] ELSE now')
    <3>1. timer <= MsPerTick + (IF scheduleTime[t] > now THEN scheduleTime[t] ELSE now)
      BY <2>1, <2>2 DEF TimerInv, TimerCoversSleepers
    <3>2. scheduleTime[t] \in Nat
      BY <1>1
    <3>. QED
      BY <1>1, <1>2, <2>1, <3>1, <3>2
  <2>. QED
    BY <2>1, <2>2 DEF TimerInv, TimerCoversSleepers
<1>8. CASE UNCHANGED vars
  BY <1>8 DEF vars, TimerInv, TimerCoversSleepers
<1>. QED
  BY <1>3, <1>4, <1>5, <1>6, <1>7, <1>8, WaysToSleep

\* The timer of the process covers every Thread.sleep.
THEOREM SleepersAreCovered == Spec => []TimerCoversSleepers
<1>1. Init => TypeOK /\ TimerInv
  BY TypeInit, TimerInit
<1>2. TypeOK /\ TimerInv /\ [Next]_vars => (TypeOK /\ TimerInv)'
  BY TypeNext, TimerNext
<1>3. TimerInv => TimerCoversSleepers
  BY DEF TimerInv
<1>. QED
  BY <1>1, <1>2, <1>3, PTL DEF Spec

-----------------------------------------------------------------------------
\* The marks of need_resched.

LEMMA UrgencyInit == Init => UrgencyInv
<1>. SUFFICES ASSUME Init PROVE UrgencyInv
  OBVIOUS
<1>1. live = {1} /\ created = 1 /\ phase = "top" /\ \A t \in Threads : ~ needResched[t]
  BY DEF Init
<1>2. 1 \in Threads
  BY ConstantsAssumption DEF Threads
<1>. QED
  BY <1>1, <1>2 DEF UrgencyInv, UrgencyIsFresh

\* An instruction that creates no thread changes no mark, and no status but the running
\* thread's to anything else than running or finished.
LEMMA InstructionMarks ==
  ASSUME TypeOK, NEW t \in Threads, Instruction(t), ~ CreateThread(t), ~ StartTask(t)
  PROVE  /\ UNCHANGED <<live, created, current, needResched>>
         /\ \A u \in live : u # t => status'[u] \in {status[u], "RUNNING", "FINISHED"}
<1>. USE DEF machineVars
<1>0. status \in [Threads -> Statuses] /\ live \subseteq Threads
  BY DEF TypeOK
<1>1. ASSUME NEW o \in Objects, MonitorEnter(t, o) \/ MonitorExit(t, o) \/ Notify(t, o)
      PROVE  /\ UNCHANGED <<live, created, current, needResched>>
             /\ \A u \in live : u # t => status'[u] \in {status[u], "RUNNING", "FINISHED"}
  BY <1>0, <1>1 DEF MonitorEnter, MonitorExit, Notify
<1>2. ASSUME \/ \E o \in Objects, d \in Timeouts : Wait(t, o, d)
             \/ \E d \in Delays : Sleep(t, d)
             \/ EndQuantum(t) \/ Finish(t) \/ WaitForMessage(t)
             \/ \E s \in Semaphores : WaitForSemaphore(t, s)
             \/ \E p \in Ports : WaitForInterrupt(t, p)
             \/ \E c \in Channels : OpenChannel(t, c)
      PROVE  /\ UNCHANGED <<live, created, current, needResched>>
             /\ \A u \in live : u # t => status'[u] \in {status[u], "RUNNING", "FINISHED"}
  BY <1>0, <1>2 DEF Wait, Sleep, EndQuantum, Finish, WaitForMessage,
     WaitForSemaphore, WaitForInterrupt, OpenChannel
<1>3. ASSUME \/ \E u \in live : StartThread(t, u)
             \/ \E S \in SUBSET TaskThreads : StopTask(t, S)
             \/ \E s \in Semaphores : WakeupWaitingThread(t, s)
      PROVE  /\ UNCHANGED <<live, created, current, needResched>>
             /\ \A u \in live : u # t => status'[u] \in {status[u], "RUNNING", "FINISHED"}
  BY <1>0, <1>3 DEF StartThread, StopTask, WakeupWaitingThread
<1>. QED
  BY <1>1, <1>2, <1>3 DEF Instruction

LEMMA UrgencyInstruction ==
  ASSUME TypeOK, UrgencyInv, NEW t \in Threads, Instruction(t)
  PROVE  UrgencyInv'
<1>1. /\ t = current /\ t \in live /\ ~ needResched[t] /\ phase = "run"
      /\ live \subseteq Threads /\ created \in Nat /\ \A u \in live : u <= created
      /\ Threads \subseteq Nat
  BY InstructionPhase DEF UrgencyInv, TypeOK, Threads
<1>2. CASE /\ UNCHANGED <<live, created, current, needResched>>
           /\ \A u \in live : u # t => status'[u] \in {status[u], "RUNNING", "FINISHED"}
  BY <1>1, <1>2 DEF UrgencyInv, UrgencyIsFresh
<1>3. CASE CreateThread(t)
  <2>1. /\ live' = live \cup {created + 1} /\ created' = created + 1 /\ created + 1 \in Threads
        /\ UNCHANGED <<current, needResched, status>>
    BY <1>1, <1>3 DEF CreateThread, AddThread, Threads
  <2>2. ~ needResched[created + 1]
    BY <1>1, <2>1 DEF UrgencyInv
  <2>. QED
    BY <1>1, <2>1, <2>2 DEF UrgencyInv, UrgencyIsFresh
<1>4. CASE StartTask(t)
  <2>1. /\ live' = live \cup {created + 1} /\ created' = created + 1 /\ created + 1 \in Threads
        /\ current' = current
    BY <1>1, <1>4 DEF StartTask, AddThread, Threads
  <2>2. /\ \A u \in Threads : u # created + 1 => needResched'[u] = needResched[u]
        /\ \A u \in Threads : u # created + 1 => status'[u] = status[u]
        /\ status'[created + 1] = "RUNNING"
    BY <1>4, <2>1 DEF StartTask, TypeOK
  <2>. QED
    BY <1>1, <2>1, <2>2 DEF UrgencyInv, UrgencyIsFresh
<1>5. ~ CreateThread(t) /\ ~ StartTask(t) =>
        /\ UNCHANGED <<live, created, current, needResched>>
        /\ \A u \in live : u # t => status'[u] \in {status[u], "RUNNING", "FINISHED"}
  BY InstructionMarks
<1>. QED
  BY <1>2, <1>3, <1>4, <1>5

LEMMA UrgencySchedule == ASSUME TypeOK, UrgencyInv, Schedule PROVE UrgencyInv'
<1>1. PICK t \in Threads \cup {NoThread} :
        /\ Selects(t)
        /\ current' = t
        /\ needResched' = [u \in Threads |-> StillUrgent(u, t)]
        /\ phase' = IF t = NoThread THEN "arm" ELSE IF t \in started THEN "run" ELSE "panic"
  BY DEF Schedule
<1>2. live' = Kept /\ Kept \subseteq live /\ Kept \subseteq Threads /\ created' = created
  BY KeptThreads DEF Schedule
<1>3. phase' = "run" => current' \in live' /\ ~ needResched'[current']
  <2>. SUFFICES ASSUME phase' = "run" PROVE current' \in live' /\ ~ needResched'[current']
    OBVIOUS
  <2>1. t # NoThread
    BY <1>1
  <2>2. t \in Kept
    BY <1>1, <2>1 DEF Selects, Urgent, Runnable, FirstOf
  <2>. QED
    BY <1>1, <1>2, <2>2 DEF StillUrgent
<1>4. \A u \in Threads : needResched'[u] => needResched[u]
  BY <1>1 DEF StillUrgent
<1>5. ASSUME NEW u \in live', needResched'[u] PROVE status'[u] = "RUNNING"
  <2>1. u \in Kept /\ u \in live /\ u \in Threads /\ needResched[u]
    BY <1>2, <1>4, <1>5
  <2>2. status[u] = "RUNNING"
    BY <2>1 DEF Kept, UrgencyInv, UrgencyIsFresh
  <2>. QED
    BY <2>1, <2>2 DEF Schedule, WakeThreads
<1>. QED
  BY <1>2, <1>3, <1>4, <1>5 DEF UrgencyInv, UrgencyIsFresh

LEMMA UrgencyNext == TypeOK /\ UrgencyInv /\ [Next]_vars => UrgencyInv'
<1>. SUFFICES ASSUME TypeOK, UrgencyInv, [Next]_vars PROVE UrgencyInv'
  OBVIOUS
<1>1. ASSUME NEW t \in Threads, Instruction(t) PROVE UrgencyInv'
  BY <1>1, UrgencyInstruction
<1>2. CASE Schedule
  BY <1>2, UrgencySchedule
<1>3. ASSUME NEW S \in SUBSET live, WakeFirst(S) PROVE UrgencyInv'
  <2>1. /\ phase' = "idle" /\ UNCHANGED <<live, created>> /\ live \subseteq Threads
        /\ Threads \subseteq Nat /\ created \in Nat
    BY <1>3 DEF WakeFirst, machineVars, TypeOK, Threads
  <2>2. /\ \A t \in Threads : needResched'[t] <=> (t \in S \/ needResched[t])
        /\ \A t \in Threads : status'[t] = IF t \in S THEN "RUNNING" ELSE status[t]
    BY <1>3 DEF WakeFirst
  <2>3. \A t \in Threads : t > created => t \notin S
    BY <1>3, <2>1 DEF UrgencyInv
  <2>. QED
    BY <2>1, <2>2, <2>3 DEF UrgencyInv, UrgencyIsFresh
<1>4. ASSUME NEW c \in Channels, Receive(c) PROVE UrgencyInv'
  <2>1. {t \in live : FirstOf(t, {u \in live : id[u] = receiver[c]})} \in SUBSET live
    OBVIOUS
  <2>. QED
    BY <1>3, <1>4, <2>1 DEF Receive
<1>5. ASSUME NEW p \in Ports, PortInterrupt(p) PROVE UrgencyInv'
  <2>1. BySem(p + 1) \in SUBSET live
    BY DEF BySem
  <2>. QED
    BY <1>3, <1>5, <2>1 DEF PortInterrupt
<1>6. CASE NothingLive \/ Arm \/ Resume \/ Tick \/ UNCHANGED vars
  <2>1. UNCHANGED <<live, created, current, status, needResched>>
    BY <1>6 DEF NothingLive, Arm, Resume, Tick, machineVars, vars
  <2>2. phase' = "run" => phase = "run"
    BY <1>6 DEF NothingLive, Arm, Resume, Tick, vars
  <2>. QED
    BY <2>1, <2>2 DEF UrgencyInv, UrgencyIsFresh
<1>. QED
  BY <1>1, <1>2, <1>4, <1>5, <1>6 DEF Next

\* No stale mark ever jumps the queue of the scheduler.
THEOREM MarksAreFresh == Spec => []UrgencyIsFresh
<1>1. Init => TypeOK /\ UrgencyInv
  BY TypeInit, UrgencyInit
<1>2. TypeOK /\ UrgencyInv /\ [Next]_vars => (TypeOK /\ UrgencyInv)'
  BY TypeNext, UrgencyNext
<1>3. UrgencyInv => UrgencyIsFresh
  BY DEF UrgencyInv
<1>. QED
  BY <1>1, <1>2, <1>3, PTL DEF Spec

-----------------------------------------------------------------------------
\* The end of a sleep.

LEMMA SleepStep ==
  ASSUME TypeOK, ListInv, [Next]_vars,
         NEW t \in live, status[t] = "SLEEPING", status'[t] = "RUNNING"
  PROVE  scheduleTime[t] <= now \/ phase = "idle" \/ semId[t] # 0
<1>1. status \in [Threads -> Statuses] /\ live \subseteq Threads
  BY DEF TypeOK
<1>2. ASSUME NEW u \in Threads, NEW s \in Semaphores, WakeupWaitingThread(u, s)
      PROVE  semId[t] # 0
  <2>1. PICK v \in BySem(s) : status' = [status EXCEPT ![v] = "RUNNING"]
    BY <1>2 DEF WakeupWaitingThread
  <2>2. t = v
    BY <1>1, <2>1
  <2>. QED
    BY <2>2, ConstantsAssumption DEF BySem
<1>3. ASSUME NEW u \in Threads, Instruction(u),
             ~ (\E s \in Semaphores : WakeupWaitingThread(u, s))
      PROVE  FALSE
  <2>1. ASSUME NEW o \in Objects, MonitorEnter(u, o) \/ MonitorExit(u, o) \/ Notify(u, o)
        PROVE  FALSE
    BY <1>1, <2>1 DEF MonitorEnter, MonitorExit, Notify, Waiters
  <2>2. ASSUME \/ \E o \in Objects, d \in Timeouts : Wait(u, o, d)
               \/ \E d \in Delays : Sleep(u, d)
               \/ EndQuantum(u) \/ Finish(u) \/ WaitForMessage(u) \/ CreateThread(u)
               \/ \E s \in Semaphores : WaitForSemaphore(u, s)
               \/ \E p \in Ports : WaitForInterrupt(u, p)
               \/ \E c \in Channels : OpenChannel(u, c)
        PROVE  FALSE
    BY <1>1, <2>2 DEF Wait, Sleep, EndQuantum, Finish, WaitForMessage, CreateThread,
       WaitForSemaphore, WaitForInterrupt, OpenChannel
  <2>3. ASSUME \/ \E v \in live : StartThread(u, v)
               \/ \E S \in SUBSET TaskThreads : StopTask(u, S)
        PROVE  FALSE
    BY <1>1, <2>3 DEF StartThread, StopTask
  <2>4. ~ StartTask(u)
    <3>1. t # created + 1
      BY <1>1 DEF ListInv, TypeOK, Threads
    <3>. QED
      BY <1>1, <3>1 DEF StartTask
  <2>. QED
    BY <1>3, <2>1, <2>2, <2>3, <2>4 DEF Instruction
<1>4. CASE Schedule
  <2>1. t \in Runnable
    BY <1>1, <1>4 DEF Schedule, WakeThreads
  <2>. QED
    BY <2>1 DEF Runnable, SleepOver, TimedOut, Granted
<1>5. CASE (\E c \in Channels : Receive(c)) \/ (\E p \in Ports : PortInterrupt(p))
  BY <1>5 DEF Receive, PortInterrupt, WakeFirst
<1>6. CASE NothingLive \/ Arm \/ Resume \/ Tick \/ UNCHANGED vars
  BY <1>6 DEF NothingLive, Arm, Resume, Tick, vars
<1>. QED
  BY <1>2, <1>3, <1>4, <1>5, <1>6 DEF Next

\* Thread.sleep ends before its time only by a callback, which comes while the process has
\* yielded, or through a semaphore id left in the thread.
THEOREM SleepsAreKept == Spec => SleepEndsInTime
<1>1. TypeOK /\ ListInv /\ [Next]_vars =>
        [\A t \in live : status[t] = "SLEEPING" /\ status'[t] = "RUNNING" =>
           scheduleTime[t] <= now \/ phase = "idle" \/ semId[t] # 0]_vars
  BY SleepStep
<1>. QED
  BY <1>1, ListCorrect, PTL DEF Spec, SleepEndsInTime
-----------------------------------------------------------------------------
\* waiting_threads.

Entered(o) == {t \in Threads : entering[t] = o}

\* A thread stands in the MONITORENTER it is blocked in until the scheduler grants it the
\* monitor or somebody else sets it running; only stopping it leaves it there.
EntryInv ==
  /\ \A t \in Threads : status[t] = "BLOCKED_FOR_MONITOR" =>
       entering[t] = monitorObject[t] /\ entering[t] \in Objects
  /\ \A t \in Threads : entering[t] # NoObject => status[t] \in {"BLOCKED_FOR_MONITOR", "FINISHED"}
  /\ \A t \in Threads : t > created => entering[t] = NoObject
  /\ phase = "run" => entering[current] = NoObject

\* waiting_threads is the number of threads in the MONITORENTER, stopped ones included,
\* and of those that left it without a grant, which nobody takes off.
WaitingIs(o) == forced[o] <= MaxForced /\ waiting[o] = Cardinality(Entered(o)) + forced[o]

WaitingInv == EntryInv /\ \A o \in Objects : WaitingIs(o)

\* The condition under which the byte does not wrap.
WaitingFits == MaxThreads + MaxForced <= 255

LEMMA AtMostAll ==
  ASSUME NEW S, S \subseteq Threads PROVE Cardinality(S) <= MaxThreads
<1>1. MaxThreads \in Int /\ 1 \in Int /\ MaxThreads >= 1
  BY ConstantsAssumption
<1>2. IsFiniteSet(1 .. MaxThreads) /\ Cardinality(1 .. MaxThreads) = MaxThreads
  BY <1>1, FS_Interval
<1>3. S \in SUBSET (1 .. MaxThreads)
  BY DEF Threads
<1>4. Cardinality(S) <= Cardinality(1 .. MaxThreads)
  BY <1>2, <1>3, FS_Subset
<1>. QED
  BY <1>2, <1>4

LEMMA EnteredTypes ==
  ASSUME TypeOK, NEW o \in Objects
  PROVE  /\ Entered(o) \subseteq Threads /\ IsFiniteSet(Entered(o))
         /\ Cardinality(Entered(o)) \in Nat /\ Cardinality(Entered(o)) <= MaxThreads
         /\ forced[o] \in Nat /\ MaxForced \in Nat /\ MaxThreads \in Nat
         /\ waiting[o] \in 0 .. 255 /\ o # NoObject
<1>1. /\ forced[o] \in Nat /\ MaxForced \in Nat /\ MaxThreads \in Nat
      /\ waiting[o] \in 0 .. 255 /\ o # NoObject
  BY ConstantsAssumption DEF TypeOK
<1>2. Entered(o) \subseteq Threads
  BY DEF Entered
<1>. QED
  BY <1>1, <1>2, ThreadsAreCounted, AtMostAll

LEMMA WaitingInit == Init => WaitingInv
<1>. SUFFICES ASSUME Init PROVE WaitingInv
  OBVIOUS
<1>1. /\ phase = "top" /\ \A t \in Threads : entering[t] = NoObject
      /\ \A t \in Threads : status[t] # "BLOCKED_FOR_MONITOR"
  BY DEF Init
<1>2. ASSUME NEW o \in Objects PROVE WaitingIs(o)
  <2>1. Entered(o) = {}
    BY <1>1, ConstantsAssumption DEF Entered
  <2>. QED
    BY <2>1, FS_EmptySet, ConstantsAssumption DEF WaitingIs, Init
<1>. QED
  BY <1>1, <1>2 DEF WaitingInv, EntryInv

LEMMA WaitingUnchanged ==
  ASSUME NEW o \in Objects, WaitingIs(o), UNCHANGED <<waiting, entering, forced>>
  PROVE  WaitingIs(o)'
BY DEF WaitingIs, Entered

\* Who passes without a grant leaves the MONITORENTER and stays in waiting_threads.
LEMMA WaitingPass ==
  ASSUME TypeOK, TypeOK', NEW S \in SUBSET Threads, PassMonitors(S), waiting' = waiting,
         NEW o \in Objects, WaitingIs(o)
  PROVE  WaitingIs(o)'
<1>. DEFINE P == {t \in S : entering[t] = o}
<1>1. P = Entered(o) \cap P /\ P \subseteq Threads
  BY DEF Entered
<1>2. Entered(o)' = Entered(o) \ P
  BY EnteredTypes DEF Entered, PassMonitors
<1>3. forced'[o] = forced[o] + Cardinality(P) /\ forced'[o] <= MaxForced
  BY DEF PassMonitors
<1>4. Cardinality(Entered(o) \ P) = Cardinality(Entered(o)) - Cardinality(P)
  BY <1>1, EnteredTypes, FS_Difference
<1>5. Cardinality(P) \in Nat
  BY <1>1, ThreadsAreCounted
<1>6. Cardinality(Entered(o))' = Cardinality(Entered(o)) - Cardinality(P)
  BY <1>2, <1>4
<1>. QED
  BY <1>3, <1>5, <1>6, EnteredTypes DEF WaitingIs

LEMMA EntryPass ==
  ASSUME TypeOK, EntryInv, NEW S \in SUBSET Threads, PassMonitors(S),
         UNCHANGED <<created, current, phase, monitorObject>>,
         phase = "run" => current \in Threads,
         \A t \in Threads : status'[t] = IF t \in S THEN "RUNNING" ELSE status[t]
  PROVE  EntryInv'
<1>1. \A t \in Threads : entering'[t] = IF t \in S THEN NoObject ELSE entering[t]
  BY DEF PassMonitors
<1>2. phase = "run" => entering'[current] = NoObject
  BY <1>1 DEF EntryInv
<1>. QED
  BY <1>1, <1>2 DEF EntryInv

LEMMA WaitingEnter ==
  ASSUME WaitingFits, TypeOK, TypeOK', UrgencyInv, WaitingInv, NEW t \in Threads,
         NEW p \in Objects, MonitorEnter(t, p)
  PROVE  WaitingInv'
<1>1. /\ t = current /\ phase = "run" /\ entering[t] = NoObject
      /\ t <= created /\ UNCHANGED <<created, current, forced>>
  BY DEF MonitorEnter, Executes, machineVars, WaitingInv, EntryInv, UrgencyInv
<1>2. CASE UNCHANGED <<phase, status, monitorObject, waiting, entering>>
  BY <1>1, <1>2, WaitingUnchanged DEF WaitingInv, EntryInv
<1>3. CASE /\ status' = [status EXCEPT ![t] = "BLOCKED_FOR_MONITOR"]
           /\ monitorObject' = [monitorObject EXCEPT ![t] = p]
           /\ waiting' = [waiting EXCEPT ![p] = U8(@ + 1)]
           /\ entering' = [entering EXCEPT ![t] = p]
           /\ BreakExecution
  <2>1. /\ \A u \in Threads : u # t => /\ status'[u] = status[u] /\ entering'[u] = entering[u]
                                       /\ monitorObject'[u] = monitorObject[u]
        /\ status'[t] = "BLOCKED_FOR_MONITOR" /\ entering'[t] = p /\ monitorObject'[t] = p
        /\ phase' = "schedule" /\ created \in Nat /\ t \in Nat
    BY <1>3 DEF TypeOK, BreakExecution, Threads
  <2>2. EntryInv'
    <3>1. EntryInv
      BY DEF WaitingInv
    <3>2. ASSUME NEW u \in Threads, u > created' PROVE entering'[u] = NoObject
      BY <1>1, <2>1, <3>1, <3>2 DEF EntryInv
    <3>. QED
      BY <1>1, <2>1, <3>1, <3>2 DEF EntryInv
  <2>3. ASSUME NEW o \in Objects PROVE WaitingIs(o)'
    <3>1. CASE o = p
      <4>1. t \notin Entered(o) /\ Entered(o)' = Entered(o) \cup {t}
        BY <1>1, <2>1, <3>1, EnteredTypes DEF Entered
      <4>2. Cardinality(Entered(o) \cup {t}) = Cardinality(Entered(o)) + 1
        BY <4>1, EnteredTypes, FS_AddElement
      <4>3. Cardinality(Entered(o) \cup {t}) <= MaxThreads
        BY EnteredTypes, AtMostAll
      <4>4. waiting[o] = Cardinality(Entered(o)) + forced[o] /\ forced[o] <= MaxForced
        BY DEF WaitingInv, WaitingIs
      <4>5. waiting[o] + 1 \in 0 .. 255
        BY <4>2, <4>3, <4>4, EnteredTypes DEF WaitingFits
      <4>6. waiting'[o] = waiting[o] + 1
        BY <1>3, <3>1, <4>5, U8Fits DEF TypeOK
      <4>. QED
        BY <1>1, <4>1, <4>2, <4>4, <4>6, EnteredTypes DEF WaitingIs
    <3>2. CASE o # p
      <4>1. Entered(o)' = Entered(o)
        BY <1>1, <2>1, <3>2, EnteredTypes DEF Entered
      <4>2. waiting'[o] = waiting[o]
        BY <1>3, <3>2 DEF TypeOK
      <4>. QED
        BY <1>1, <4>1, <4>2 DEF WaitingInv, WaitingIs
    <3>. QED
      BY <3>1, <3>2
  <2>. QED
    BY <2>2, <2>3 DEF WaitingInv
<1>. QED
  BY <1>2, <1>3 DEF MonitorEnter

LEMMA WaitingSchedule ==
  ASSUME TypeOK, TypeOK', WaitingInv, Schedule
  PROVE  WaitingInv'
<1>1. /\ \A t \in Threads : status'[t] = IF t \in Runnable THEN "RUNNING" ELSE status[t]
      /\ \A t \in Threads : monitorObject'[t] =
           IF t \in Kept /\ TimedOut(t) THEN NoObject ELSE monitorObject[t]
      /\ \A t \in Threads : entering'[t] =
           IF t \in Kept /\ Granted(t) THEN NoObject ELSE entering[t]
      /\ UNCHANGED <<created, forced>>
      /\ Kept \subseteq Threads
  BY KeptThreads DEF Schedule, WakeThreads
<1>2. /\ \A t \in Threads : status[t] = "BLOCKED_FOR_MONITOR" =>
           entering[t] = monitorObject[t] /\ entering[t] \in Objects
      /\ \A t \in Threads : entering[t] # NoObject => status[t] \in {"BLOCKED_FOR_MONITOR", "FINISHED"}
      /\ \A t \in Threads : t > created => entering[t] = NoObject
  BY DEF WaitingInv, EntryInv
<1>3. ASSUME NEW t \in Threads, t \in Runnable PROVE entering'[t] = NoObject
  <2>1. t \in Kept /\ status[t] # "FINISHED"
    BY <1>3 DEF Runnable, Kept
  <2>2. CASE Granted(t)
    BY <1>1, <2>1, <2>2
  <2>3. CASE ~ Granted(t)
    <3>1. status[t] # "BLOCKED_FOR_MONITOR"
      BY <1>3, <2>3 DEF Runnable, SleepOver, TimedOut
    <3>. QED
      BY <1>1, <1>2, <2>1, <3>1
  <2>. QED
    BY <2>2, <2>3
<1>4. phase' = "run" => entering'[current'] = NoObject
  <2>1. PICK t \in Threads \cup {NoThread} :
          /\ Selects(t) /\ current' = t
          /\ phase' = IF t = NoThread THEN "arm" ELSE IF t \in started THEN "run" ELSE "panic"
    BY DEF Schedule
  <2>2. phase' = "run" => t \in Threads /\ t \in Runnable
    BY <2>1 DEF Selects, Urgent, FirstOf
  <2>. QED
    BY <1>3, <2>1, <2>2
<1>5. EntryInv'
  <2>1. ASSUME NEW t \in Threads, status'[t] = "BLOCKED_FOR_MONITOR"
        PROVE  entering'[t] = monitorObject'[t] /\ entering'[t] \in Objects
    <3>1. status[t] = "BLOCKED_FOR_MONITOR" /\ t \notin Runnable
      BY <1>1, <2>1
    <3>2. ~ TimedOut(t) /\ ~ (t \in Kept /\ Granted(t))
      BY <3>1 DEF TimedOut, Runnable
    <3>. QED
      BY <1>1, <1>2, <3>1, <3>2
  <2>2. ASSUME NEW t \in Threads, entering'[t] # NoObject
        PROVE  status'[t] \in {"BLOCKED_FOR_MONITOR", "FINISHED"} /\ ~ t > created'
    BY <1>1, <1>2, <1>3, <2>2
  <2>. QED
    BY <1>4, <2>1, <2>2 DEF EntryInv
<1>6. ASSUME NEW o \in Objects PROVE WaitingIs(o)'
  <2>0. WaitingIs(o) /\ o # NoObject
    BY EnteredTypes DEF WaitingInv
  <2>1. \A t \in Threads : t \in Kept /\ Granted(t) /\ entering[t] = o <=> t \in Grantees(o)
    BY <1>2 DEF Grantees, Granted
  <2>2. Entered(o)' = Entered(o) \ Grantees(o)
    BY <1>1, <2>0, <2>1 DEF Entered
  <2>3. CASE Grantees(o) = {}
    <3>1. waiting'[o] = waiting[o]
      BY <2>3 DEF Schedule, WakeThreads
    <3>2. Entered(o)' = Entered(o)
      BY <2>2, <2>3
    <3>. QED
      BY <1>1, <2>0, <3>1, <3>2 DEF WaitingIs
  <2>4. CASE Grantees(o) # {}
    <3>1. PICK t \in Grantees(o) : TRUE
      BY <2>4
    <3>2. Grantees(o) = {t} /\ t \in Entered(o)
      BY <1>1, <2>1, <3>1, OneGrantee DEF Entered, Grantees
    <3>3. Cardinality(Entered(o) \ {t}) = Cardinality(Entered(o)) - 1
      BY <3>2, EnteredTypes, FS_RemoveElement
    <3>4. Cardinality(Entered(o) \ {t}) \in Nat
      BY EnteredTypes, ThreadsAreCounted
    <3>5. waiting[o] - 1 \in 0 .. 255
      BY <2>0, <3>3, <3>4, EnteredTypes DEF WaitingIs
    <3>6. waiting'[o] = waiting[o] - 1
      BY <2>4, <3>5, U8Fits DEF Schedule, WakeThreads, WaitingLess
    <3>. QED
      BY <1>1, <2>0, <2>2, <3>2, <3>3, <3>6, EnteredTypes DEF WaitingIs
  <2>. QED
    BY <2>3, <2>4
<1>. QED
  BY <1>5, <1>6 DEF WaitingInv

LEMMA WaitingNext ==
  ASSUME WaitingFits
  PROVE  TypeOK /\ UrgencyInv /\ WaitingInv /\ [Next]_vars => WaitingInv'
<1>. SUFFICES ASSUME TypeOK, UrgencyInv, WaitingInv, [Next]_vars PROVE WaitingInv'
  OBVIOUS
<1>0. TypeOK'
  BY TypeNext
<1>1. ASSUME UNCHANGED <<waiting, entering, forced>>, EntryInv' PROVE WaitingInv'
  BY <1>1, WaitingUnchanged DEF WaitingInv
<1>2. ASSUME NEW S \in SUBSET Threads, PassMonitors(S), waiting' = waiting,
             UNCHANGED <<created, current, phase, monitorObject>>,
             \A t \in Threads : status'[t] = IF t \in S THEN "RUNNING" ELSE status[t]
      PROVE  WaitingInv'
  <2>1. phase = "run" => current \in Threads
    BY DEF UrgencyInv, TypeOK
  <2>. QED
    BY <1>0, <1>2, <2>1, WaitingPass, EntryPass DEF WaitingInv
<1>3. ASSUME NEW t \in Threads, Instruction(t) PROVE WaitingInv'
  <2>1. /\ t = current /\ phase = "run" /\ entering[t] = NoObject
        /\ \A u \in live : u <= created
        /\ live \subseteq Threads /\ created \in Nat /\ Threads \subseteq Nat
    BY <1>3, InstructionPhase DEF WaitingInv, EntryInv, UrgencyInv, TypeOK, Threads
  <2>2. CASE \E p \in Objects : MonitorEnter(t, p)
    BY <1>0, <2>2, WaitingEnter
  <2>3. CASE \E s \in Semaphores : WakeupWaitingThread(t, s)
    <3>1. PICK s \in Semaphores : WakeupWaitingThread(t, s)
      BY <2>3
    <3>2. PICK u \in BySem(s) : PassMonitors({u}) /\ status' = [status EXCEPT ![u] = "RUNNING"]
      BY <3>1 DEF WakeupWaitingThread
    <3>3. u \in Threads /\ \A v \in Threads : status'[v] = IF v \in {u} THEN "RUNNING" ELSE status[v]
      BY <2>1, <3>2 DEF BySem, TypeOK
    <3>4. UNCHANGED <<created, current, phase, monitorObject>> /\ waiting' = waiting
      BY <3>1 DEF WakeupWaitingThread, machineVars, monitorVars
    <3>. QED
      BY <1>2, <3>2, <3>3, <3>4
  <2>4. CASE CreateThread(t) \/ StartTask(t)
    <3>1. /\ UNCHANGED <<waiting, entering, forced, monitorObject, phase, current>>
          /\ created' = created + 1
      BY <2>4 DEF CreateThread, StartTask, AddThread, monitorVars, programVars
    <3>2. \A u \in Threads : status'[u] # status[u] => u > created /\ status'[u] = "RUNNING"
      BY <2>1, <2>4 DEF CreateThread, StartTask, TypeOK
    <3>3. EntryInv'
      BY <2>1, <3>1, <3>2 DEF EntryInv, WaitingInv
    <3>. QED
      BY <1>1, <3>1, <3>3
  <2>5. CASE \E u \in live : StartThread(t, u)
    <3>1. PICK u \in live : StartThread(t, u)
      BY <2>5
    <3>2. /\ UNCHANGED <<waiting, entering, forced, monitorObject, phase, current, created>>
          /\ \A v \in Threads : status'[v] # status[v] => status[v] = "CREATED" /\ status'[v] = "RUNNING"
      BY <3>1 DEF StartThread, TypeOK, monitorVars, programVars
    <3>3. EntryInv'
      BY <3>2 DEF EntryInv, WaitingInv
    <3>. QED
      BY <1>1, <3>2, <3>3
  <2>6. CASE \E S \in SUBSET TaskThreads : StopTask(t, S)
    <3>1. /\ UNCHANGED <<waiting, entering, forced, monitorObject, phase, current, created>>
          /\ \A v \in Threads : status'[v] # status[v] => status'[v] = "FINISHED"
      BY <2>6 DEF StopTask, machineVars, monitorVars, programVars
    <3>2. EntryInv'
      BY <3>1 DEF EntryInv, WaitingInv
    <3>. QED
      BY <1>1, <3>1, <3>2
  <2>7. CASE \E o \in Objects : Notify(t, o)
    <3>1. PICK o \in Objects : Notify(t, o)
      BY <2>7
    <3>2. /\ UNCHANGED <<waiting, entering, forced, phase, current, created>>
          /\ \A v \in Threads :
               \/ status'[v] = status[v] /\ monitorObject'[v] = monitorObject[v]
               \/ status[v] = "WAITING_FOR_MONITOR" /\ status'[v] = "RUNNING"
      BY <3>1 DEF Notify, Waiters, TypeOK, machineVars, monitorVars, programVars
    <3>3. EntryInv'
      BY <3>2 DEF EntryInv, WaitingInv
    <3>. QED
      BY <1>1, <3>2, <3>3
  <2>8. CASE \/ \E o \in Objects : MonitorExit(t, o)
             \/ \E o \in Objects, d \in Timeouts : Wait(t, o, d)
             \/ \E d \in Delays : Sleep(t, d)
             \/ EndQuantum(t) \/ Finish(t) \/ WaitForMessage(t)
             \/ \E s \in Semaphores : WaitForSemaphore(t, s)
             \/ \E p \in Ports : WaitForInterrupt(t, p)
             \/ \E c \in Channels : OpenChannel(t, c)
    <3>1. /\ UNCHANGED <<waiting, entering, forced, current, created>>
          /\ \A v \in Threads : v # t => status'[v] = status[v] /\ monitorObject'[v] = monitorObject[v]
          /\ status'[t] = status[t] \/ status'[t] # "BLOCKED_FOR_MONITOR"
      BY <2>8 DEF MonitorExit, Wait, Sleep, EndQuantum, Finish, WaitForMessage,
         WaitForSemaphore, WaitForInterrupt, OpenChannel, TypeOK, machineVars,
         monitorVars, programVars
    <3>2. status[t] # "BLOCKED_FOR_MONITOR"
      BY <2>1, ConstantsAssumption DEF EntryInv, WaitingInv
    <3>3. EntryInv'
      BY <2>1, <3>1, <3>2 DEF EntryInv, WaitingInv
    <3>. QED
      BY <1>1, <3>1, <3>3
  <2>. QED
    BY <1>3, <2>2, <2>3, <2>4, <2>5, <2>6, <2>7, <2>8 DEF Instruction
<1>4. CASE Schedule
  BY <1>0, <1>4, WaitingSchedule
<1>5. ASSUME NEW S \in SUBSET Threads, WakeFirst(S) PROVE WaitingInv'
  BY <1>2, <1>5 DEF WakeFirst, machineVars, monitorVars
<1>6. CASE \E c \in Channels : Receive(c)
  BY <1>5, <1>6 DEF Receive, TypeOK
<1>7. CASE \E p \in Ports : PortInterrupt(p)
  BY <1>5, <1>7 DEF PortInterrupt, BySem, TypeOK
<1>8. CASE NothingLive \/ Arm \/ Resume \/ Tick \/ UNCHANGED vars
  <2>1. UNCHANGED <<waiting, entering, forced, current, created, status, monitorObject>>
    BY <1>8 DEF NothingLive, Arm, Resume, Tick, machineVars, monitorVars, programVars, vars
  <2>2. phase' = "run" => phase = "run"
    BY <1>8 DEF NothingLive, Arm, Resume, Tick, vars
  <2>3. EntryInv'
    BY <2>1, <2>2 DEF EntryInv, WaitingInv
  <2>. QED
    BY <1>1, <2>1, <2>3
<1>. QED
  BY <1>3, <1>4, <1>6, <1>7, <1>8 DEF Next

\* As long as the byte does not wrap, the scheduler never finds fewer in waiting_threads
\* than there are threads blocked, and dj_vm_removeMonitor takes no monitor from them.
THEOREM BlockedAreRemembered ==
  ASSUME WaitingFits PROVE Spec => []BlockedAreCounted
<1>1. Init => TypeOK /\ UrgencyInv /\ WaitingInv
  BY TypeInit, UrgencyInit, WaitingInit
<1>2. TypeOK /\ UrgencyInv /\ WaitingInv /\ [Next]_vars => (TypeOK /\ UrgencyInv /\ WaitingInv)'
  BY TypeNext, UrgencyNext, WaitingNext
<1>3. TypeOK /\ WaitingInv => BlockedAreCounted
  <2>. SUFFICES ASSUME TypeOK, WaitingInv, NEW o \in Objects
                PROVE  waiting[o] >= Cardinality({t \in live : /\ status[t] = "BLOCKED_FOR_MONITOR"
                                                               /\ monitorObject[t] = o})
    BY DEF BlockedAreCounted
  <2>. DEFINE B == {t \in live : status[t] = "BLOCKED_FOR_MONITOR" /\ monitorObject[t] = o}
  <2>1. B \in SUBSET Entered(o)
    BY DEF TypeOK, WaitingInv, EntryInv, Entered
  <2>2. Cardinality(B) <= Cardinality(Entered(o)) /\ Cardinality(B) \in Nat
    BY <2>1, EnteredTypes, FS_Subset, FS_CardinalityType
  <2>. QED
    BY <2>2, EnteredTypes DEF WaitingInv, WaitingIs
<1>. QED
  BY <1>1, <1>2, <1>3, PTL DEF Spec

-----------------------------------------------------------------------------
\* The ages.

\* What the scheduler does to the ages: it chooses c, which is urgent if a thread is.
LEMMA ScheduleAges ==
  ASSUME TypeOK, Schedule
  PROVE  \E c \in Threads \cup {NoThread} :
           /\ Selects(c)
           /\ current' = c /\ live' = Kept
           /\ \A u \in Threads : priority'[u] = IF u = c THEN 0 ELSE Ageing(u)
           /\ \A u \in Threads : needResched'[u] = (needResched[u] /\ u # c)
           /\ Kept \subseteq live /\ Kept \subseteq Threads
           /\ phase' = IF c = NoThread THEN "arm" ELSE IF c \in started THEN "run" ELSE "panic"
BY KeptThreads DEF Schedule, StillUrgent

\* An instruction and all but the scheduler leave the ages and the order of the threads, as a
\* new thread is the youngest and the last.
NewIsYoung == \A u \in Threads : u > created => priority[u] = 0
Listed == \A u \in live : u <= created

LEMMA AgesTyped ==
  ASSUME TypeOK
  PROVE  /\ live \subseteq Threads /\ Threads \subseteq Nat /\ created \in Nat
         /\ \A u \in Threads : priority[u] \in 0 .. 255
         /\ Runnable \subseteq Kept /\ Kept \subseteq live
<1>1. live \subseteq Threads /\ created \in Threads /\ priority \in [Threads -> 0 .. 255]
  BY DEF TypeOK
<1>2. Threads \subseteq Nat
  BY DEF Threads
<1>3. \A u \in Threads : priority[u] \in 0 .. 255
  BY <1>1
<1>4. Runnable \subseteq Kept /\ Kept \subseteq live
  BY DEF Runnable, Kept
<1>. QED
  BY <1>1, <1>2, <1>3, <1>4

LEMMA CreatedAges ==
  ASSUME TypeOK, NewIsYoung, Listed, priority' = priority,
         \/ live' = live
         \/ live' = live \cup {created + 1} /\ created + 1 \in Threads,
         NEW t \in live
  PROVE  GoesBefore(t)' = GoesBefore(t)
<1>1. /\ live \subseteq Threads /\ Threads \subseteq Nat /\ created \in Nat
      /\ \A u \in Threads : priority[u] \in Nat
  BY AgesTyped
<1>2. CASE live' = live
  BY <1>2 DEF GoesBefore
<1>3. CASE live' = live \cup {created + 1} /\ created + 1 \in Threads
  <2>1. priority[created + 1] = 0 /\ t < created + 1
    BY <1>1, <1>3 DEF NewIsYoung, Listed
  <2>2. priority[t] \in Nat
    BY <1>1
  <2>3. ~(priority[created + 1] > priority[t] \/ (priority[created + 1] = priority[t] /\ created + 1 < t))
    BY <1>1, <2>1, <2>2
  <2>4. \A u : u \in live' <=> (u \in live \/ u = created + 1)
    BY <1>3
  <2>5. /\ GoesBefore(t) = {u \in live : priority[u] > priority[t] \/ (priority[u] = priority[t] /\ u < t)}
        /\ GoesBefore(t)' = {u \in live' : priority[u] > priority[t] \/ (priority[u] = priority[t] /\ u < t)}
    BY DEF GoesBefore
  <2>. QED
    BY <2>3, <2>4, <2>5
<1>. QED
  BY <1>2, <1>3

LEMMA OthersKeepAges ==
  ASSUME TypeOK, [Next]_vars, ~Schedule
  PROVE  /\ priority' = priority
         /\ \/ live' = live /\ created' = created
            \/ /\ live' = live \cup {created + 1} /\ created + 1 \in Threads
               /\ created' = created + 1
<1>. USE DEF machineVars
<1>1. ASSUME NEW t \in Threads, Instruction(t), ~CreateThread(t), ~StartTask(t)
      PROVE  priority' = priority /\ live' = live /\ created' = created
  <2>1. ASSUME NEW o \in Objects, MonitorEnter(t, o) \/ MonitorExit(t, o) \/ Notify(t, o)
        PROVE  priority' = priority /\ live' = live /\ created' = created
    BY <2>1 DEF MonitorEnter, MonitorExit, Notify
  <2>2. ASSUME \/ \E o \in Objects, d \in Timeouts : Wait(t, o, d)
               \/ \E d \in Delays : Sleep(t, d)
               \/ EndQuantum(t) \/ Finish(t) \/ WaitForMessage(t)
               \/ \E s \in Semaphores : WaitForSemaphore(t, s)
               \/ \E p \in Ports : WaitForInterrupt(t, p)
               \/ \E c \in Channels : OpenChannel(t, c)
        PROVE  priority' = priority /\ live' = live /\ created' = created
    BY <2>2 DEF Wait, Sleep, EndQuantum, Finish, WaitForMessage, WaitForSemaphore,
                WaitForInterrupt, OpenChannel
  <2>3. ASSUME \/ \E u \in live : StartThread(t, u)
               \/ \E S \in SUBSET TaskThreads : StopTask(t, S)
               \/ \E s \in Semaphores : WakeupWaitingThread(t, s)
        PROVE  priority' = priority /\ live' = live /\ created' = created
    BY <2>3 DEF StartThread, StopTask, WakeupWaitingThread
  <2>. QED
    BY <1>1, <2>1, <2>2, <2>3 DEF Instruction
<1>2. ASSUME NEW t \in Threads, CreateThread(t) \/ StartTask(t)
      PROVE  /\ priority' = priority /\ created' = created + 1
             /\ live' = live \cup {created + 1} /\ created + 1 \in Threads
  BY <1>2 DEF CreateThread, StartTask, AddThread, Threads, TypeOK
<1>3. CASE \/ NothingLive \/ Arm \/ Resume \/ Tick \/ UNCHANGED vars
           \/ (\E c \in Channels : Receive(c)) \/ (\E p \in Ports : PortInterrupt(p))
  BY <1>3 DEF NothingLive, Arm, Resume, Tick, vars, Receive, PortInterrupt, WakeFirst
<1>. QED
  BY <1>1, <1>2, <1>3 DEF Next

\* A schedule without urgent threads takes the chosen one from before all others.
LEMMA TurnSchedule ==
  ASSUME TypeOK, NEW c \in Threads, Selects(c), live' = Kept, Urgent = {},
         \A u \in Threads : priority'[u] = IF u = c THEN 0 ELSE Ageing(u),
         NEW t \in Runnable, t # c, priority[t] < 255
  PROVE  Shrinks(GoesBefore(t), GoesBefore(t)')
<1>1. /\ Runnable \subseteq Kept /\ Kept \subseteq live /\ live \subseteq Threads /\ Threads \subseteq Nat
      /\ \A u \in Threads : priority[u] \in 0 .. 255
  BY AgesTyped
<1>2. c \in Runnable
  BY <1>1 DEF Selects, FirstOf, NoThread, Threads
<1>3. \A u \in Runnable : Ageing(u) = U8(priority[u] + 1)
  BY DEF Ageing, Aged
<1>4. \A u \in Threads \ Runnable : Ageing(u) = priority[u]
  BY DEF Ageing
<1>5. \A n \in 0 .. 255 : U8(n + 1) \in 0 .. n + 1 /\ (n < 255 => U8(n + 1) = n + 1)
  BY DEF U8
<1>6. priority'[t] = priority[t] + 1 /\ Ageing(t) = priority[t] + 1
  <2>1. priority[t] \in 0 .. 255 /\ t \in Threads
    BY <1>1
  <2>2. U8(priority[t] + 1) = priority[t] + 1
    BY <1>5, <2>1
  <2>. QED
    BY <1>3, <2>1, <2>2
<1>7. c \in GoesBefore(t)
  <2>1. Ageing(t) < Ageing(c) \/ (Ageing(t) = Ageing(c) /\ c <= t)
    BY <1>2 DEF Selects, FirstOf, NoThread, Threads
  <2>2. Ageing(c) \in 0 .. priority[c] + 1 /\ priority[c] \in Nat /\ priority[t] \in Nat
    <3>1. priority[c] \in 0 .. 255 /\ priority[t] \in 0 .. 255
      BY <1>1
    <3>2. U8(priority[c] + 1) \in 0 .. priority[c] + 1
      BY <1>5, <3>1
    <3>. QED
      BY <1>2, <1>3, <3>1, <3>2
  <2>3. priority[c] > priority[t] \/ (priority[c] = priority[t] /\ c < t)
    <3>1. CASE Ageing(t) < Ageing(c)
      BY <1>6, <2>2, <3>1
    <3>2. CASE Ageing(t) = Ageing(c) /\ c <= t
      BY <1>1, <1>6, <2>2, <3>2
    <3>. QED
      BY <2>1, <3>1, <3>2
  <2>. QED
    BY <1>1, <1>2, <2>3 DEF GoesBefore
<1>8. c \notin GoesBefore(t)'
  <2>1. priority'[c] = 0 /\ priority[t] \in Nat
    BY <1>1
  <2>. QED
    BY <1>6, <2>1 DEF GoesBefore
<1>9. ASSUME NEW u \in GoesBefore(t)' PROVE u \in GoesBefore(t)
  <2>1. u \in Kept /\ u \in live /\ u \in Threads /\ u # c /\ priority'[u] = Ageing(u)
    BY <1>1, <1>8 DEF GoesBefore
  <2>2. priority'[u] > priority'[t] \/ (priority'[u] = priority'[t] /\ u < t)
    BY DEF GoesBefore
  <2>3. Ageing(u) \in 0 .. priority[u] + 1 /\ priority[u] \in Nat /\ priority[t] \in Nat
    <3>1. priority[u] \in 0 .. 255 /\ priority[t] \in 0 .. 255
      BY <1>1, <2>1
    <3>2. CASE u \in Runnable
      BY <1>3, <1>5, <3>1, <3>2
    <3>3. CASE u \notin Runnable
      BY <1>4, <2>1, <3>1, <3>3
    <3>. QED
      BY <3>2, <3>3
  <2>4. priority[u] > priority[t] \/ (priority[u] = priority[t] /\ u < t)
    <3>1. CASE priority'[u] > priority'[t]
      BY <1>6, <2>1, <2>3, <3>1
    <3>2. CASE priority'[u] = priority'[t] /\ u < t
      BY <1>6, <2>1, <2>3, <3>2
    <3>. QED
      BY <2>2, <3>1, <3>2
  <2>. QED
    BY <2>1, <2>4 DEF GoesBefore
<1>. QED
  BY <1>7, <1>8, <1>9 DEF Shrinks

YoungInv == NewIsYoung /\ Listed

LEMMA YoungNext == TypeOK /\ YoungInv /\ [Next]_vars => YoungInv'
<1>. SUFFICES ASSUME TypeOK, YoungInv, [Next]_vars PROVE YoungInv'
  OBVIOUS
<1>1. /\ live \subseteq Threads /\ Threads \subseteq Nat /\ created \in Nat
      /\ Runnable \subseteq Kept /\ Kept \subseteq live
  BY AgesTyped
<1>2. CASE Schedule
  <2>1. created' = created
    BY <1>2 DEF Schedule
  <2>2. PICK c \in Threads \cup {NoThread} :
          /\ live' = Kept
          /\ \A u \in Threads : priority'[u] = IF u = c THEN 0 ELSE Ageing(u)
    BY <1>2, ScheduleAges
  <2>3. \A u \in Threads : u > created => u \notin Runnable
    BY <1>1 DEF YoungInv, Listed
  <2>4. \A u \in Threads : u > created => Ageing(u) = 0
    BY <2>3 DEF Ageing, YoungInv, NewIsYoung
  <2>5. NewIsYoung'
    BY <2>1, <2>2, <2>4 DEF NewIsYoung
  <2>6. Listed'
    BY <1>1, <2>1, <2>2 DEF YoungInv, Listed
  <2>. QED
    BY <2>5, <2>6 DEF YoungInv
<1>3. CASE ~Schedule
  <2>1. /\ priority' = priority
        /\ created' = created \/ created' = created + 1
        /\ \A u \in live' : u \in live \/ (u = created + 1 /\ created' = created + 1)
    BY <1>3, OthersKeepAges
  <2>2. NewIsYoung'
    BY <1>1, <2>1 DEF YoungInv, NewIsYoung, Threads
  <2>3. \A u \in live : u \in Nat /\ u <= created
    BY <1>1 DEF YoungInv, Listed
  <2>4. ASSUME NEW u \in live' PROVE u <= created'
    <3>1. CASE u \in live
      <4>1. u \in Nat /\ u <= created
        BY <2>3, <3>1
      <4>. QED
        BY <1>1, <2>1, <4>1
    <3>2. CASE u = created + 1 /\ created' = created + 1
      BY <1>1, <3>2
    <3>. QED
      BY <2>1, <3>1, <3>2
  <2>. QED
    BY <2>2, <2>4 DEF YoungInv, Listed
<1>. QED
  BY <1>2, <1>3

LEMMA YoungInit == Init => YoungInv
BY DEF Init, YoungInv, NewIsYoung, Listed, Threads

LEMMA TurnStep ==
  ASSUME TypeOK, YoungInv, [Next]_vars, AgesFit,
         NEW t \in live, status[t] = "RUNNING", WaitsForTurn(t)', Marked' \subseteq Marked
  PROVE  \/ Shrinks(Marked, Marked')
         \/ Shrinks(GoesBefore(t), GoesBefore(t)')
         \/ ~Schedules /\ GoesBefore(t)' = GoesBefore(t)
<1>1. CASE Schedule
  <2>1. PICK c \in Threads \cup {NoThread} :
          /\ Selects(c)
          /\ current' = c /\ live' = Kept
          /\ \A u \in Threads : priority'[u] = IF u = c THEN 0 ELSE Ageing(u)
          /\ \A u \in Threads : needResched'[u] = (needResched[u] /\ u # c)
          /\ Kept \subseteq live /\ Kept \subseteq Threads
    BY <1>1, ScheduleAges
  <2>2. t \in Runnable /\ t # c /\ priority[t] < 255
    BY <2>1 DEF WaitsForTurn, Runnable, AgesFit, Kept
  <2>3. CASE Urgent = {}
    <3>1. c \in Runnable
      BY <2>1, <2>2, <2>3 DEF Selects, FirstOf
    <3>. QED
      BY <2>1, <2>2, <2>3, <3>1, AgesTyped, TurnSchedule
  <2>4. CASE Urgent # {}
    <3>1. c \in Urgent
      BY <2>1, <2>2, <2>4 DEF Selects, FirstOf
    <3>2. c \in Marked /\ c \notin Marked'
      BY <2>1, <3>1 DEF Urgent, Runnable, Marked
    <3>. QED
      BY <3>2 DEF Shrinks
  <2>. QED
    BY <2>3, <2>4
<1>2. CASE ~Schedule
  <2>1. GoesBefore(t)' = GoesBefore(t)
    BY <1>2, OthersKeepAges, CreatedAges DEF YoungInv
  <2>2. ~Schedules
    <3>1. ASSUME NEW u \in Threads, Instruction(u) PROVE ~Schedules
      BY <3>1, InstructionPhase DEF Schedules
    <3>2. CASE \/ NothingLive \/ Arm \/ Resume \/ Tick \/ UNCHANGED vars
               \/ (\E k \in Channels : Receive(k)) \/ (\E p \in Ports : PortInterrupt(p))
      BY <3>2 DEF NothingLive, Arm, Resume, Tick, vars, Receive, PortInterrupt, WakeFirst, Schedules
    <3>. QED
      BY <1>2, <3>1, <3>2 DEF Next
  <2>. QED
    BY <2>1, <2>2
<1>. QED
  BY <1>1, <1>2

\* Ageing is fair: whatever the other threads do, a thread that can run is passed over by
\* finitely many schedules of dj_vm_schedule, unless new marks or a wrapped age intervene.
THEOREM TurnsComeNearer == Spec => TurnComesNearer
<1>1. Init => TypeOK /\ YoungInv
  BY TypeInit, YoungInit
<1>2. TypeOK /\ YoungInv /\ [Next]_vars => (TypeOK /\ YoungInv)'
  BY TypeNext, YoungNext
<1>3. TypeOK /\ YoungInv /\ [Next]_vars =>
        [\A t \in live :
           AgesFit /\ status[t] = "RUNNING" /\ WaitsForTurn(t)' /\ Marked' \subseteq Marked =>
             \/ Shrinks(Marked, Marked')
             \/ Shrinks(GoesBefore(t), GoesBefore(t)')
             \/ ~Schedules /\ GoesBefore(t)' = GoesBefore(t)]_vars
  BY TurnStep
<1>. QED
  BY <1>1, <1>2, <1>3, PTL DEF Spec, TurnComesNearer

\* How old a thread can get before its turn: by one for each thread that goes before it, and
\* by MaxThreads, the most that can get before it again, for each mark there is or may be.
AgeBound == MaxThreads * MaxThreads + MaxThreads - 1
MarksToCome == Cardinality(Marked) + MaxThreads - created
MayAge(t) == priority[t] + MaxThreads * MarksToCome + Cardinality(GoesBefore(t))

\* The bound is inductive since a thread that can not run, or has just run, is of age 0, and
\* callbacks set marks only when all are.
AgeInv ==
  /\ \A t \in live : status[t] \notin {"RUNNING", "FINISHED"} => priority[t] = 0
  /\ phase = "run" => current \in live /\ priority[current] = 0
  /\ phase \in {"arm", "idle", "top"} => \A t \in live : priority[t] = 0
  /\ \A t \in live : MayAge(t) <= AgeBound

LEMMA TimesGrows ==
  ASSUME NEW n \in Nat, NEW a \in Int, NEW b \in Int, a <= b PROVE n * a <= n * b
<1>1. PICK k \in Nat : b = a + k
  <2>1. b - a \in Nat /\ b = a + (b - a)
    OBVIOUS
  <2>. QED
    BY <2>1
<1>2. n * b = n * a + n * k /\ n * k \in Nat /\ n * a \in Int
  BY <1>1
<1>. QED
  BY <1>2

LEMMA TimesLess ==
  ASSUME NEW n \in Nat, NEW a \in Int, NEW b \in Int, a < b PROVE n * a + n <= n * b
<1>1. n * (a + 1) <= n * b /\ n * (a + 1) = n * a + n
  BY TimesGrows
<1>. QED
  BY <1>1

Counted ==
  TypeOK /\ Listed =>
    /\ MaxThreads \in Nat /\ created \in 1 .. MaxThreads
    /\ IsFiniteSet(Marked) /\ Cardinality(Marked) \in 0 .. created
    /\ \A t \in live : /\ IsFiniteSet(GoesBefore(t))
                       /\ Cardinality(GoesBefore(t)) \in 0 .. MaxThreads - 1
LEMMA CountedHolds == Counted
<1>. SUFFICES ASSUME TypeOK, Listed PROVE Counted
  BY DEF Counted
<1>1. /\ MaxThreads \in Nat /\ created \in 1 .. MaxThreads
      /\ live \subseteq Threads /\ Threads = 1 .. MaxThreads
  BY ConstantsAssumption DEF TypeOK, Threads
<1>2. Marked \subseteq 1 .. created
  <2>1. \A u \in 1 .. MaxThreads : u <= created => u \in 1 .. created
    BY <1>1
  <2>2. \A u \in Marked : u \in 1 .. MaxThreads /\ u <= created
    BY <1>1 DEF Marked, Listed
  <2>. QED
    BY <2>1, <2>2
<1>3. IsFiniteSet(1 .. created) /\ Cardinality(1 .. created) = created
  BY <1>1, FS_Interval
<1>4. IsFiniteSet(Marked) /\ Cardinality(Marked) \in 0 .. created
  <2>1. IsFiniteSet(Marked) /\ Cardinality(Marked) <= Cardinality(1 .. created)
    <3>1. Marked \in SUBSET (1 .. created)
      BY <1>2
    <3>2. IsFiniteSet(1 .. created)
      BY <1>3
    <3>. QED
      BY ONLY <3>1, <3>2, FS_Subset
  <2>2. Cardinality(Marked) \in Nat
    BY <2>1, FS_CardinalityType
  <2>. QED
    BY <1>1, <1>3, <2>1, <2>2
<1>5. ASSUME NEW t \in live
      PROVE  /\ IsFiniteSet(GoesBefore(t))
             /\ Cardinality(GoesBefore(t)) \in 0 .. MaxThreads - 1
  <2>1. GoesBefore(t) \subseteq Threads \ {t}
    <3>1. priority[t] \in 0 .. 255 /\ t \in Nat
      BY <1>1, AgesTyped
    <3>2. ~(priority[t] > priority[t]) /\ ~(t < t)
      BY <3>1
    <3>3. t \notin GoesBefore(t)
      BY <3>2 DEF GoesBefore
    <3>4. GoesBefore(t) \subseteq live
      BY DEF GoesBefore
    <3>. QED
      BY <1>1, <3>3, <3>4
  <2>2. IsFiniteSet(Threads) /\ Cardinality(Threads) = MaxThreads
    BY <1>1, FS_Interval
  <2>3. IsFiniteSet(Threads \ {t}) /\ Cardinality(Threads \ {t}) = MaxThreads - 1
    BY <1>1, <2>2, FS_RemoveElement
  <2>. QED
    BY <1>1, <2>1, <2>3, FS_Subset, FS_CardinalityType
<1>. QED
  BY <1>1, <1>4, <1>5 DEF Counted

LEMMA CountedNext == Counted'
BY CountedHolds, PTL

\* A thread of age 0 keeps the bound, whatever is marked and whoever goes before it.
YoungFits ==
  TypeOK /\ Listed => \A t \in live : priority[t] = 0 => MayAge(t) <= AgeBound
LEMMA YoungFitsHolds == YoungFits
<1>. SUFFICES ASSUME TypeOK, Listed, NEW t \in live, priority[t] = 0 PROVE MayAge(t) <= AgeBound
  BY DEF YoungFits
<1>1. /\ MaxThreads \in Nat /\ created \in 1 .. MaxThreads /\ Cardinality(Marked) \in 0 .. created
      /\ Cardinality(GoesBefore(t)) \in 0 .. MaxThreads - 1
  BY CountedHolds DEF Counted
<1>2. MarksToCome \in Int /\ MarksToCome <= MaxThreads
  BY <1>1 DEF MarksToCome
<1>3. MaxThreads * MarksToCome <= MaxThreads * MaxThreads
  BY <1>1, <1>2, TimesGrows
<1>4. PICK m, n \in Int : m = MaxThreads * MarksToCome /\ n = MaxThreads * MaxThreads
  BY <1>1, <1>2
<1>. QED
  BY <1>1, <1>3, <1>4 DEF MayAge, AgeBound

LEMMA YoungFitsNext == YoungFits'
BY YoungFitsHolds, PTL

\* What other steps than a schedule do to the marks.
LEMMA OthersMark ==
  ASSUME TypeOK, UrgencyInv, [Next]_vars, ~Schedule
  PROVE  \/ phase = "idle" /\ phase' = "idle" /\ live' = live /\ created' = created
         \/ live' = live /\ created' = created /\ Marked' = Marked
         \/ live' = live \cup {created + 1} /\ created' = created + 1
            /\ Marked' \subseteq Marked \cup {created + 1}
<1>. USE DEF machineVars
<1>1. ASSUME NEW t \in Threads, Instruction(t), ~ CreateThread(t), ~ StartTask(t)
      PROVE  live' = live /\ created' = created /\ Marked' = Marked
  BY <1>1, InstructionMarks DEF Marked
<1>2. ASSUME NEW t \in Threads, CreateThread(t) \/ StartTask(t)
      PROVE  live' = live \cup {created + 1} /\ created' = created + 1
             /\ Marked' \subseteq Marked \cup {created + 1}
  <2>1. live' = live \cup {created + 1} /\ created' = created + 1
    BY <1>2 DEF CreateThread, StartTask, AddThread
  <2>2. \A u \in live : needResched'[u] = needResched[u] \/ u = created + 1
    BY <1>2 DEF CreateThread, StartTask, TypeOK
  <2>. QED
    BY <2>1, <2>2 DEF Marked
<1>3. CASE (\E c \in Channels : Receive(c)) \/ (\E p \in Ports : PortInterrupt(p))
  BY <1>3 DEF Receive, PortInterrupt, WakeFirst
<1>4. CASE NothingLive \/ Arm \/ Resume \/ Tick \/ UNCHANGED vars
  BY <1>4 DEF NothingLive, Arm, Resume, Tick, vars, Marked
<1>. QED
  BY <1>1, <1>2, <1>3, <1>4 DEF Next

\* Statuses, outside the scheduler: who stops running without being stopped is the current
\* thread.
LEMMA OthersStop ==
  ASSUME TypeOK, UrgencyInv, [Next]_vars, ~Schedule, NEW u \in live, status[u] \in {"RUNNING", "FINISHED"}
  PROVE  status'[u] \in {"RUNNING", "FINISHED"} \/ (phase = "run" /\ u = current)
<1>0. /\ status \in [Threads -> Statuses] /\ live \subseteq Threads
      /\ u <= created /\ u \in Nat /\ created \in Nat
  BY DEF TypeOK, UrgencyInv, Threads
<1>1. ASSUME NEW t \in Threads, Instruction(t), ~ CreateThread(t), ~ StartTask(t)
      PROVE  status'[u] \in {"RUNNING", "FINISHED"} \/ (phase = "run" /\ u = current)
  <2>1. phase = "run" /\ t = current
    BY <1>1, InstructionPhase
  <2>2. u # t => status'[u] \in {status[u], "RUNNING", "FINISHED"}
    BY <1>1, InstructionMarks
  <2>. QED
    BY <2>1, <2>2
<1>2. ASSUME NEW t \in Threads, CreateThread(t) \/ StartTask(t)
      PROVE  status'[u] \in {"RUNNING", "FINISHED"}
  <2>1. u # created + 1
    BY <1>0
  <2>. QED
    BY <1>0, <1>2, <2>1 DEF CreateThread, StartTask
<1>3. CASE (\E c \in Channels : Receive(c)) \/ (\E p \in Ports : PortInterrupt(p))
  BY <1>0, <1>3 DEF Receive, PortInterrupt, WakeFirst
<1>4. CASE NothingLive \/ Arm \/ Resume \/ Tick \/ UNCHANGED vars
  BY <1>4 DEF NothingLive, Arm, Resume, Tick, vars
<1>. QED
  BY <1>1, <1>2, <1>3, <1>4 DEF Next

LEMMA OthersPhase ==
  ASSUME [Next]_vars, ~Schedule
  PROVE  /\ phase' = "run" => phase = "run" /\ current' = current
         /\ phase' \in {"arm", "idle", "top"} =>
              phase \in {"arm", "idle", "top"} /\ live' = live
<1>1. ASSUME NEW t \in Threads, Instruction(t)
      PROVE  phase = "run" /\ phase' \in {"run", "schedule"} /\ current' = current
  <2>1. phase = "run" /\ phase' \in {"run", "schedule"}
    BY <1>1, InstructionPhase
  <2>2. current' = current
    BY <1>1
       DEF Instruction, MonitorEnter, MonitorExit, Wait, Notify, Sleep, EndQuantum, CreateThread,
       StartThread, StartTask, StopTask, Finish, WaitForSemaphore, WakeupWaitingThread,
       WaitForInterrupt, WaitForMessage, OpenChannel, machineVars
  <2>. QED
    BY <2>1, <2>2
<1>2. CASE \/ NothingLive \/ Arm \/ Resume \/ Tick \/ UNCHANGED vars
           \/ (\E c \in Channels : Receive(c)) \/ (\E p \in Ports : PortInterrupt(p))
  BY <1>2 DEF NothingLive, Arm, Resume, Tick, vars, machineVars, Receive, PortInterrupt, WakeFirst
<1>. QED
  BY <1>1, <1>2 DEF Next

LEMMA OthersAge ==
  ASSUME TypeOK, TypeOK', UrgencyInv, YoungInv, YoungInv', AgeInv, [Next]_vars, ~Schedule
  PROVE  AgeInv'
<1>1. /\ priority' = priority
      /\ \/ live' = live /\ created' = created
         \/ live' = live \cup {created + 1} /\ created + 1 \in Threads /\ created' = created + 1
  BY OthersKeepAges
<1>2. /\ live \subseteq Threads /\ Threads \subseteq Nat /\ created \in Nat
      /\ \A u \in Threads : priority[u] \in 0 .. 255
  BY AgesTyped
<1>3. \A u \in live' : u \notin live => priority'[u] = 0
  BY <1>1, <1>2 DEF YoungInv, NewIsYoung
<1>4. \A t \in live' : status'[t] \notin {"RUNNING", "FINISHED"} => priority'[t] = 0
  <2>. SUFFICES ASSUME NEW t \in live, status'[t] \notin {"RUNNING", "FINISHED"}
                PROVE  priority[t] = 0
    BY <1>1, <1>3
  <2>. QED
    BY OthersStop DEF AgeInv
<1>5. phase' = "run" => current' \in live' /\ priority'[current'] = 0
  BY <1>1, OthersPhase DEF AgeInv
<1>6. phase' \in {"arm", "idle", "top"} => \A t \in live' : priority'[t] = 0
  BY <1>1, OthersPhase DEF AgeInv
<1>7. ASSUME NEW t \in live' PROVE MayAge(t)' <= AgeBound
  <2>1. CASE priority'[t] = 0
    BY <2>1, YoungFitsNext DEF YoungFits, YoungInv, AgeBound
  <2>2. CASE priority'[t] # 0
    <3>1. t \in live /\ phase # "idle"
      BY <1>1, <1>3, <2>2 DEF AgeInv
    <3>2. GoesBefore(t)' = GoesBefore(t)
      BY <1>1, <3>1, CreatedAges DEF YoungInv
    <3>3. MarksToCome' <= MarksToCome /\ MarksToCome \in Int /\ MarksToCome' \in Int
      <4>1. /\ MaxThreads \in Nat /\ created \in Int /\ IsFiniteSet(Marked) /\ Cardinality(Marked) \in Int
            /\ created' \in Int /\ IsFiniteSet(Marked') /\ Cardinality(Marked') \in Int
        BY CountedHolds, CountedNext DEF Counted, YoungInv
      <4>2. CASE created' = created /\ Marked' = Marked
        BY <4>1, <4>2 DEF MarksToCome
      <4>3. CASE created' = created + 1 /\ Marked' \subseteq Marked \cup {created + 1}
        <5>1. /\ IsFiniteSet(Marked \cup {created + 1})
              /\ Cardinality(Marked \cup {created + 1}) <= Cardinality(Marked) + 1
              /\ Cardinality(Marked \cup {created + 1}) \in Int
          <6>1. /\ IsFiniteSet(Marked \cup {created + 1})
                /\ \/ Cardinality(Marked \cup {created + 1}) = Cardinality(Marked)
                   \/ Cardinality(Marked \cup {created + 1}) = Cardinality(Marked) + 1
            BY <4>1, FS_AddElement
          <6>. QED
            BY <4>1, <6>1
        <5>2. Cardinality(Marked') <= Cardinality(Marked \cup {created + 1})
          BY <4>3, <5>1, FS_Subset
        <5>. QED
          BY <4>1, <4>3, <5>1, <5>2 DEF MarksToCome
      <4>. QED
        BY <3>1, <4>2, <4>3, OthersMark
    <3>4. MaxThreads * MarksToCome' <= MaxThreads * MarksToCome
      BY <3>3, TimesGrows, ConstantsAssumption
    <3>5. MayAge(t) <= AgeBound
      BY <3>1 DEF AgeInv
    <3>6. /\ MayAge(t) = priority[t] + MaxThreads * MarksToCome + Cardinality(GoesBefore(t))
          /\ MayAge(t)' = priority[t] + MaxThreads * MarksToCome' + Cardinality(GoesBefore(t))
      BY <1>1, <3>2 DEF MayAge
    <3>7. /\ MaxThreads * MarksToCome \in Int /\ MaxThreads * MarksToCome' \in Int
          /\ priority[t] \in Int /\ Cardinality(GoesBefore(t)) \in Int /\ AgeBound \in Int
      BY <1>2, <3>1, <3>3, CountedHolds, ConstantsAssumption DEF Counted, YoungInv, AgeBound
    <3>. QED
      BY <3>4, <3>5, <3>6, <3>7
  <2>. QED
    BY <2>1, <2>2
<1>. QED
  BY <1>4, <1>5, <1>6, <1>7 DEF AgeInv, AgeBound

\* The condition under which no age wraps its byte.
FewThreads == MaxThreads <= 15

LEMMA FewAges == ASSUME FewThreads PROVE AgeBound \in Int /\ AgeBound <= 254
<1>1. MaxThreads \in Nat /\ MaxThreads <= 15
  BY ConstantsAssumption DEF FewThreads
<1>2. MaxThreads * MaxThreads <= MaxThreads * 15 /\ MaxThreads * MaxThreads \in Int
  BY <1>1, TimesGrows
<1>. QED
  BY <1>1, <1>2 DEF AgeBound

\* Within the bound an age fits in its byte.
LEMMA FittingAge ==
  ASSUME TypeOK, YoungInv, AgeInv, FewThreads, NEW t \in live PROVE priority[t] < 255
<1>1. /\ MaxThreads \in Nat /\ created \in 1 .. MaxThreads /\ Cardinality(Marked) \in 0 .. created
      /\ Cardinality(GoesBefore(t)) \in 0 .. MaxThreads - 1
  BY CountedHolds DEF Counted, YoungInv
<1>2. MarksToCome \in Int /\ 0 <= MarksToCome
  BY <1>1 DEF MarksToCome
<1>3. MaxThreads * 0 <= MaxThreads * MarksToCome /\ MaxThreads * MarksToCome \in Int
  BY <1>1, <1>2, TimesGrows
<1>4. priority[t] \in Int
  BY AgesTyped
<1>5. priority[t] + MaxThreads * MarksToCome + Cardinality(GoesBefore(t)) <= AgeBound
  BY DEF AgeInv, MayAge
<1>. QED
  BY <1>1, <1>3, <1>4, <1>5, FewAges

\* The sum of MayAge does not grow when a mark is used up, nor when a thread goes before no more.
LEMMA AgeSum ==
  ASSUME NEW n \in Nat, NEW k \in Int, NEW a \in Int, NEW b \in Int, NEW x \in Int, NEW y \in Int,
         NEW g \in 0 .. n - 1, NEW h \in 0 .. n - 1,
         b <= a + 1, a + x + g <= k, y + n <= x \/ (y <= x /\ h < g)
  PROVE  b + y + h <= k
OBVIOUS

LEMMA ScheduleAge ==
  ASSUME TypeOK, TypeOK', YoungInv, YoungInv', AgeInv, FewThreads, Schedule
  PROVE  AgeInv'
<1>1. PICK c \in Threads \cup {NoThread} :
        /\ Selects(c)
        /\ current' = c /\ live' = Kept
        /\ \A u \in Threads : priority'[u] = IF u = c THEN 0 ELSE Ageing(u)
        /\ \A u \in Threads : needResched'[u] = (needResched[u] /\ u # c)
        /\ Kept \subseteq live /\ Kept \subseteq Threads
        /\ phase' = IF c = NoThread THEN "arm" ELSE IF c \in started THEN "run" ELSE "panic"
  BY ScheduleAges
<1>2. /\ live \subseteq Threads /\ Threads \subseteq Nat /\ created \in Nat
      /\ \A u \in Threads : priority[u] \in 0 .. 255
      /\ Runnable \subseteq Kept
  BY AgesTyped
<1>3. c # NoThread => c \in Runnable
  BY <1>1 DEF Selects, FirstOf, Urgent
<1>4. NoThread \notin Threads
  BY DEF NoThread, Threads
<1>5. ASSUME NEW t \in Kept, t \notin Runnable PROVE priority'[t] = 0
  <2>1. status[t] \notin {"RUNNING", "FINISHED"} /\ t \in live /\ t \in Threads
    BY <1>1, <1>5 DEF Kept, Runnable
  <2>2. priority[t] = 0
    BY <2>1 DEF AgeInv
  <2>. QED
    BY <1>1, <1>5, <2>1, <2>2 DEF Ageing
<1>6. \A t \in live' : status'[t] \notin {"RUNNING", "FINISHED"} => priority'[t] = 0
  <2>. SUFFICES ASSUME NEW t \in Kept, t \in Runnable PROVE status'[t] = "RUNNING"
    BY <1>1, <1>5
  <2>. QED
    BY <1>1 DEF Schedule, WakeThreads
<1>7. phase' = "run" => current' \in live' /\ priority'[current'] = 0
  BY <1>1, <1>2, <1>3
<1>8. phase' \in {"arm", "idle", "top"} => \A t \in live' : priority'[t] = 0
  <2>. SUFFICES ASSUME phase' \in {"arm", "idle", "top"}, NEW t \in Kept PROVE t \notin Runnable
    BY <1>1, <1>5
  <2>1. c = NoThread
    BY <1>1
  <2>. QED
    BY <1>1, <1>2, <1>4, <2>1 DEF Selects, FirstOf, Urgent
<1>9. ASSUME NEW t \in live' PROVE MayAge(t)' <= AgeBound
  <2>1. CASE priority'[t] = 0
    BY <2>1, YoungFitsNext DEF YoungFits, YoungInv, AgeBound
  <2>2. CASE priority'[t] # 0
    <3>1. t \in Runnable /\ t # c /\ t \in live /\ t \in Threads
      BY <1>1, <1>2, <1>5, <2>2
    <3>2. priority[t] < 255 /\ priority[t] \in Nat
      BY <1>2, <3>1, FittingAge
    <3>3. priority'[t] <= priority[t] + 1 /\ priority'[t] \in Nat
      <4>1. priority'[t] \in {U8(priority[t] + 1), priority[t]}
        BY <1>1, <3>1 DEF Ageing, Aged
      <4>2. U8(priority[t] + 1) = priority[t] + 1
        BY <3>2 DEF U8
      <4>. QED
        BY <3>2, <4>1, <4>2
    <3>4. /\ MaxThreads \in Nat /\ created \in Int /\ created' = created
          /\ IsFiniteSet(Marked) /\ Cardinality(Marked) \in Int
          /\ IsFiniteSet(Marked') /\ Cardinality(Marked') \in Int
          /\ IsFiniteSet(GoesBefore(t)) /\ Cardinality(GoesBefore(t)) \in 0 .. MaxThreads - 1
          /\ IsFiniteSet(GoesBefore(t)') /\ Cardinality(GoesBefore(t)') \in 0 .. MaxThreads - 1
      <4>1. created' = created
        BY DEF Schedule
      <4>. QED
        BY <3>1, <4>1, CountedHolds, CountedNext DEF Counted, YoungInv
    <3>5. Marked' \in SUBSET Marked
      BY <1>1 DEF Marked
    <3>6. /\ MayAge(t) = priority[t] + MaxThreads * MarksToCome + Cardinality(GoesBefore(t))
          /\ MayAge(t)' = priority'[t] + MaxThreads * MarksToCome' + Cardinality(GoesBefore(t)')
          /\ MayAge(t) <= AgeBound
      BY <3>1 DEF MayAge, AgeInv
    <3>7. /\ MarksToCome \in Int /\ MarksToCome' \in Int /\ AgeBound \in Int
          /\ MaxThreads * MarksToCome \in Int /\ MaxThreads * MarksToCome' \in Int
      BY <3>4, FewAges DEF MarksToCome
    <3>. DEFINE x == MaxThreads * MarksToCome  y == MaxThreads * MarksToCome'
                g == Cardinality(GoesBefore(t))  h == Cardinality(GoesBefore(t)')
    <3>8. /\ x \in Int /\ y \in Int /\ g \in 0 .. MaxThreads - 1 /\ h \in 0 .. MaxThreads - 1
           /\ priority[t] + x + g <= AgeBound /\ MayAge(t)' = priority'[t] + y + h
      BY <3>4, <3>6, <3>7
    <3>9. y + MaxThreads <= x \/ (y <= x /\ h < g) => MayAge(t)' <= AgeBound
      <4>. HIDE DEF x, y, g, h
      <4>. QED
        BY <3>2, <3>3, <3>4, <3>7, <3>8, AgeSum
    <3>10. CASE Urgent # {}
      <4>1. c \in Urgent
        BY <1>1, <3>1, <3>10 DEF Selects, FirstOf
      <4>2. c \in Marked /\ c \notin Marked'
        BY <1>1, <1>2, <4>1 DEF Urgent, Marked
      <4>3. Cardinality(Marked') < Cardinality(Marked)
        <5>1. Cardinality(Marked') <= Cardinality(Marked) /\ Cardinality(Marked') # Cardinality(Marked)
          BY <3>4, <3>5, <4>2, FS_Subset
        <5>. QED
          BY <3>4, <5>1
      <4>4. MarksToCome' < MarksToCome
        BY <3>4, <4>3 DEF MarksToCome
      <4>5. MaxThreads * MarksToCome' + MaxThreads <= MaxThreads * MarksToCome
        BY <3>4, <3>7, <4>4, TimesLess
      <4>. QED
        BY <3>9, <4>5
    <3>11. CASE Urgent = {}
      <4>1. c \in Threads
        BY <1>1, <1>2, <3>1, <3>11 DEF Selects, FirstOf
      <4>2. Shrinks(GoesBefore(t), GoesBefore(t)')
        BY <1>1, <3>1, <3>2, <3>11, <4>1, TurnSchedule
      <4>3. Cardinality(GoesBefore(t)') < Cardinality(GoesBefore(t))
        <5>1. /\ Cardinality(GoesBefore(t)') <= Cardinality(GoesBefore(t))
              /\ Cardinality(GoesBefore(t)') # Cardinality(GoesBefore(t))
          BY <3>4, <4>2, FS_Subset DEF Shrinks
        <5>. QED
          BY <3>4, <5>1
      <4>4. Cardinality(Marked') <= Cardinality(Marked)
        BY <3>4, <3>5, FS_Subset
      <4>5. MarksToCome' <= MarksToCome
        BY <3>4, <4>4 DEF MarksToCome
      <4>6. MaxThreads * MarksToCome' <= MaxThreads * MarksToCome
        BY <3>4, <3>7, <4>5, TimesGrows
      <4>. QED
        BY <3>9, <4>3, <4>6
    <3>. QED
      BY <3>10, <3>11
  <2>. QED
    BY <2>1, <2>2
<1>. QED
  BY <1>6, <1>7, <1>8, <1>9 DEF AgeInv, AgeBound

LEMMA AgeInit == Init => AgeInv
<1>. SUFFICES ASSUME Init PROVE AgeInv
  OBVIOUS
<1>1. \A t \in live : t \in Threads /\ priority[t] = 0
  BY ConstantsAssumption DEF Init, Threads
<1>2. \A t \in live : MayAge(t) <= AgeBound
  BY <1>1, TypeInit, YoungInit, YoungFitsHolds DEF YoungFits, YoungInv
<1>. QED
  BY <1>1, <1>2 DEF AgeInv, Init

LEMMA AgesInvariance ==
  ASSUME FewThreads PROVE Spec => [](TypeOK /\ UrgencyInv /\ YoungInv /\ AgeInv)
<1>1. Init => TypeOK /\ UrgencyInv /\ YoungInv /\ AgeInv
  BY TypeInit, UrgencyInit, YoungInit, AgeInit
<1>2. TypeOK /\ UrgencyInv /\ YoungInv /\ AgeInv /\ [Next]_vars
        => (TypeOK /\ UrgencyInv /\ YoungInv /\ AgeInv)'
  <2>. SUFFICES ASSUME TypeOK, UrgencyInv, YoungInv, AgeInv, [Next]_vars
                PROVE  (TypeOK /\ UrgencyInv /\ YoungInv /\ AgeInv)'
    OBVIOUS
  <2>1. TypeOK' /\ UrgencyInv' /\ YoungInv'
    BY TypeNext, UrgencyNext, YoungNext
  <2>2. AgeInv'
    BY <2>1, ScheduleAge, OthersAge
  <2>. QED
    BY <2>1, <2>2
<1>. QED
  BY <1>1, <1>2, PTL DEF Spec

\* With no more than 15 threads ever, marks and new threads included, no age wraps its byte,
\* so the turn of each thread comes nearer without that condition.
THEOREM AgesNeverWrap == ASSUME FewThreads PROVE Spec => []AgesFit
<1>1. TypeOK /\ YoungInv /\ AgeInv => AgesFit
  BY FittingAge DEF AgesFit
<1>. QED
  BY <1>1, AgesInvariance, PTL

=============================================================================
