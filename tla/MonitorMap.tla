------------------------------ MODULE MonitorMap ------------------------------
(***************************************************************************)
(* What the rest of the machine takes the monitors for: every object has a  *)
(* count and a number of waiting threads, both 0 when nobody uses it.  This *)
(* is the view of VMThreads, without the threads; MonitorTable implements it.*)
(***************************************************************************)
EXTENDS Naturals

CONSTANTS
  Objects,          \* Java objects used as locks
  MaxUse            \* bound: count and waiting threads of a monitor, each

VARIABLES count, waiting

mapVars == <<count, waiting>>

Init ==
  /\ count = [o \in Objects |-> 0]
  /\ waiting = [o \in Objects |-> 0]

\* MONITORENTER: enters, enters again, or waits.
Enter(o) ==
  \/ /\ count[o] < MaxUse
     /\ count' = [count EXCEPT ![o] = @ + 1]
     /\ UNCHANGED waiting
  \/ /\ count[o] > 0 /\ waiting[o] < MaxUse
     /\ waiting' = [waiting EXCEPT ![o] = @ + 1]
     /\ UNCHANGED count

\* MONITOREXIT
Exit(o) ==
  /\ count[o] > 0
  /\ count' = [count EXCEPT ![o] = @ - 1]
  /\ UNCHANGED waiting

\* dj_vm_wakeThreads hands a free monitor to a thread that waits for it.
Grant(o) ==
  /\ count[o] = 0 /\ waiting[o] > 0
  /\ count' = [count EXCEPT ![o] = 1]
  /\ waiting' = [waiting EXCEPT ![o] = @ - 1]

Next == \E o \in Objects : Enter(o) \/ Exit(o) \/ Grant(o)

Spec == Init /\ [][Next]_mapVars
==============================================================================
