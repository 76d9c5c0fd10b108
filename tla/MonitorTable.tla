----------------------------- MODULE MonitorTable -----------------------------
(***************************************************************************)
(* The table of monitors of the virtual machine, vm->monitors: a linked list *)
(* of blocks of MONITOR_BLOCK_SIZE monitors.  dj_vm_getMonitor finds the     *)
(* monitor of an object, or appends one; dj_vm_removeMonitor closes the hole *)
(* with the last one and frees the last block when it has become empty.      *)
(*                                                                         *)
(* A slot keeps what was last written to it.  The owner of a monitor is left *)
(* out: nothing here depends on it.  The heap is left out, except that an    *)
(* allocation fails beyond MaxBlocks blocks; then MONITORENTER throws and    *)
(* the table is as it was.                                                  *)
(***************************************************************************)
EXTENDS Integers, Sequences

CONSTANTS
  Objects,          \* Java objects used as locks
  NoObject,         \* the null reference
  BlockSize,        \* MONITOR_BLOCK_SIZE
  MaxBlocks,        \* bound: blocks the heap has room for
  MaxUse            \* bound: count and waiting threads of a monitor, each

ASSUME TableAssumption ==
  /\ NoObject \notin Objects
  /\ BlockSize \in Nat \ {0}
  /\ MaxBlocks \in Nat
  /\ MaxUse \in 1 .. 255

VARIABLES
  blocks,           \* vm->monitors: sequence of [monitors, count]
  numMonitors       \* vm->numMonitors

tableVars == <<blocks, numMonitors>>

Slots == 0 .. BlockSize - 1
Monitor == [object : Objects \cup {NoObject}, count : 0 .. MaxUse, waiting : 0 .. MaxUse]
Block == [monitors : [Slots -> Monitor], count : 0 .. BlockSize]

\* dj_monitor_block_create zeroes a block.
EmptyBlock ==
  [monitors |-> [k \in Slots |-> [object |-> NoObject, count |-> 0, waiting |-> 0]],
   count |-> 0]

Init == blocks = <<>> /\ numMonitors = 0

\* Where the loops over i = 0 .. numMonitors-1 stand: they go to the next block at
\* each multiple of the block size.
BlockOf(i) == i \div BlockSize + 1
SlotOf(i) == i % BlockSize
MonitorAt(i) == blocks[BlockOf(i)].monitors[SlotOf(i)]

InBlock(k) == k < BlockSize      \* faulty: the search ends with the first block
InTable(i) == i < numMonitors

\* dj_vm_getMonitor, the search: i is the first monitor of the object.
Finds(o, i) ==
  /\ InTable(i) /\ MonitorAt(i).object = o
  /\ \A j \in 0 .. i - 1 : MonitorAt(j).object # o
Absent(o) == \A i \in 0 .. numMonitors - 1 : InTable(i) => MonitorAt(i).object # o

Put(bs, b, k, m) == [bs EXCEPT ![b].monitors[k] = m]

\* dj_vm_getMonitor, the rest: the new monitor, reset, goes to the first unused slot of
\* the last block.
NotReset(o, m) == [m EXCEPT !.object = o]    \* faulty: a slot used before is not reset
Reset(o, m) == [object |-> o, count |-> 0, waiting |-> 0]

NeedsBlock == SlotOf(numMonitors) = 0
Grown == IF NeedsBlock THEN Append(blocks, EmptyBlock) ELSE blocks
Appended(o) ==
  LET last == Len(Grown)
      k == SlotOf(numMonitors)
      m == Reset(o, Grown[last].monitors[k])
  IN [Grown EXCEPT ![last] = [monitors |-> [@.monitors EXCEPT ![k] = m],
                              count |-> @.count + 1]]

\* The monitors MONITORENTER may make of a monitor, according to its owner.
Entered(m) ==
  {n \in {[m EXCEPT !.count = @ + 1]} : n.count <= MaxUse} \cup
  {n \in {[m EXCEPT !.waiting = @ + 1]} : m.count > 0 /\ n.waiting <= MaxUse}

Enter(o) ==
  \/ /\ \E i \in 0 .. numMonitors - 1 :
          /\ Finds(o, i)
          /\ \E m \in Entered(MonitorAt(i)) :
               blocks' = Put(blocks, BlockOf(i), SlotOf(i), m)
     /\ UNCHANGED numMonitors
  \/ /\ Absent(o)
     /\ NeedsBlock => Len(blocks) < MaxBlocks
     /\ \E m \in Entered(Appended(o)[Len(Grown)].monitors[SlotOf(numMonitors)]) :
          blocks' = Put(Appended(o), Len(Grown), SlotOf(numMonitors), m)
     /\ numMonitors' = numMonitors + 1

\* dj_vm_removeMonitor of the monitor at i, in the table bs.
EmptyBefore == SlotOf(numMonitors) = 0       \* faulty: tested before the decrement
EmptyAfter == SlotOf(numMonitors - 1) = 0

CountedOut(bs, i) == [bs EXCEPT ![BlockOf(i)].count = @ - 1]   \* faulty: the block of the hole
CountedOutLast(bs, i) == [bs EXCEPT ![Len(bs)].count = @ - 1]

Removed(bs, i) ==
  LET n == numMonitors - 1
      less == CountedOutLast(bs, i)
      closed == IF i < n
                THEN Put(less, BlockOf(i), SlotOf(i), less[Len(bs)].monitors[SlotOf(n)])
                ELSE less
  IN IF EmptyAfter THEN SubSeq(closed, 1, Len(bs) - 1) ELSE closed

\* MONITOREXIT: a monitor with nobody inside and nobody waiting is removed.
Exit(o) ==
  \E i \in 0 .. numMonitors - 1 :
    LET m == [MonitorAt(i) EXCEPT !.count = @ - 1]
        written == Put(blocks, BlockOf(i), SlotOf(i), m)
    IN /\ Finds(o, i)
       /\ MonitorAt(i).count > 0
       /\ IF m.count = 0 /\ m.waiting = 0
          THEN blocks' = Removed(written, i) /\ numMonitors' = numMonitors - 1
          ELSE blocks' = written /\ UNCHANGED numMonitors

\* dj_vm_wakeThreads: a free monitor, of a thread blocked on it, is taken for it.
Grant(o) ==
  /\ \E i \in 0 .. numMonitors - 1 :
       /\ Finds(o, i)
       /\ MonitorAt(i).count = 0 /\ MonitorAt(i).waiting > 0
       /\ blocks' = Put(blocks, BlockOf(i), SlotOf(i),
                        [object |-> o, count |-> 1, waiting |-> MonitorAt(i).waiting - 1])
  /\ UNCHANGED numMonitors

Next == \E o \in Objects : Enter(o) \/ Exit(o) \/ Grant(o)

Spec == Init /\ [][Next]_tableVars

-----------------------------------------------------------------------------
\* Properties.

TypeOK == blocks \in Seq(Block) /\ numMonitors \in Nat

\* numMonitors, the length of the list and the counters of the blocks agree: the search
\* stays inside the list, no empty block is left in it, and the collector, which goes by
\* the counters, marks and moves the monitors in use and nothing else.
BlocksAreFull ==
  /\ numMonitors = 0 <=> blocks = <<>>
  /\ \A b \in 1 .. Len(blocks) - 1 : blocks[b].count = BlockSize
  /\ blocks # <<>> =>
       /\ blocks[Len(blocks)].count > 0
       /\ numMonitors = BlockSize * (Len(blocks) - 1) + blocks[Len(blocks)].count

\* No object has two monitors, and each monitor belongs to an object and is in use: a
\* thread that finds a monitor finds the one the others use.
OneMonitorEach ==
  \A i \in 0 .. numMonitors - 1 :
    /\ MonitorAt(i).object \in Objects
    /\ MonitorAt(i).count > 0 \/ MonitorAt(i).waiting > 0
    /\ \A j \in 0 .. numMonitors - 1 : MonitorAt(i).object = MonitorAt(j).object => i = j

\* What the table says of an object.
Uses(o, f) == IF \E i \in 0 .. numMonitors - 1 : MonitorAt(i).object = o
              THEN MonitorAt(CHOOSE i \in 0 .. numMonitors - 1 : MonitorAt(i).object = o)[f]
              ELSE 0

Map == INSTANCE MonitorMap WITH count <- [o \in Objects |-> Uses(o, "count")],
                                waiting <- [o \in Objects |-> Uses(o, "waiting")]

\* The table is a map from objects to monitors: finding, appending, moving the last one
\* into a hole and freeing blocks never lose, mix up or revive a monitor.
TableIsMap == Map!Spec
==============================================================================
