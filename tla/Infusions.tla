------------------------------- MODULE Infusions ------------------------------
(***************************************************************************)
(* The machine on its heap: the instructions that move references, methods,   *)
(* exceptions and threads, and infusions that are loaded and unloaded while   *)
(* objects of their classes live on (infusion.c, vm.c, execution.c).        *)
(*                                                                         *)
(* An operation that allocates takes three kinds of steps: it asks, the      *)
(* collector runs if there is no room, and it goes on with what it got.  The *)
(* current thread runs until the scheduler takes another; which thread it    *)
(* takes, and when, is left open.                                           *)
(***************************************************************************)
EXTENDS Heap

CONSTANTS
  BaseName,         \* the system infusion, loaded first
  Import,           \* the infusion each infusion imports, or NoName
  FrameSize,        \* sizes of the chunks, header included
  InfusionSize,
  ObjectSize,
  FirstClass,       \* bound: the first class of its infusion that is instantiated
  MaxStack,         \* bound: operands of a frame
  MaxDepth          \* bound: frames of a thread

ASSUME InfusionsAssumption ==
  /\ BaseName \in Names
  /\ Import \in [Names -> Names \cup {NoName}]
  /\ FrameSize \in Nat \ {0} /\ InfusionSize \in Nat \ {0} /\ ObjectSize \in Nat \ {0}
  /\ InfusionSize + FrameSize <= HeapSize
  /\ FirstClass \in Nat /\ MaxStack \in Nat /\ MaxDepth \in Nat

VARIABLES
  current,          \* currentThread
  finished          \* threads with status THREADSTATUS_FINISHED, still in the list

vars == <<heapVars, current, finished>>
threadVars == <<current, finished>>

Nothing == [op |-> "none", size |-> 0]

\* The system infusion is loaded and the first thread is in its main method.
Init ==
  /\ mem = [a \in {0, InfusionSize} |->
             IF a = 0 THEN Infusion(InfusionSize, BaseName, NoRef, JAVA_START)
             ELSE Frame(FrameSize, 0, BaseName)]
  /\ left = InfusionSize + FrameSize
  /\ phase = "run" /\ loc = 0 /\ gray = FALSE /\ shift = 0
  /\ refStack = <<>>
  /\ infusions = <<0>>
  /\ pending = Nothing
  /\ halted = "no"
  /\ current \in Threads /\ finished = {}
  /\ stack = [t \in Threads |-> IF t = current THEN <<InfusionSize>> ELSE <<>>]

Running(t) == halted = "no" /\ phase = "run" /\ t = current /\ t \notin finished /\ stack[t] # <<>>

LastOf(s) == s[Len(s)]
Without(s, n) == SubSeq(s, 1, Len(s) - n)       \* s without its last n elements

Top(t) == LastOf(stack[t])
Operands(t) == mem[Top(t)].refs
HasRoom(t) == Len(Operands(t)) < MaxStack

\* The instructions that only touch the heap.
Do(m) ==
  /\ mem' = m
  /\ UNCHANGED <<left, phase, loc, gray, shift, refStack, infusions, stack, pending, halted>>
  /\ UNCHANGED threadVars

WithOperands(t, s) == [mem EXCEPT ![Top(t)].refs = s]

\* dj_infusion_resolve: an instruction names the infusion of its method or an imported one.
Resolved(t) == LET own == mem[Top(t)].infusion IN {own, mem[own].infusion} \ {NoRef}

GETSTATIC_A(t) ==
  /\ Running(t) /\ HasRoom(t)
  /\ \E a \in Resolved(t) : Do(WithOperands(t, Append(Operands(t), mem[a].refs[1])))

PUTSTATIC_A(t) ==
  /\ Running(t) /\ Operands(t) # <<>>
  /\ \E a \in Resolved(t) :
       Do([WithOperands(t, Without(Operands(t), 1)) EXCEPT ![a].refs = <<LastOf(Operands(t))>>])

\* An object that can be used: not null, and its class was not unloaded.  Otherwise the
\* instruction throws.
Usable(r) == r # NoRef /\ HasRefs(mem[r])

\* What it does to a Java object begins with looking up the class: see ClassMissing.
On(r, m) ==
  IF ~ClassMissing(mem[r]) THEN Do(m)
  ELSE /\ halted' = "class"
       /\ UNCHANGED <<mem, left, phase, loc, gray, shift, refStack, infusions, stack, pending>>
       /\ UNCHANGED threadVars

GETFIELD_A(t) ==          \* and AALOAD
  LET s == Operands(t)
  IN /\ Running(t) /\ s # <<>> /\ Usable(LastOf(s))
     /\ On(LastOf(s), WithOperands(t, Append(Without(s, 1), mem[LastOf(s)].refs[1])))

PUTFIELD_A(t) ==          \* and AASTORE
  LET s == Operands(t)
  IN /\ Running(t) /\ Len(s) > 1 /\ Usable(s[Len(s) - 1])
     /\ On(s[Len(s) - 1],
           [WithOperands(t, Without(s, 2)) EXCEPT ![s[Len(s) - 1]].refs = <<LastOf(s)>>])

POP(t) == Running(t) /\ Operands(t) # <<>> /\ Do(WithOperands(t, Without(Operands(t), 1)))

-----------------------------------------------------------------------------
\* Operations that allocate: what they ask for.

NEWOBJECT(t) ==
  /\ Running(t) /\ HasRoom(t)
  /\ \E a \in Resolved(t) : \E k \in FirstClass .. NrClasses[mem[a].name] - 1 :
       Ask([op |-> "new", size |-> ObjectSize,
            id |-> mem[a].base + k, name |-> mem[a].name, class |-> k], refStack)
  /\ UNCHANGED threadVars

ANEWARRAY(t) ==
  /\ Running(t) /\ HasRoom(t)
  /\ Ask([op |-> "new", size |-> ObjectSize, id |-> REFARRAY, name |-> NoName, class |-> 0],
         refStack)
  /\ UNCHANGED threadVars

\* dj_frame_create saves its infusion on the compaction update stack.
AskFrame(t, a) ==
  Ask([op |-> "frame", size |-> FrameSize, thread |-> t], Append(refStack, a))

\* callMethod: of an infusion the method can name, or of the class of an object.
ClassesOf(s) ==
  {a \in Members(infusions) : \E r \in Members(s) \ {NoRef} : IsJava(mem[r]) /\ InRange(a, mem[r].id)}

INVOKE(t) ==
  /\ Running(t) /\ Len(stack[t]) < MaxDepth
  /\ \E a \in Resolved(t) \cup ClassesOf(Operands(t)) : AskFrame(t, a)
  /\ UNCHANGED threadVars

\* Thread.start, Task.start: the thread gets its first frame.
START(t) ==
  /\ Running(t)
  /\ \E u \in Threads \ finished : \E a \in Members(infusions) :
       stack[u] = <<>> /\ AskFrame(u, a)
  /\ UNCHANGED threadVars

\* dj_exec_createAndThrow, of an exception of the system infusion: an instruction that
\* needs an object found null, or one whose class was unloaded.
Throw == [op |-> "throw", size |-> ObjectSize,
          id |-> mem[infusions[1]].base + FirstClass, name |-> BaseName, class |-> FirstClass]

THROW(t) ==
  /\ Running(t) /\ Operands(t) # <<>> /\ ~Usable(LastOf(Operands(t)))
  /\ Ask(Throw, refStack)
  /\ UNCHANGED threadVars

\* dj_vm_loadInfusion; an infusion is loaded once at a time.
LOAD(t) ==
  /\ Running(t)
  /\ \E n \in Names :
       /\ \A a \in Members(infusions) : mem[a].name # n
       /\ Ask([op |-> "load", size |-> InfusionSize, name |-> n], refStack)
  /\ UNCHANGED threadVars

-----------------------------------------------------------------------------
\* What they do with what they get.

Granted(op) == halted = "no" /\ phase = "alloc" /\ pending.op = op /\ Room(pending.size)
Refused(op) == halted = "no" /\ phase = "alloc" /\ pending.op = op /\ ~Room(pending.size)

\* The object gets a label that no object in the heap has.
NewObject(l) == Object(pending.id, pending.size, pending.name, pending.class, l)
Fresh(l) == \A a \in DOMAIN mem : mem[a].id # FREE => mem[a].label # l

GotObject ==
  /\ Granted("new")
  /\ \E l \in Labels :
       /\ Fresh(l)
       /\ mem' = [Placed(NewObject(l)) EXCEPT ![Top(current)].refs = Append(Operands(current), left)]
  /\ left' = left + pending.size
  /\ phase' = "run" /\ pending' = Nothing
  /\ UNCHANGED <<loc, gray, shift, refStack, infusions, stack, halted, current, finished>>

GotFrame ==
  /\ Granted("frame")
  /\ mem' = Placed(Frame(pending.size, LastOf(refStack), mem[LastOf(refStack)].name))
  /\ left' = left + pending.size
  /\ refStack' = Without(refStack, 1)
  /\ stack' = [stack EXCEPT ![pending.thread] = Append(stack[pending.thread], left)]
  /\ phase' = "run" /\ pending' = Nothing
  /\ UNCHANGED <<loc, gray, shift, infusions, halted, current, finished>>

\* dj_vm_addInfusion puts the infusion behind the last one, and its classes behind the
\* classes of that one.
NextBase == mem[LastOf(infusions)].base + NrClasses[mem[LastOf(infusions)].name]
Imported(n) == {a \in Members(infusions) : mem[a].name = Import[n]}

GotInfusion ==
  /\ Granted("load")
  /\ IF Import[pending.name] # NoName /\ Imported(pending.name) = {}
     THEN halted' = "link" /\ UNCHANGED <<mem, left, phase, infusions, pending>>
     ELSE /\ \E a \in IF Import[pending.name] = NoName THEN {NoRef} ELSE Imported(pending.name) :
               mem' = Placed(Infusion(pending.size, pending.name, a, NextBase))
          /\ left' = left + pending.size
          /\ infusions' = Append(infusions, left)
          /\ phase' = "run" /\ pending' = Nothing
          /\ UNCHANGED halted
  /\ UNCHANGED <<loc, gray, shift, refStack, stack, current, finished>>

GotException ==
  /\ Granted("throw")
  /\ \E l \in Labels : Fresh(l) /\ mem' = Placed(NewObject(l))
  /\ left' = left + pending.size
  /\ pending' = [op |-> "unwind", size |-> 0, ref |-> left]
  /\ phase' = "unwind"
  /\ UNCHANGED <<loc, gray, shift, refStack, infusions, stack, halted, current, finished>>

\* No room after a collection.
OutOfMemory ==
  /\ Refused("new") \/ Refused("frame")
  /\ Ask(Throw, IF pending.op = "frame" THEN Without(refStack, 1) ELSE refStack)
  /\ UNCHANGED threadVars

\* dj_panic: for an infusion, and for an exception, as this platform sets no exception
\* aside for the case.
Panic ==
  /\ Refused("load") \/ Refused("throw")
  /\ halted' = "memory"
  /\ UNCHANGED <<mem, left, phase, loc, gray, shift, refStack, infusions, stack, pending>>
  /\ UNCHANGED threadVars

-----------------------------------------------------------------------------
\* Frames that end.

\* A frame is popped and destroyed; the thread that has none left is finished.
FramePopped(t) ==
  /\ left' = LeftAfter(Top(t))
  /\ stack' = [stack EXCEPT ![t] = Without(stack[t], 1)]
  /\ finished' = IF Len(stack[t]) = 1 THEN finished \cup {t} ELSE finished
  /\ UNCHANGED <<loc, gray, shift, refStack, infusions, current>>

RETURN(t) ==
  /\ Running(t)
  /\ mem' = Freed(Top(t))
  /\ FramePopped(t)
  /\ UNCHANGED <<phase, pending, halted>>

ARETURN(t) ==
  /\ Running(t) /\ Len(stack[t]) > 1 /\ Operands(t) # <<>>
  /\ LET caller == stack[t][Len(stack[t]) - 1]
     IN /\ Len(mem[caller].refs) < MaxStack
        /\ mem' = [Freed(Top(t)) EXCEPT
                     ![caller].refs = Append(mem[caller].refs, LastOf(Operands(t)))]
  /\ FramePopped(t)
  /\ UNCHANGED <<phase, pending, halted>>

\* dj_exec_throw: a handler of the running method takes the exception, or the frame goes
\* and the caller is asked.  What nobody takes stops the machine: dj_panic.
Unwinding == halted = "no" /\ phase = "unwind"

CATCH ==
  /\ Unwinding /\ stack[current] # <<>>
  /\ mem' = WithOperands(current, <<pending.ref>>)
  /\ phase' = "run" /\ pending' = Nothing
  /\ UNCHANGED <<left, loc, gray, shift, refStack, infusions, stack, halted, current, finished>>

UNWIND ==
  /\ Unwinding /\ stack[current] # <<>>
  /\ mem' = Freed(Top(current))
  /\ FramePopped(current)
  /\ halted' = IF Len(stack[current]) = 1 THEN "uncaught" ELSE "no"
  /\ UNCHANGED <<phase, pending>>

-----------------------------------------------------------------------------
\* Infusions that go, and threads that end.

\* dj_mem_shiftRuntimeIDs.
NoneInvalid(id, start, range) ==        \* faulty: the objects of its classes stay as they are
  IF id > start + range THEN id - range ELSE id
Renumbered(id, start, range) ==
  IF id > start /\ id < start + range THEN INVALID
  ELSE IF id > start + range THEN id - range
  ELSE id

\* dj_vm_safeToUnload, and the test for the system infusion.
ImportersIgnored(a) == mem[a].name # BaseName       \* faulty: who imports it is not asked
SafeToUnload(a) ==
  mem[a].name # BaseName /\ \A b \in Members(infusions) : mem[b].infusion # a

BasesStay(a) ==                         \* faulty: class_base of the others is left
  LET start == mem[a].base
      range == NrClasses[mem[a].name]
  IN [x \in DOMAIN mem |-> [mem[x] EXCEPT !.id = Renumbered(mem[x].id, start, range)]]
UnloadedFrom(a) ==
  LET start == mem[a].base
      range == NrClasses[mem[a].name]
  IN [x \in DOMAIN mem |->
       [mem[x] EXCEPT !.id = Renumbered(mem[x].id, start, range),
                      !.base = IF x \in Members(infusions) /\ mem[x].base > start
                               THEN mem[x].base - range ELSE mem[x].base]]

\* dj_vm_unloadInfusion ends every thread with a method of the infusion on its stack.  (A
\* refused unload changes nothing but throws: left out, as THROW is the step for exceptions.)
OnlyTop(u, a) == stack[u] # <<>> /\ mem[Top(u)].infusion = a   \* faulty: callers are not looked at
Executes(u, a) == \E f \in Members(stack[u]) : mem[f].infusion = a

Unlinked(s, i) == [j \in 1 .. Len(s) - 1 |-> IF j < i THEN s[j] ELSE s[j + 1]]

UNLOAD(t) ==
  /\ Running(t)
  /\ \E i \in DOMAIN infusions :
       /\ SafeToUnload(infusions[i])
       /\ finished' = finished \cup {u \in Threads : Executes(u, infusions[i])}
       /\ mem' = UnloadedFrom(infusions[i])
       /\ infusions' = Unlinked(infusions, i)
  /\ UNCHANGED <<left, phase, loc, gray, shift, refStack, stack, pending, halted, current>>

\* dj_vm_schedule: the finished threads are removed, not so their frames, and another
\* thread runs.
SCHEDULE ==
  /\ halted = "no" /\ phase = "run"
  /\ stack' = [t \in Threads |-> IF t \in finished THEN <<>> ELSE stack[t]]
  /\ finished' = {}
  /\ \E u \in Threads : stack'[u] # <<>> /\ current' = u
  /\ UNCHANGED <<mem, left, phase, loc, gray, shift, refStack, infusions, pending, halted>>

Instruction(t) ==
  \/ GETSTATIC_A(t) \/ PUTSTATIC_A(t) \/ GETFIELD_A(t) \/ PUTFIELD_A(t) \/ POP(t)
  \/ NEWOBJECT(t) \/ ANEWARRAY(t) \/ INVOKE(t) \/ START(t) \/ THROW(t) \/ LOAD(t)
  \/ RETURN(t) \/ ARETURN(t) \/ UNLOAD(t)

Resume == GotObject \/ GotFrame \/ GotInfusion \/ GotException
          \/ OutOfMemory \/ Panic \/ CATCH \/ UNWIND

Next == (\E t \in Threads : Instruction(t)) \/ Resume \/ SCHEDULE \/ (Collect /\ UNCHANGED threadVars)

Spec == Init /\ [][Next]_vars

-----------------------------------------------------------------------------
\* Properties.

Ref == {NoRef} \cup (0 .. HeapSize - 1)
ChunkType ==
  [kind : {"object", "frame", "infusion"}, id : Nat, size : Nat \ {0},
   color : {"white", "gray", "black"}, shift : Nat, refs : Seq(Int), infusion : Int,
   base : Nat, name : Names \cup {NoName}, class : Nat, label : Labels \cup {NoLabel}]

\* The state is as the C types say; addresses of chunks lie in the heap.
TypeOK ==
  /\ DOMAIN mem \subseteq 0 .. HeapSize - 1
  /\ \A a \in DOMAIN mem : mem[a] \in ChunkType
  /\ left \in 0 .. HeapSize /\ loc \in 0 .. HeapSize /\ gray \in BOOLEAN /\ shift \in Nat
  /\ phase \in {"run", "alloc", "unwind", "mark", "shift", "managed", "system", "move"}
  /\ refStack \in Seq(Int) /\ infusions \in Seq(Int)
  /\ stack \in [Threads -> Seq(Int)]
  /\ halted \in {"no", "class", "stale", "link", "memory", "uncaught"}
  /\ current \in Threads /\ finished \subseteq Threads

\* The chunks lie side by side from heap_base to left_pointer: each loop of the collector
\* visits each of them once, and compaction neither tears a chunk nor leaves a hole.
HeapTiled ==
  phase # "move" =>
    /\ left > 0 => 0 \in DOMAIN mem
    /\ \A a \in DOMAIN mem :
         /\ a + mem[a].size \in DOMAIN mem \cup {left}
         /\ \A b \in DOMAIN mem : a < b => a + mem[a].size <= b

\* What a reference means while some references are already new and others are not: the
\* place its chunk has, or will have.
Place(d) ==
  IF phase = "system" \/ (phase = "move" /\ d >= loc) THEN d - mem[d].shift ELSE d
At(r, new) ==
  IF new THEN {d \in DOMAIN mem : InUse(d) /\ Place(d) = r}
  ELSE {d \in {r} \cap DOMAIN mem : InUse(d)}
New(h) == phase = "move" \/ (phase = "system" /\ HasRefs(mem[h]))
Moving == phase = "move"

Means(r, new) == IF r = NoRef THEN {NoLabel} ELSE {mem[d].label : d \in At(r, new)}
RefsMean(h) == [i \in DOMAIN mem[h].refs |-> Means(mem[h].refs[i], New(h))]

\* The Java program's view: the frames of each thread, the statics of each infusion, and
\* the objects that can be reached from them with what they refer to.
FrameView(f) == [method |-> mem[f].name, refs |-> RefsMean(f)]
StackView(t) == [i \in DOMAIN stack[t] |-> {FrameView(f) : f \in At(stack[t][i], Moving)}]
StaticsView(i) == {<<mem[a].name, RefsMean(a)>> : a \in At(infusions[i], Moving)}

MeantBy(h) == (UNION Members(RefsMean(h))) \ {NoLabel}
RootLabels ==
  UNION {MeantBy(h) : h \in UNION {At(p, Moving) : p \in Frames \cup Members(infusions)}}
Holders == {h \in DOMAIN mem : HasRefs(mem[h])}
References == {<<mem[h].label, MeantBy(h)>> : h \in Holders}

\* The least set of objects that the roots are in and that is closed under reference.  (The
\* sets with one element are there to have TLC compute that element once.)
Closed(references) ==
  {s \in SUBSET Labels : \A r \in references : r[1] \in s => r[2] \subseteq s}
Least(sets, roots) == {l \in Labels : \A s \in sets : roots \subseteq s => l \in s}
Reached ==
  UNION {Least(Closed(graph.references), graph.roots) :
           graph \in {[references |-> References, roots |-> RootLabels]}}
ReachedHolders ==
  UNION {{h \in Holders : mem[h].label \in reached} : reached \in {Reached}}

View ==
  [stacks |-> [t \in Threads |-> StackView(t)],
   statics |-> [i \in DOMAIN infusions |-> StaticsView(i)],
   objects |-> {<<mem[h].label, mem[h].id, RefsMean(h)>> : h \in ReachedHolders}]

InCollection == phase \in {"mark", "shift", "managed", "system", "move"}

\* No step of the collector changes what the program sees: not a color, not a freed
\* chunk, not a reference updated before or after another, not a move.
ViewKept ==
  [][InCollection => View' = View]_vars

\* Every reference the program can get hold of leads to one object.
LeadsToOne(s) == \A i \in DOMAIN s : \E l \in Labels \cup {NoLabel} : s[i] = {l}
RefsLive ==
  phase = "run" =>
    /\ \A p \in Frames \cup Members(infusions) : At(p, FALSE) = {p} /\ LeadsToOne(RefsMean(p))
    /\ \A h \in ReachedHolders : LeadsToOne(RefsMean(h))

\* Marking: a black object has no white child, and no root is white.
TriColor ==
  phase = "mark" =>
    /\ \A r \in FrameRefs \cup StaticRefs \cup Members(refStack) :
         r # NoRef => mem[r].color # "white"
    /\ \A a \in DOMAIN mem :
         HasRefs(mem[a]) /\ mem[a].color = "black" =>
           \A r \in Members(mem[a].refs) : r # NoRef => mem[r].color # "white"

\* One collection frees every object that cannot be reached: none stays because of its
\* color in the collection before, of the order of the chunks, or of a cycle.
GarbageFreed ==
  phase = "shift" => Holders = ReachedHolders

\* Every step of the collector brings it nearer to its end: to a later loop, or to fewer
\* chunks left for the loop it is in, or, in the do .. while of the marking, to a round that
\* finds nothing gray.  It cannot mark for ever, whatever refers to what.
Loop == [mark |-> 1, shift |-> 2, managed |-> 3, system |-> 4, move |-> 5, alloc |-> 6]
NotBlack == {a \in DOMAIN mem : mem[a].color # "black"}
Unmoved == {a \in DOMAIN mem : a >= loc /\ InUse(a)}
Shrinks(old, new) == new \subseteq old /\ new # old
CollectionAdvances ==
  [][InCollection =>
       \/ halted' # "no"
       \/ Loop[phase'] > Loop[phase]
       \/ phase = "mark" /\ phase' = "mark" /\ Shrinks(NotBlack, NotBlack')
       \/ phase = "mark" /\ phase' = "mark" /\ NotBlack' = NotBlack /\ gray /\ ~gray'
       \/ phase = "move" /\ phase' = "move" /\ Shrinks(Unmoved, Unmoved')]_vars

\* The classes of the loaded infusions have the runtime ids from JAVA_START on, without
\* gap or overlap, whatever was unloaded.
RangesTile ==
  phase = "run" =>
    \A i \in DOMAIN infusions :
      mem[infusions[i]].base =
        IF i = 1 THEN JAVA_START
        ELSE mem[infusions[i - 1]].base + NrClasses[mem[infusions[i - 1]].name]

\* An object is of the class it was created of, or, its infusion unloaded, invalid.
ClassKept ==
  phase = "run" =>
    \A x \in DOMAIN mem : mem[x].kind = "object" /\ mem[x].id \notin {FREE, REFARRAY} =>
      \/ mem[x].id = INVALID /\ mem[x].name # BaseName
      \/ \E a \in Members(infusions) :
           mem[a].name = mem[x].name /\ mem[x].id = mem[a].base + mem[x].class

\* The comment of dj_mem_shiftRuntimeIDs: an id in [start, start+range> is marked invalid,
\* an id from start+range on is mapped to one from start on.
Mapped(id, start, range) ==
  IF start <= id /\ id < start + range THEN INVALID
  ELSE IF start + range <= id THEN id - range
  ELSE id

Unloads(a) == phase = "run" /\ a \in Members(infusions) \ Members(infusions')

\* Unloading does to the id of every object on the heap what that comment says.  It does not
\* to the first class of the infusion unloaded, nor to the first of the next.
IdsMapped ==
  [][\A a \in Members(infusions) : \A x \in DOMAIN mem :
       Unloads(a) /\ IsJava(mem[x]) =>
         mem'[x].id = Mapped(mem[x].id, mem[a].base, NrClasses[mem[a].name])]_vars

\* The methods on the stack of a thread that is not ended, and the infusions a loaded
\* infusion imports, are loaded.
CodeLoaded ==
  phase = "run" =>
    /\ \A a \in Members(infusions) : mem[a].infusion \in Members(infusions) \cup {NoRef}
    /\ \A t \in Threads \ finished : \A f \in Members(stack[t]) :
         mem[f].infusion \in Members(infusions)

\* The collector and the program find the class of every object, and the collector reads a
\* stale infusion only for a frame whose thread was ended from outside:
\* dj_vm_unloadInfusion ends it, the frame stays in the heap for ever.
CollectorGoesOn ==
  /\ halted # "class"
  /\ halted = "stale" => \A t \in Threads \ finished : Members(stack[t]) \cap StaleFrames = {}
==============================================================================
