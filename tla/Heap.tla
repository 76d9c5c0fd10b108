--------------------------------- MODULE Heap ---------------------------------
(***************************************************************************)
(* The heap of the virtual machine (heap.c) and its collector: a bump       *)
(* allocator that, when the room runs out, marks what can be reached with    *)
(* three colours and slides the chunks that are left together.              *)
(*                                                                         *)
(* The machine is stopped while it collects.  Marking, the shifts and the     *)
(* moves go chunk by chunk; a loop whose turns do not touch what the others   *)
(* read is one step.  Java objects have one reference each and reference     *)
(* arrays one element; the integers are left out, and with them the objects  *)
(* that hold nothing else.  The VM struct,    *)
(* the threads and the monitor blocks, which are never collected, are kept   *)
(* outside the heap: the variables infusions and stack stand for the         *)
(* pointers in them.  The linked lists of frames and of infusions are        *)
(* sequences of addresses.  Addresses count units of the allocator from      *)
(* heap_base.                                                              *)
(***************************************************************************)
EXTENDS Integers, Sequences, FiniteSets

CONSTANTS
  Threads,          \* Java threads
  Labels,           \* identities of Java objects, for the properties only
  NoLabel,
  Names,            \* names of infusions
  NoName,
  NrClasses,        \* number of classes in the class list of each infusion
  HeapSize,         \* bound: heap_size
  NoRef             \* nullref

ASSUME HeapAssumption ==
  /\ NoLabel \notin Labels
  /\ NoName \notin Names
  /\ NrClasses \in [Names -> Nat]
  /\ HeapSize \in Nat
  /\ NoRef \in Int \ Nat

\* enum chunk_id.
FREE == 0
INVALID == 1
FRAME == 4
MANAGED_START == 6
INFUSION == 6
REFARRAY == 7
JAVA_START == 9

VARIABLES
  mem,              \* the chunks: address -> [id, size, color, shift, and the contents]
  left,             \* left_pointer
  phase,            \* the loop the collector is in; "run": the machine runs
  loc,              \* loc, where that loop stands
  gray,             \* nrGray > 0
  shift,            \* shift: the free memory, once it is computed
  refStack,         \* refStack, the compaction update stack
  infusions,        \* vm->infusions
  stack,            \* frameStack of each thread, the running frame last
  pending,          \* the operation that called dj_mem_alloc
  halted            \* "no", or why the machine stopped

heapVars == <<mem, left, phase, loc, gray, shift, refStack, infusions, stack, pending, halted>>

Members(s) == {s[i] : i \in DOMAIN s}

\* Chunks as they are allocated; color and shift are what was there before, and are
\* written before they are read.  refs: the references of an object, a frame (its
\* operand stack) or an infusion (its static); infusion: method.infusion of a frame,
\* referencedInfusions of an infusion; base: class_base.  For the properties only: name
\* and class are what an object was created as and the infusion a frame was created in,
\* label says which object it is, kind what the contents are.
Chunk(kind, id, size, refs, infusion, base, name, class, label) ==
  [kind |-> kind, id |-> id, size |-> size, color |-> "white", shift |-> 0,
   refs |-> refs, infusion |-> infusion, base |-> base,
   name |-> name, class |-> class, label |-> label]

Object(id, size, name, class, label) ==
  Chunk("object", id, size, <<NoRef>>, NoRef, 0, name, class, label)
Frame(size, infusion, name) ==
  Chunk("frame", FRAME, size, <<>>, infusion, 0, name, 0, NoLabel)
Infusion(size, name, import, base) ==
  Chunk("infusion", INFUSION, size, <<NoRef>>, import, base, name, 0, NoLabel)

-----------------------------------------------------------------------------
\* Allocation.

HeaderLeftOut(size) == HeapSize - left >= size - 1   \* faulty: sizeof(heap_chunk) is not added
Room(size) == HeapSize - left >= size

Placed(c) == [a \in DOMAIN mem \cup {left} |-> IF a = left THEN c ELSE mem[a]]

\* dj_mem_free: the last chunk is given back, any other is left for the collector, and
\* what it held is not read again.
IsLast(a) == a + mem[a].size = left
FreeChunk(size) == Chunk("frame", FREE, size, <<>>, NoRef, 0, NoName, 0, NoLabel)
Freed(a) ==
  IF IsLast(a) THEN [x \in DOMAIN mem \ {a} |-> mem[x]]
  ELSE [mem EXCEPT ![a] = FreeChunk(mem[a].size)]
LeftAfter(a) == IF IsLast(a) THEN a ELSE left

\* dj_vm_getRuntimeClass: the infusion in the list whose range holds the id.
InRange(a, id) == mem[a].base <= id /\ id < mem[a].base + NrClasses[mem[a].name]
ClassFound(id) == \E a \in Members(infusions) : InRange(a, id)

IsJava(c) == c.id >= JAVA_START
HasRefs(c) == IsJava(c) \/ c.id = REFARRAY

-----------------------------------------------------------------------------
\* The root set.

Frames == UNION {Members(stack[t]) : t \in Threads}
FrameRefs == UNION {Members(mem[f].refs) : f \in Frames}
MainStaticRefs == Members(mem[infusions[1]].refs)      \* faulty: only the system infusion's
StaticRefs == UNION {Members(mem[a].refs) : a \in Members(infusions)}

\* The color each chunk has when dj_mem_mark begins to visit: dj_infusion_markRootSet
\* makes the statics gray whatever they were, dj_mem_setRefGrayIfWhite only the white.
ArraysStay(a, saved) ==         \* faulty: the ids below those of classes are never collected
  IF a \in StaticRefs THEN "gray"
  ELSE IF a \in Members(infusions) \/ mem[a].id < JAVA_START THEN "black"
  ELSE IF a \in FrameRefs \cup Members(saved) THEN "gray"
  ELSE "white"
RootColor(a, saved) ==
  IF a \in StaticRefs THEN "gray"
  ELSE IF a \in Members(infusions) \/ mem[a].id < MANAGED_START THEN "black"
  ELSE IF a \in FrameRefs \cup Members(saved) THEN "gray"
  ELSE "white"

RootsMarked(saved) == [a \in DOMAIN mem |-> [mem[a] EXCEPT !.color = RootColor(a, saved)]]

\* dj_mem_alloc called by operation p, with the C pointers in saved on the compaction
\* update stack.  Without room the collector starts: the colors and the root set.
Ask(p, saved) ==
  /\ pending' = p
  /\ refStack' = saved
  /\ IF Room(p.size) THEN phase' = "alloc" /\ UNCHANGED mem
     ELSE phase' = "mark" /\ mem' = RootsMarked(saved)
  /\ UNCHANGED <<left, loc, gray, shift, infusions, stack, halted>>

Collecting(ph) == halted = "no" /\ phase = ph

\* dj_mem_markObject of the chunk at a.
OnlyFields(c) == IF IsJava(c) THEN Members(c.refs) ELSE {}   \* faulty: no elements of arrays
Scanned(c) == IF HasRefs(c) THEN Members(c.refs) ELSE {}

AnyGray(a) ==                   \* faulty: what is referred to becomes gray whatever it was
  [x \in DOMAIN mem |->
    IF x \in Scanned(mem[a]) THEN [mem[x] EXCEPT !.color = "gray"]
    ELSE IF x = a THEN [mem[x] EXCEPT !.color = "black"]
    ELSE mem[x]]
Visited(a) ==
  [x \in DOMAIN mem |->
    IF x = a THEN [mem[x] EXCEPT !.color = "black"]
    ELSE IF x \in Scanned(mem[a]) /\ mem[x].color = "white"
    THEN [mem[x] EXCEPT !.color = "gray"]
    ELSE mem[x]]

\* A Java object of no class in the list stops the machine: dj_panic.
ClassMissing(c) == IsJava(c) /\ ~ClassFound(c.id)

\* The loop goes past the chunks that are not gray.
IsGray(a) == mem[a].color = "gray"
NextGray(a) == a >= loc /\ IsGray(a) /\ \A b \in DOMAIN mem : b >= loc /\ b < a => ~IsGray(b)

Mark ==
  /\ Collecting("mark")
  /\ \E a \in DOMAIN mem :
       /\ NextGray(a)
       /\ IF ClassMissing(mem[a])
          THEN halted' = "class" /\ UNCHANGED <<mem, loc, gray>>
          ELSE mem' = Visited(a) /\ gray' = TRUE /\ loc' = a + mem[a].size /\ UNCHANGED halted
  /\ UNCHANGED <<left, phase, shift, refStack, infusions, stack, pending>>

\* do .. while (nrGray > 0); then the white chunks are finalised.
Finalised ==
  [a \in DOMAIN mem |->
    IF mem[a].color = "white" THEN [mem[a] EXCEPT !.id = FREE] ELSE mem[a]]

MarkAgain ==
  /\ Collecting("mark") /\ \A a \in DOMAIN mem : a >= loc => ~IsGray(a)
  /\ loc' = 0
  /\ gray' = FALSE
  /\ IF gray THEN UNCHANGED <<mem, phase>>
     ELSE mem' = Finalised /\ phase' = "shift"
  /\ UNCHANGED <<left, shift, refStack, infusions, stack, pending, halted>>

-----------------------------------------------------------------------------
\* dj_mem_compact.

\* How far a chunk moves: by the free memory up to it, itself included.
FreeMemory ==
  {u \in 0 .. left - 1 : \E a \in DOMAIN mem : mem[a].id = FREE /\ a <= u /\ u < a + mem[a].size}
FreeChunksBelow(a) ==           \* faulty: counts chunks, not their size
  Cardinality({b \in DOMAIN mem : mem[b].id = FREE /\ b <= a})
ShiftOf(a) == Cardinality({u \in FreeMemory : u < a + mem[a].size})

Shift ==
  /\ Collecting("shift")
  /\ mem' = [a \in DOMAIN mem |-> [mem[a] EXCEPT !.shift = ShiftOf(a)]]
  /\ shift' = Cardinality(FreeMemory)
  /\ phase' = "managed"
  /\ UNCHANGED <<left, loc, gray, refStack, infusions, stack, pending, halted>>

\* dj_mem_getUpdatedReference.  A reference that is not to a chunk, which only a frame
\* that no thread has can hold, is moved by whatever lies there; nobody reads it again.
Updated(r) == IF r \in DOMAIN mem THEN r - mem[r].shift ELSE r
UpdatedAll(s) == [i \in DOMAIN s |-> Updated(s[i])]

\* First pass, dj_mem_updateManagedReference: it looks up classes, so the list of
\* infusions must still be as it was.
FieldsUpdated ==                \* faulty: the elements of arrays are left as they were
  [a \in DOMAIN mem |->
    IF IsJava(mem[a]) THEN [mem[a] EXCEPT !.refs = UpdatedAll(mem[a].refs)] ELSE mem[a]]
ManagedUpdated ==
  [a \in DOMAIN mem |->
    IF HasRefs(mem[a]) THEN [mem[a] EXCEPT !.refs = UpdatedAll(mem[a].refs)] ELSE mem[a]]

UpdateManaged ==
  /\ Collecting("managed")
  /\ IF \E a \in DOMAIN mem : ClassMissing(mem[a])
     THEN halted' = "class" /\ UNCHANGED <<mem, phase>>
     ELSE mem' = ManagedUpdated /\ phase' = "system" /\ UNCHANGED halted
  /\ UNCHANGED <<left, loc, gray, shift, refStack, infusions, stack, pending>>

\* dj_frame_updatePointers asks the method, hence the infusion, for the number of
\* locals.  Where the infusion was there is still an infusion, finalised or not, unless
\* an earlier collection freed it.
Stale(f) ==
  LET a == mem[f].infusion
  IN IF a \in DOMAIN mem THEN mem[a].kind # "infusion" \/ mem[a].name # mem[f].name ELSE TRUE

StaleFrames == {f \in DOMAIN mem : mem[f].id = FRAME /\ Stale(f)}

\* Second pass, dj_mem_updateSystemReference, and the pointers outside the heap.  What
\* follows from reading a stale infusion is beyond the model.
SystemUpdated ==
  [a \in DOMAIN mem |->
    IF mem[a].id \in {FRAME, INFUSION}
    THEN [mem[a] EXCEPT !.refs = UpdatedAll(mem[a].refs), !.infusion = Updated(mem[a].infusion)]
    ELSE mem[a]]

UpdateSystem ==
  /\ Collecting("system")
  /\ IF StaleFrames # {}
     THEN halted' = "stale" /\ UNCHANGED <<mem, phase, refStack, infusions, stack>>
     ELSE /\ mem' = SystemUpdated
          /\ refStack' = UpdatedAll(refStack)
          /\ infusions' = UpdatedAll(infusions)
          /\ stack' = [t \in Threads |-> UpdatedAll(stack[t])]
          /\ phase' = "move"
          /\ UNCHANGED halted
  /\ UNCHANGED <<left, loc, gray, shift, pending>>

\* memmove of the chunk at a: it overwrites what its new place overlaps, and what it
\* leaves behind is not read again.  Nor are color and shift: they are reset.
Overlaps(x, to, size) == x < to + size /\ to < x + mem[x].size
MovedTo(a, to) ==
  [x \in {y \in DOMAIN mem \ {a} : ~Overlaps(y, to, mem[a].size)} \cup {to} |->
    IF x = to THEN [mem[a] EXCEPT !.color = "white", !.shift = 0] ELSE mem[x]]

\* The loop goes past the free chunks.
InUse(a) == mem[a].id # FREE
NextInUse(a) == a >= loc /\ InUse(a) /\ \A b \in DOMAIN mem : b >= loc /\ b < a => ~InUse(b)

Move ==
  /\ Collecting("move")
  /\ \E a \in DOMAIN mem :
       /\ NextInUse(a)
       /\ mem' = MovedTo(a, a - mem[a].shift)
       /\ loc' = a + mem[a].size
  /\ UNCHANGED <<left, phase, gray, shift, refStack, infusions, stack, pending, halted>>

\* left_pointer -= shift; what is left of free chunks is beyond it, or overwritten.
EndMove ==
  /\ Collecting("move") /\ \A a \in DOMAIN mem : a >= loc => ~InUse(a)
  /\ left' = left - shift
  /\ mem' = [a \in {x \in DOMAIN mem : InUse(x)} |-> mem[a]]
  /\ loc' = 0 /\ shift' = 0
  /\ phase' = "alloc"
  /\ UNCHANGED <<gray, refStack, infusions, stack, pending, halted>>

\* dj_mem_gc.
Collect ==
  \/ Mark \/ MarkAgain
  \/ Shift \/ UpdateManaged \/ UpdateSystem \/ Move \/ EndMove

==============================================================================
