--------------------------- MODULE References_proofs --------------------------
(***************************************************************************)
(* Proofs about Infusions, for any threads, infusions and imports, any sizes *)
(* and any heap: what every reference leads to, in the program and at every  *)
(* point of a collection, and what the colors of marking guarantee.          *)
(***************************************************************************)
EXTENDS Classes_proofs

-----------------------------------------------------------------------------
\* A chunk as the operations leave it: the id goes with the contents, an object has one
\* reference and an infusion one static.
WellFormed(c) ==
  /\ c \in ChunkType
  /\ c.kind = "object" => c.label \in Labels /\ (c.id \in {FREE, INVALID, REFARRAY} \/ IsJava(c))
  /\ c.kind = "frame" => c.id \in {FREE, FRAME}
  /\ c.kind = "infusion" => c.id \in {FREE, INFUSION}
  /\ c.kind # "frame" => Len(c.refs) = 1

AllFormed(m) == \A a \in DOMAIN m : WellFormed(m[a])

\* A sequence of references that fits the chunk.
Fits(s, c) == s \in Seq(Int) /\ (c.kind # "frame" => Len(s) = 1)

LEMMA RefsFormed ==
  ASSUME NEW c, WellFormed(c), NEW s, Fits(s, c)
  PROVE  WellFormed([c EXCEPT !.refs = s])
BY DEF WellFormed, ChunkType, Fits, IsJava

LEMMA ColorFormed ==
  ASSUME NEW c, WellFormed(c), NEW k \in {"white", "gray", "black"}
  PROVE  WellFormed([c EXCEPT !.color = k])
BY DEF WellFormed, ChunkType, IsJava

LEMMA ShiftFormed ==
  ASSUME NEW c, WellFormed(c), NEW n \in Nat
  PROVE  WellFormed([c EXCEPT !.shift = n])
BY DEF WellFormed, ChunkType, IsJava

LEMMA LinkFormed ==
  ASSUME NEW c, WellFormed(c), NEW r \in Int
  PROVE  WellFormed([c EXCEPT !.infusion = r])
BY DEF WellFormed, ChunkType, IsJava

LEMMA FreeFormed ==
  ASSUME NEW c, WellFormed(c)
  PROVE  WellFormed([c EXCEPT !.id = FREE])
BY DEF WellFormed, ChunkType, IsJava, FREE, JAVA_START

\* The other ids an object gets.
LEMMA IdFormed ==
  ASSUME NEW c, WellFormed(c), NEW id \in Nat,
         id # c.id => c.id > JAVA_START /\ (id = INVALID \/ id >= JAVA_START)
  PROVE  WellFormed([c EXCEPT !.id = id])
<1>1. c.id \in Nat /\ [c EXCEPT !.id = id] \in ChunkType
  BY DEF WellFormed, ChunkType
<1>2. /\ [c EXCEPT !.id = id].id = id /\ [c EXCEPT !.id = id].kind = c.kind
      /\ [c EXCEPT !.id = id].label = c.label /\ [c EXCEPT !.id = id].refs = c.refs
  BY DEF WellFormed, ChunkType
<1>3. c.kind # "object" => id = c.id
  BY <1>1 DEF WellFormed, ChunkType, FREE, FRAME, INFUSION, JAVA_START
<1>4. c.kind = "object" => id \in {FREE, INVALID, REFARRAY} \/ id >= JAVA_START
  BY <1>1 DEF WellFormed, IsJava
<1>. QED
  BY <1>1, <1>2, <1>3, <1>4 DEF WellFormed, IsJava

\* What the allocations make.
LEMMA MadeFormed ==
  ASSUME NEW size \in Nat \ {0}, NEW name \in Names \cup {NoName}
  PROVE  /\ \A id \in Nat, class \in Nat, label \in Labels :
              id = REFARRAY \/ id >= JAVA_START => WellFormed(Object(id, size, name, class, label))
         /\ \A infusion \in Int : WellFormed(Frame(size, infusion, name))
         /\ \A import \in Int, base \in Nat : WellFormed(Infusion(size, name, import, base))
         /\ WellFormed(FreeChunk(size))
<1>1. NoRef \in Int /\ <<NoRef>> \in Seq(Int) /\ Len(<<NoRef>>) = 1 /\ <<>> \in Seq(Int)
  BY HeapAssumption
<1>2. \A id \in Nat, class \in Nat, label \in Labels :
        id = REFARRAY \/ id >= JAVA_START => WellFormed(Object(id, size, name, class, label))
  BY <1>1 DEF Object, Chunk, WellFormed, ChunkType, IsJava
<1>3. \A infusion \in Int : WellFormed(Frame(size, infusion, name))
  BY <1>1 DEF Frame, Chunk, WellFormed, ChunkType, FRAME, IsJava
<1>4. \A import \in Int, base \in Nat : WellFormed(Infusion(size, name, import, base))
  BY <1>1 DEF Infusion, Chunk, WellFormed, ChunkType, INFUSION, IsJava
<1>5. WellFormed(FreeChunk(size))
  BY <1>1 DEF FreeChunk, Chunk, WellFormed, ChunkType, FREE, IsJava
<1>. QED
  BY <1>2, <1>3, <1>4, <1>5

-----------------------------------------------------------------------------
\* The invariant.

ScalarsInv ==
  /\ gray \in BOOLEAN /\ shift \in Nat /\ finished \subseteq Threads
  /\ phase \in {"run", "alloc", "unwind", "mark", "shift", "managed", "system", "move"}
  /\ halted \in {"no", "class", "stale", "link", "memory", "uncaught"}
  /\ halted = "stale" => phase = "system"

ChunksInv ==
  /\ AllFormed(mem)
  /\ \A a \in DOMAIN mem : End(a) <= left
  /\ left <= HeapSize /\ loc <= left

\* What an operation that waits for memory, or an exception for its handler, relies on.
WaitInv ==
  /\ phase = "unwind" <=> pending.op = "unwind"
  /\ phase \notin {"run", "unwind"} => pending.op \in {"new", "frame", "load", "throw"}
  /\ IF pending.op = "frame" THEN Len(refStack) = 1 ELSE refStack = <<>>
  /\ pending.op = "new" => stack[current] # <<>>
  /\ pending.op \in {"new", "throw"} =>
       /\ pending.id \in Nat /\ (pending.id = REFARRAY \/ pending.id >= JAVA_START)
       /\ pending.name \in Names \cup {NoName} /\ pending.class \in Nat

\* What holds references that are read again: objects and arrays, also those that cannot be
\* reached, until they are freed, and the chunks that the pointers outside the heap are to.
Sources == {h \in DOMAIN mem : HasRefs(mem[h])} \cup {ChunkOf(p) : p \in RootPointers}
RefsOf(h) == Members(mem[h].refs)

\* Each of these references is null or leads to an object in use.  In a collection it leads
\* to the place the object has or, once the reference is updated, will have.
Leads(r, new) == r = NoRef \/ \E d \in At(r, new) : mem[d].kind = "object"
RefInv ==
  /\ \A h \in Sources : \A r \in RefsOf(h) : Leads(r, New(h))
  /\ phase = "unwind" => Leads(pending.ref, FALSE)

RInv == ScalarsInv /\ ChunksInv /\ WaitInv /\ RefInv

-----------------------------------------------------------------------------
\* While references and places are not being changed.

Live(r) == r = NoRef \/ (r \in DOMAIN mem /\ InUse(r) /\ mem[r].kind = "object")
Quiet == phase \notin {"system", "move"}

\* The references of a heap m that are read again, when its roots are those of mem.
HeldLive(m) ==
  \A h \in DOMAIN m : HasRefs(m[h]) \/ h \in RootPointers => \A r \in Members(m[h].refs) : Live(r)
AllLive ==
  /\ HeldLive(mem)
  /\ phase = "unwind" => Live(pending.ref)

LEMMA LeadsToLive == \A r : Leads(r, FALSE) <=> Live(r)
BY DEF Leads, At, Live

LEMMA RootsInPlace ==
  ASSUME IInv, phase # "move", NEW p \in RootPointers
  PROVE  /\ ChunkOf(p) = p /\ p \in DOMAIN mem /\ InUse(p) /\ Root(p) = mem[p]
         /\ mem[p].id \in {FRAME, INFUSION} /\ ~HasRefs(mem[p])
<1>1. Held(p) /\ Root(p).id \in {FRAME, INFUSION}
  BY RootsHeld DEF IInv
<1>2. p \in DOMAIN mem /\ InUse(p) /\ Root(p) = mem[p]
  BY <1>1, HeldInPlace DEF InPlace
<1>3. ChunkOf(p) = p
  <2>1. HeldAt(p, p)
    BY <1>1, <1>2 DEF Held, HeldAt, Spot, Root
  <2>. QED
    BY <2>1, HeldIsRoot DEF IInv
<1>. QED
  BY <1>1, <1>2, <1>3 DEF HasRefs, IsJava, FRAME, INFUSION, REFARRAY, JAVA_START

RootPlaces ==
  \A p : IInv /\ phase # "move" /\ p \in RootPointers =>
    /\ ChunkOf(p) = p /\ p \in DOMAIN mem /\ InUse(p) /\ Root(p) = mem[p]
    /\ mem[p].id \in {FRAME, INFUSION} /\ ~HasRefs(mem[p])
LEMMA RootPlacesHold == RootPlaces
BY RootsInPlace DEF RootPlaces

LEMMA RootPlacesNext == RootPlaces'
BY RootPlacesHold, PTL

SourcesInPlace ==
  IInv /\ phase # "move" => Sources = {h \in DOMAIN mem : HasRefs(mem[h]) \/ h \in RootPointers}
LEMMA SourcesAreInPlace == SourcesInPlace
BY RootsInPlace DEF SourcesInPlace, Sources

LEMMA SourcesInPlaceNext == SourcesInPlace'
BY SourcesAreInPlace, PTL

QuietRefs == IInv /\ Quiet => (RefInv <=> AllLive)
LEMMA QuietRefsHold == QuietRefs
<1>. SUFFICES ASSUME IInv, Quiet PROVE RefInv <=> AllLive
  BY DEF QuietRefs
<1>1. \A h : New(h) = FALSE
  BY DEF New, Quiet
<1>2. Sources = {h \in DOMAIN mem : HasRefs(mem[h]) \/ h \in RootPointers}
  BY RootsInPlace DEF Sources, Quiet
<1>. QED
  BY <1>1, <1>2, LeadsToLive DEF RefInv, AllLive, HeldLive, RefsOf

LEMMA QuietRefsNext == QuietRefs'
BY QuietRefsHold, PTL

\* A step that frees no object, and stores only references that were live or are now.
LEMMA QuietKeeps ==
  ASSUME IInv, IInv', Quiet, Quiet', RefInv,
         \A d \in DOMAIN mem : InUse(d) /\ mem[d].kind = "object" =>
           d \in DOMAIN mem' /\ mem'[d].id # FREE /\ mem'[d].kind = "object",
         \A h \in DOMAIN mem' : HasRefs(mem'[h]) \/ h \in RootPointers' =>
           \A r \in Members(mem'[h].refs) : Live(r) \/ Live(r)',
         \A r : phase' = "unwind" /\ r = pending'.ref => Live(r) \/ Live(r)'
  PROVE  RefInv'
<1>1. \A r : Live(r) => Live(r)'
  BY DEF Live, InUse
<1>2. \A r : Live(r) \/ Live(r)' => Live(r)'
  BY <1>1
<1>3. HeldLive(mem)'
  BY <1>2 DEF HeldLive
<1>4. phase' = "unwind" => Live(pending.ref)'
  <2>1. PICK r : r = pending'.ref
    OBVIOUS
  <2>2. phase' = "unwind" => Live(r)'
    BY <1>2, <2>1
  <2>. QED
    BY <2>1, <2>2 DEF Live
<1>. QED
  BY <1>3, <1>4, QuietRefsNext DEF QuietRefs, AllLive

LiveSeq(s) == s \in Seq(Int) /\ \A i \in DOMAIN s : Live(s[i])

LEMMA LiveSeqs ==
  ASSUME IInv, NEW s, LiveSeq(s)
  PROVE  /\ s # <<>> => LiveSeq(Without(s, 1)) /\ Live(LastOf(s))
         /\ Len(s) > 1 => LiveSeq(Without(s, 2)) /\ Live(s[Len(s) - 1])
         /\ \A r : Live(r) => LiveSeq(Append(s, r)) /\ LiveSeq(<<r>>)
<1>1. s \in Seq(Int) /\ \A i \in 1 .. Len(s) : Live(s[i])
  BY DEF LiveSeq
<1>2. \A r : Live(r) => r \in Int
  BY HeapAssumption DEF Live, IInv, HeapInv, Shaped
<1>3. ASSUME NEW n \in 1 .. Len(s) PROVE LiveSeq(Without(s, n))
  <2>1. /\ Without(s, n) \in Seq(Int) /\ Len(Without(s, n)) = Len(s) - n
        /\ \A i \in 1 .. Len(s) - n : Without(s, n)[i] = s[i]
    BY <1>1 DEF Without
  <2>. QED
    BY <1>1, <2>1 DEF LiveSeq
<1>4. s # <<>> => LiveSeq(Without(s, 1)) /\ Live(LastOf(s))
  BY <1>1, <1>3 DEF LastOf
<1>5. Len(s) > 1 => LiveSeq(Without(s, 2)) /\ Live(s[Len(s) - 1])
  BY <1>1, <1>3
<1>6. ASSUME NEW r, Live(r) PROVE LiveSeq(Append(s, r)) /\ LiveSeq(<<r>>)
  <2>1. r \in Int
    BY <1>2, <1>6
  <2>2. /\ Append(s, r) \in Seq(Int) /\ Len(Append(s, r)) = Len(s) + 1
        /\ \A i \in 1 .. Len(s) + 1 : Append(s, r)[i] = IF i = Len(s) + 1 THEN r ELSE s[i]
    BY <1>1, <2>1
  <2>3. \A i \in 1 .. Len(s) + 1 : Live(Append(s, r)[i])
    BY <1>1, <1>6, <2>2
  <2>4. LiveSeq(Append(s, r))
    BY <2>2, <2>3 DEF LiveSeq
  <2>5. <<r>> \in Seq(Int) /\ DOMAIN <<r>> = {1} /\ <<r>>[1] = r
    BY <2>1
  <2>. QED
    BY <1>6, <2>4, <2>5 DEF LiveSeq
<1>. QED
  BY <1>4, <1>5, <1>6

\* The heap with other references stored in it.
SoundHeap(m) == SameClasses(m, mem) /\ SameButRefs(m, mem) /\ AllFormed(m) /\ HeldLive(m)

LEMMA HeapSound == ASSUME IInv, RInv, Quiet PROVE SoundHeap(mem)
BY NothingStored, SameClassesItself, QuietRefsHold
   DEF SoundHeap, RInv, ChunksInv, QuietRefs, AllLive

LEMMA StoreSound ==
  ASSUME NEW m, SoundHeap(m), NEW x, NEW s, LiveSeq(s),
         x \in DOMAIN mem /\ mem[x].kind # "frame" => Len(s) = 1
  PROVE  SoundHeap([m EXCEPT ![x].refs = s])
<1>. DEFINE n == [m EXCEPT ![x].refs = s]
<1>1. SameClasses(n, mem) /\ SameButRefs(n, mem)
  BY SameClassesStored, RefsStored DEF SoundHeap
<1>2. /\ DOMAIN n = DOMAIN m /\ DOMAIN m = DOMAIN mem
      /\ \A a \in DOMAIN m : n[a] = IF a = x THEN [m[a] EXCEPT !.refs = s] ELSE m[a]
  BY DEF SoundHeap, SameClasses
<1>3. \A a \in DOMAIN m : WellFormed(m[a]) /\ m[a].kind = mem[a].kind
  BY DEF SoundHeap, SameClasses, AllFormed
<1>4. AllFormed(n)
  BY <1>2, <1>3, RefsFormed DEF AllFormed, Fits, LiveSeq
<1>5. ASSUME NEW h \in DOMAIN n, HasRefs(n[h]) \/ h \in RootPointers
      PROVE  \A r \in Members(n[h].refs) : Live(r)
  <2>1. CASE h = x
    <3>1. n[h].refs = s
      BY <1>2, <1>3, <1>5, <2>1 DEF WellFormed, ChunkType
    <3>. QED
      BY <3>1 DEF LiveSeq, Members
  <2>2. CASE h # x
    BY <1>2, <1>5, <2>2 DEF SoundHeap, HeldLive
  <2>. QED
    BY <2>1, <2>2
<1>. QED
  BY <1>1, <1>4, <1>5 DEF SoundHeap, HeldLive

LEMMA SoundKeeps ==
  ASSUME IInv, IInv', RInv, Quiet, Quiet', SoundHeap(mem'), infusions' = infusions, stack' = stack,
         \A r : phase' = "unwind" /\ r = pending'.ref => Live(r)
  PROVE  RefInv' /\ AllFormed(mem)' /\ \A a \in DOMAIN mem' : End(a)' <= left
<1>1. SameClasses(mem', mem) /\ SameButRefs(mem', mem) /\ AllFormed(mem') /\ HeldLive(mem')
  BY DEF SoundHeap
<1>2. RootPointers' = RootPointers
  BY DEF RootPointers, Frames
<1>3. \A h \in DOMAIN mem' : HasRefs(mem'[h]) \/ h \in RootPointers' =>
        \A r \in Members(mem'[h].refs) : Live(r)
  BY <1>1, <1>2 DEF HeldLive
<1>4. \A d \in DOMAIN mem : InUse(d) /\ mem[d].kind = "object" =>
        d \in DOMAIN mem' /\ mem'[d].id # FREE /\ mem'[d].kind = "object"
  BY <1>1 DEF SameClasses, InUse
<1>5. RefInv'
  BY <1>3, <1>4, QuietKeeps DEF RInv
<1>. QED
  BY <1>1, <1>5 DEF AllFormed, RInv, ChunksInv, End, SameButRefs

LEMMA DoSound ==
  ASSUME IInv, IInv', RInv, phase = "run", NEW m, Do(m), SoundHeap(m) PROVE RInv'
<1>1. /\ mem' = m /\ pending' = pending /\ phase' = phase
      /\ UNCHANGED <<left, loc, gray, shift, refStack, infusions, stack, halted, current, finished>>
  BY DEF Do, threadVars
<1>2. RefInv' /\ AllFormed(mem)' /\ \A a \in DOMAIN mem' : End(a)' <= left
  BY <1>1, SoundKeeps DEF Quiet
<1>. QED
  BY <1>1, <1>2 DEF RInv, ScalarsInv, ChunksInv, WaitInv

LEMMA OnSound ==
  ASSUME IInv, IInv', RInv, phase = "run", NEW r, NEW m, On(r, m), SoundHeap(m) PROVE RInv'
<1>1. CASE Do(m)
  BY <1>1, DoSound
<1>2. CASE ~Do(m)
  <2>1. /\ halted' = "class" /\ UNCHANGED threadVars
        /\ UNCHANGED <<mem, left, phase, loc, gray, shift, refStack, infusions, stack, pending>>
    BY <1>2 DEF On
  <2>2. SoundHeap(mem')
    BY <2>1, HeapSound DEF Quiet
  <2>3. RefInv' /\ AllFormed(mem)' /\ \A a \in DOMAIN mem' : End(a)' <= left
    BY <2>1, <2>2, SoundKeeps DEF Quiet
  <2>. QED
    BY <2>1, <2>3 DEF RInv, ScalarsInv, ChunksInv, WaitInv, threadVars
<1>. QED
  BY <1>1, <1>2

\* The operand stack of the running frame.
LEMMA OperandsLive ==
  ASSUME IInv, RInv, Quiet, NEW t \in Threads, stack[t] # <<>>
  PROVE  /\ Top(t) \in RootPointers /\ Top(t) \in DOMAIN mem /\ InUse(Top(t))
         /\ mem[Top(t)].kind = "frame" /\ LiveSeq(Operands(t))
<1>1. Len(stack[t]) \in DOMAIN stack[t] /\ Top(t) = stack[t][Len(stack[t])]
  BY DEF IInv, FramesInv, Top, LastOf
<1>2. PICK f : f = Top(t)
  OBVIOUS
<1>3. f \in RootPointers /\ Held(f) /\ Root(f).id = FRAME
  BY <1>1, <1>2, RootsAre DEF IInv, FramesInv
<1>4. f \in DOMAIN mem /\ InUse(f) /\ mem[f].id = FRAME
  BY <1>3, HeldInPlace DEF InPlace, Quiet
<1>5. WellFormed(mem[f])
  BY <1>4 DEF RInv, ChunksInv, AllFormed
<1>6. mem[f].kind = "frame"
  BY <1>4, <1>5
     DEF WellFormed, ChunkType, IsJava, FRAME, FREE, INVALID, REFARRAY, INFUSION, JAVA_START
<1>7. \A r \in Members(mem[f].refs) : Live(r)
  BY <1>3, <1>4, QuietRefsHold DEF QuietRefs, RInv, AllLive, HeldLive
<1>8. LiveSeq(mem[f].refs)
  BY <1>5, <1>7 DEF LiveSeq, Members, WellFormed, ChunkType
<1>. QED
  BY <1>2, <1>3, <1>4, <1>6, <1>8 DEF Operands

\* The statics of an infusion and the field of an object that can be used.
LEMMA FieldsLive ==
  ASSUME IInv, RInv, Quiet
  PROVE  /\ \A a \in Members(infusions) :
              a \in DOMAIN mem /\ mem[a].kind = "infusion" /\ mem[a].id = INFUSION
              /\ mem[a].name \in Names /\ Live(mem[a].refs[1])
         /\ \A a \in DOMAIN mem : HasRefs(mem[a]) =>
              mem[a].kind = "object" /\ Live(mem[a].refs[1])
<1>1. ASSUME NEW a \in Members(infusions)
      PROVE  /\ a \in DOMAIN mem /\ mem[a].kind = "infusion" /\ mem[a].id = INFUSION
             /\ mem[a].name \in Names /\ Live(mem[a].refs[1])
  <2>1. PICK i \in DOMAIN infusions : a = infusions[i]
    BY DEF Members
  <2>2. Held(a) /\ Root(a).id = INFUSION /\ Root(a).name \in Names
    BY <2>1 DEF IInv, InfusionsInv, Inf
  <2>3. a \in DOMAIN mem /\ mem[a].id = INFUSION /\ mem[a].name \in Names
    BY <2>2, HeldInPlace DEF InPlace, Quiet
  <2>4. WellFormed(mem[a])
    BY <2>3 DEF RInv, ChunksInv, AllFormed
  <2>5. mem[a].kind = "infusion" /\ Len(mem[a].refs) = 1
    BY <2>3, <2>4
       DEF WellFormed, ChunkType, IsJava, FRAME, FREE, INVALID, REFARRAY, INFUSION, JAVA_START
  <2>6. mem[a].refs[1] \in Members(mem[a].refs)
    BY <2>4, <2>5 DEF Members, WellFormed, ChunkType
  <2>7. Live(mem[a].refs[1])
    BY <2>3, <2>6, QuietRefsHold DEF QuietRefs, RInv, AllLive, HeldLive, RootPointers
  <2>. QED
    BY <2>3, <2>5, <2>7
<1>2. ASSUME NEW a \in DOMAIN mem, HasRefs(mem[a])
      PROVE  mem[a].kind = "object" /\ Live(mem[a].refs[1])
  <2>1. WellFormed(mem[a])
    BY DEF RInv, ChunksInv, AllFormed
  <2>2. mem[a].kind = "object" /\ Len(mem[a].refs) = 1
    BY <1>2, <2>1
       DEF WellFormed, ChunkType, HasRefs, IsJava, FRAME, FREE, INVALID, REFARRAY, INFUSION,
           JAVA_START
  <2>3. mem[a].refs[1] \in Members(mem[a].refs)
    BY <2>1, <2>2 DEF Members, WellFormed, ChunkType
  <2>. QED
    BY <1>2, <2>2, <2>3, QuietRefsHold DEF QuietRefs, RInv, AllLive, HeldLive
<1>. QED
  BY <1>1, <1>2

LEMMA OperandsRefs ==
  ASSUME IInv, IInv', RInv, NEW t \in Threads,
         GETSTATIC_A(t) \/ PUTSTATIC_A(t) \/ GETFIELD_A(t) \/ PUTFIELD_A(t) \/ POP(t)
  PROVE  RInv'
<1>1. Running(t) /\ phase = "run" /\ Quiet /\ stack[t] # <<>>
  BY DEF GETSTATIC_A, PUTSTATIC_A, GETFIELD_A, PUTFIELD_A, POP, Running, Quiet
<1>2. PICK s : s = Operands(t)
  OBVIOUS
<1>3. LiveSeq(s) /\ mem[Top(t)].kind = "frame" /\ SoundHeap(mem)
  BY <1>1, <1>2, OperandsLive, HeapSound
<1>4. ASSUME NEW o, LiveSeq(o) PROVE SoundHeap(WithOperands(t, o))
  BY <1>3, <1>4, StoreSound DEF WithOperands
<1>5. ASSUME NEW o, LiveSeq(o), NEW x, NEW r, Live(r)
      PROVE  SoundHeap([WithOperands(t, o) EXCEPT ![x].refs = <<r>>])
  <2>1. LiveSeq(<<r>>) /\ Len(<<r>>) = 1
    BY <1>3, <1>5, LiveSeqs
  <2>. QED
    BY <1>4, <1>5, <2>1, StoreSound
<1>6. CASE GETSTATIC_A(t)
  <2>1. PICK a \in Resolved(t) : Do(WithOperands(t, Append(s, mem[a].refs[1])))
    BY <1>2, <1>6 DEF GETSTATIC_A
  <2>2. Live(mem[a].refs[1])
    BY <1>1, ResolvedLoaded, FieldsLive
  <2>. QED
    BY <1>1, <1>3, <1>4, <2>1, <2>2, LiveSeqs, DoSound
<1>7. CASE PUTSTATIC_A(t)
  <2>1. PICK a \in Resolved(t) :
          s # <<>> /\ Do([WithOperands(t, Without(s, 1)) EXCEPT ![a].refs = <<LastOf(s)>>])
    BY <1>2, <1>7 DEF PUTSTATIC_A
  <2>. QED
    BY <1>1, <1>3, <1>5, <2>1, LiveSeqs, DoSound
<1>8. CASE GETFIELD_A(t)
  <2>1. /\ s # <<>> /\ Usable(LastOf(s))
        /\ On(LastOf(s), WithOperands(t, Append(Without(s, 1), mem[LastOf(s)].refs[1])))
    BY <1>2, <1>8 DEF GETFIELD_A
  <2>2. LiveSeq(Without(s, 1)) /\ Live(mem[LastOf(s)].refs[1])
    BY <1>1, <1>3, <2>1, LiveSeqs, FieldsLive DEF Usable, Live
  <2>. QED
    BY <1>1, <1>4, <2>1, <2>2, LiveSeqs, OnSound
<1>9. CASE PUTFIELD_A(t)
  <2>1. /\ Len(s) > 1
        /\ On(s[Len(s) - 1],
              [WithOperands(t, Without(s, 2)) EXCEPT ![s[Len(s) - 1]].refs = <<LastOf(s)>>])
    BY <1>2, <1>9 DEF PUTFIELD_A
  <2>2. LiveSeq(Without(s, 2)) /\ s # <<>> /\ Live(LastOf(s))
    BY <1>3, <2>1, LiveSeqs DEF LiveSeq
  <2>. QED
    BY <1>1, <1>5, <2>1, <2>2, OnSound
<1>10. CASE POP(t)
  BY <1>1, <1>2, <1>3, <1>4, <1>10, LiveSeqs, DoSound DEF POP
<1>. QED
  BY <1>6, <1>7, <1>8, <1>9, <1>10

-----------------------------------------------------------------------------
\* Asking for memory, and the start of a collection.

\* While marking, no black object and no root refers to a white object, and a pass that has
\* found no gray chunk yet begins at heap_base.
MarkInv ==
  phase = "mark" =>
    /\ gray = FALSE => loc = 0
    /\ \A h \in Sources : (HasRefs(mem[h]) => mem[h].color = "black") =>
         \A r \in RefsOf(h) : r = NoRef \/ mem[r].color # "white"

\* What WaitInv says of the operation, before it asks.
Waits(p, saved) ==
  /\ p.op \in {"new", "frame", "load", "throw"}
  /\ IF p.op = "frame" THEN Len(saved) = 1 ELSE saved = <<>>
  /\ p.op = "new" => stack[current] # <<>>
  /\ p.op \in {"new", "throw"} =>
       /\ p.id \in Nat /\ (p.id = REFARRAY \/ p.id >= JAVA_START)
       /\ p.name \in Names \cup {NoName} /\ p.class \in Nat

LEMMA ColorsSound ==
  ASSUME IInv, RInv, Quiet, NEW m, DOMAIN m = DOMAIN mem,
         \A a \in DOMAIN mem : \E k \in {"white", "gray", "black"} :
           m[a] = mem[a] \/ m[a] = [mem[a] EXCEPT !.color = k]
  PROVE  SoundHeap(m)
<1>1. SoundHeap(mem)
  BY HeapSound
<1>2. \A a \in DOMAIN mem : WellFormed(mem[a]) /\ DOMAIN mem[a] = Fields
  BY DEF RInv, ChunksInv, AllFormed, IInv, HeapInv, Shaped
<1>3. ASSUME NEW a \in DOMAIN mem
      PROVE  /\ WellFormed(m[a]) /\ DOMAIN m[a] = DOMAIN mem[a] /\ m[a].refs = mem[a].refs
             /\ m[a].kind = mem[a].kind /\ m[a].name = mem[a].name /\ m[a].class = mem[a].class
             /\ m[a].id = mem[a].id /\ m[a].base = mem[a].base /\ m[a].size = mem[a].size
             /\ m[a].infusion = mem[a].infusion
  <2>1. PICK k \in {"white", "gray", "black"} :
          m[a] = mem[a] \/ m[a] = [mem[a] EXCEPT !.color = k]
    OBVIOUS
  <2>2. PICK c : c = mem[a]
    OBVIOUS
  <2>3. WellFormed(c) /\ WellFormed([c EXCEPT !.color = k])
    BY <1>2, <2>2, ColorFormed
  <2>4. WellFormed(m[a])
    BY <2>1, <2>2, <2>3
  <2>. QED
    BY <1>2, <2>1, <2>4 DEF Fields
<1>4. SameClasses(m, mem) /\ SameButRefs(m, mem)
  BY <1>3 DEF SameClasses, SameButRefs
<1>5. HeldLive(m)
  BY <1>1, <1>3 DEF SoundHeap, HeldLive, HasRefs, IsJava
<1>. QED
  BY <1>3, <1>4, <1>5 DEF SoundHeap, AllFormed

\* What dj_mem_mark has colored when it begins to visit.
LEMMA RootsColored ==
  ASSUME IInv, RInv, Quiet, NEW saved, NEW h \in DOMAIN mem
  PROVE  /\ RootColor(h, saved) \in {"white", "gray", "black"}
         /\ HasRefs(mem[h]) => RootColor(h, saved) # "black"
         /\ h \in FrameRefs \cup StaticRefs \cup RootPointers => RootColor(h, saved) # "white"
<1>1. HasRefs(mem[h]) => h \notin Members(infusions) /\ ~(mem[h].id < MANAGED_START)
  <2>1. WellFormed(mem[h])
    BY DEF RInv, ChunksInv, AllFormed
  <2>. QED
    BY <2>1, FieldsLive
       DEF HasRefs, IsJava, REFARRAY, JAVA_START, MANAGED_START, INFUSION, WellFormed, ChunkType
<1>2. h \in Frames => mem[h].id = FRAME
  <2>1. ASSUME NEW t \in Threads, NEW i \in DOMAIN stack[t], h = stack[t][i] PROVE mem[h].id = FRAME
    <3>1. Held(h) /\ Root(h).id = FRAME
      BY <2>1 DEF IInv, FramesInv
    <3>. QED
      BY <3>1, HeldInPlace DEF InPlace, Quiet
  <2>. QED
    BY <2>1 DEF Frames, Members
<1>. QED
  BY <1>1, <1>2 DEF RootColor, RootPointers, FRAME, MANAGED_START

LEMMA AskRefs ==
  ASSUME IInv, IInv', RInv, phase \in {"run", "alloc"}, halted = "no", NEW p, NEW saved,
         Ask(p, saved), UNCHANGED threadVars, Waits(p, saved)
  PROVE  RInv' /\ MarkInv'
<1>1. /\ pending' = p /\ refStack' = saved /\ phase' \in {"alloc", "mark"} /\ Quiet /\ Quiet'
      /\ UNCHANGED <<left, loc, gray, shift, infusions, stack, halted, current, finished>>
      /\ phase' = "mark" => mem' = RootsMarked(saved)
      /\ phase' # "mark" => mem' = mem
  BY DEF Ask, threadVars, Quiet
<1>2. SoundHeap(mem')
  BY <1>1, HeapSound, ColorsSound, RootsColored DEF RootsMarked
<1>3. RefInv' /\ AllFormed(mem)' /\ \A a \in DOMAIN mem' : End(a)' <= left
  BY <1>1, <1>2, SoundKeeps
<1>4. RInv'
  <2>1. WaitInv'
    BY <1>1 DEF WaitInv, Waits
  <2>2. ScalarsInv'
    BY <1>1 DEF RInv, ScalarsInv
  <2>3. ChunksInv'
    BY <1>1, <1>3 DEF RInv, ChunksInv
  <2>. QED
    BY <1>3, <2>1, <2>2, <2>3 DEF RInv
<1>5. ASSUME phase' = "mark" PROVE MarkInv'
  <2>1. loc' = 0
    BY <1>1 DEF IInv, HeapInv
  <2>2. /\ DOMAIN mem' = DOMAIN mem
        /\ \A a \in DOMAIN mem : mem'[a].color = RootColor(a, saved) /\ mem'[a].refs = mem[a].refs
                                 /\ mem'[a].id = mem[a].id
    <3>1. \A a \in DOMAIN mem : DOMAIN mem[a] = Fields
      BY DEF IInv, HeapInv, Shaped
    <3>. QED
      BY <1>1, <1>5, <3>1 DEF RootsMarked, Fields
  <2>3. ASSUME NEW p1 \in RootPointers'
        PROVE  p1 \in RootPointers /\ ChunkOf(p1)' = p1
    <3>1. p1 \in RootPointers
      BY <1>1 DEF RootPointers, Frames
    <3>. QED
      BY <1>1, <2>3, <3>1, RootPlacesNext DEF RootPlaces, Quiet
  <2>4. ASSUME NEW h \in Sources', HasRefs(mem[h])' => mem'[h].color = "black",
               NEW r \in RefsOf(h)'
        PROVE  r = NoRef \/ mem'[r].color # "white"
    <3>1. ~HasRefs(mem[h])' => h \in RootPointers
      BY <2>3 DEF Sources
    <3>2. h \in DOMAIN mem' => h \in DOMAIN mem /\ (HasRefs(mem[h])' <=> HasRefs(mem[h]))
      BY <2>2 DEF HasRefs, IsJava
    <3>3. h \in RootPointers /\ h \in DOMAIN mem
      <4>1. HasRefs(mem[h])' => h \notin DOMAIN mem
        BY <1>1, <2>2, <2>4, <3>2, RootsColored
      <4>2. \A q \in RootPointers : q \in DOMAIN mem /\ ~HasRefs(mem[q])
        BY <1>1, RootsInPlace DEF Quiet
      <4>. QED
        BY <2>2, <2>3, <3>1, <3>2, <4>1, <4>2 DEF Sources
    <3>4. r \in Members(mem[h].refs)
      BY <2>2, <2>4, <3>3 DEF RefsOf
    <3>5. r \in FrameRefs \cup StaticRefs
      BY <3>3, <3>4 DEF FrameRefs, StaticRefs, RootPointers
    <3>6. Live(r)
      BY <1>1, <3>3, <3>4, QuietRefsHold DEF RInv, QuietRefs, AllLive, HeldLive
    <3>. QED
      BY <1>1, <2>2, <3>5, <3>6, RootsColored DEF Live
  <2>. QED
    BY <2>1, <2>4 DEF MarkInv
<1>6. MarkInv'
  BY <1>5 DEF MarkInv
<1>. QED
  BY <1>4, <1>6

LEMMA ListedBases ==
  ASSUME IInv, phase # "move", NEW a \in Members(infusions)
  PROVE  /\ mem[a].base \in Nat /\ mem[a].base >= JAVA_START
         /\ mem[a].name \in Names /\ NrClasses[mem[a].name] \in Nat
<1>1. PICK i \in DOMAIN infusions : a = infusions[i]
  BY DEF Members
<1>2. Held(a) /\ Root(a) = Inf(i)
  BY <1>1 DEF IInv, InfusionsInv, Inf
<1>3. mem[a] = Inf(i)
  BY <1>2, HeldInPlace DEF InPlace
<1>4. /\ Inf(i).base \in Nat /\ Inf(i).name \in Names
      /\ Inf(1).base = JAVA_START /\ Inf(1).name \in Names
      /\ i > 1 => Limit(1) <= Inf(i).base
      /\ i \in Nat /\ i >= 1
  BY <1>1 DEF IInv, InfusionsInv
<1>5. NrClasses[Inf(i).name] \in Nat /\ NrClasses[Inf(1).name] \in Nat
  BY <1>4, HeapAssumption
<1>6. Inf(i).base >= JAVA_START
  <2>1. CASE i = 1
    BY <1>4, <2>1 DEF JAVA_START
  <2>2. CASE i > 1
    BY <1>4, <1>5, <2>2 DEF Limit, JAVA_START
  <2>. QED
    BY <1>4, <2>1, <2>2
<1>. QED
  BY <1>3, <1>4, <1>5, <1>6

LEMMA ThrowWaits == ASSUME IInv, phase # "move" PROVE Waits(Throw, <<>>)
<1>1. infusions[1] \in Members(infusions)
  BY DEF IInv, InfusionsInv, Members
<1>2. /\ Throw.op = "throw" /\ Throw.id = mem[infusions[1]].base + FirstClass
      /\ Throw.name = BaseName /\ Throw.class = FirstClass
  BY DEF Throw
<1>. QED
  BY <1>1, <1>2, ListedBases, InfusionsAssumption DEF Waits, JAVA_START

LEMMA AllocationRefs ==
  ASSUME IInv, IInv', RInv, NEW t \in Threads,
         NEWOBJECT(t) \/ ANEWARRAY(t) \/ INVOKE(t) \/ START(t) \/ THROW(t) \/ LOAD(t)
  PROVE  RInv' /\ MarkInv'
<1>1. /\ Running(t) /\ phase = "run" /\ halted = "no" /\ UNCHANGED threadVars /\ phase # "move"
      /\ stack[current] # <<>>
  BY DEF NEWOBJECT, ANEWARRAY, INVOKE, START, THROW, LOAD, Running
<1>2. refStack = <<>>
  BY <1>1 DEF RInv, WaitInv, IInv, PendingInv, Nothing
<1>3. CASE NEWOBJECT(t)
  <2>0. PICK a \in Resolved(t) : \E k \in FirstClass .. NrClasses[mem[a].name] - 1 :
          Ask([op |-> "new", size |-> ObjectSize,
               id |-> mem[a].base + k, name |-> mem[a].name, class |-> k], refStack)
    BY <1>3 DEF NEWOBJECT
  <2>1. PICK k \in FirstClass .. NrClasses[mem[a].name] - 1 :
          Ask([op |-> "new", size |-> ObjectSize,
               id |-> mem[a].base + k, name |-> mem[a].name, class |-> k], refStack)
    BY <2>0
  <2>2. /\ mem[a].base \in Nat /\ mem[a].base >= JAVA_START /\ mem[a].name \in Names
        /\ NrClasses[mem[a].name] \in Nat
    BY <1>1, ResolvedLoaded, ListedBases
  <2>3. k \in Nat
    BY <2>2, InfusionsAssumption
  <2>4. PICK p : p = [op |-> "new", size |-> ObjectSize,
                      id |-> mem[a].base + k, name |-> mem[a].name, class |-> k]
    OBVIOUS
  <2>5. Waits(p, refStack)
    BY <1>1, <1>2, <2>2, <2>3, <2>4 DEF Waits, JAVA_START
  <2>. QED
    BY <1>1, <2>1, <2>4, <2>5, AskRefs
<1>4. CASE ANEWARRAY(t)
  <2>1. PICK p : p = [op |-> "new", size |-> ObjectSize, id |-> REFARRAY, name |-> NoName,
                      class |-> 0]
    OBVIOUS
  <2>2. Waits(p, refStack)
    BY <1>1, <1>2, <2>1 DEF Waits, REFARRAY
  <2>3. Ask(p, refStack)
    BY <1>4, <2>1 DEF ANEWARRAY
  <2>. QED
    BY <1>1, <2>2, <2>3, AskRefs
<1>5. ASSUME NEW u, NEW a, AskFrame(u, a) PROVE RInv' /\ MarkInv'
  <2>1. PICK p : p = [op |-> "frame", size |-> FrameSize, thread |-> u]
    OBVIOUS
  <2>2. Ask(p, Append(refStack, a)) /\ p.op = "frame"
    BY <1>5, <2>1 DEF AskFrame
  <2>3. Len(Append(refStack, a)) = 1
    BY <1>2
  <2>4. Waits(p, Append(refStack, a))
    BY <2>2, <2>3 DEF Waits
  <2>. QED
    BY <1>1, <2>2, <2>4, AskRefs
<1>6. CASE INVOKE(t) \/ START(t)
  BY <1>5, <1>6 DEF INVOKE, START
<1>7. CASE THROW(t)
  BY <1>1, <1>2, <1>7, ThrowWaits, AskRefs DEF THROW
<1>8. CASE LOAD(t)
  <2>1. PICK n \in Names : Ask([op |-> "load", size |-> InfusionSize, name |-> n], refStack)
    BY <1>8 DEF LOAD
  <2>2. PICK p : p = [op |-> "load", size |-> InfusionSize, name |-> n]
    OBVIOUS
  <2>3. Waits(p, refStack)
    BY <1>2, <2>2 DEF Waits
  <2>. QED
    BY <1>1, <2>1, <2>2, <2>3, AskRefs
<1>. QED
  BY <1>3, <1>4, <1>6, <1>7, <1>8

\* A step that changes nothing but what halts the machine.
LEMMA HaltRefs ==
  ASSUME IInv, IInv', RInv, MarkInv,
         halted' \in {"class", "stale", "link", "memory"}, halted' = "stale" => phase = "system",
         UNCHANGED <<mem, left, phase, loc, gray, shift, refStack, infusions, stack, pending>>,
         UNCHANGED threadVars
  PROVE  RInv' /\ MarkInv'
<1>1. /\ finished' = finished /\ current' = current
      /\ ScalarsInv' /\ ChunksInv' /\ WaitInv'
  BY DEF RInv, ScalarsInv, ChunksInv, AllFormed, WaitInv, threadVars, End
<1>2. /\ RefInv' <=> RefInv
      /\ MarkInv' <=> MarkInv
  BY DEF RefInv, MarkInv, Sources, RefsOf, Leads, At, New, Place, InUse, RootPointers, Frames,
         ChunkOf, Spot
<1>. QED
  BY <1>1, <1>2 DEF RInv

LEMMA RefusedRefs ==
  ASSUME IInv, IInv', RInv, MarkInv, OutOfMemory \/ Panic
  PROVE  RInv' /\ MarkInv'
<1>1. CASE OutOfMemory
  <2>1. /\ phase = "alloc" /\ halted = "no" /\ UNCHANGED threadVars /\ pending.op \in {"new", "frame"}
        /\ Ask(Throw, IF pending.op = "frame" THEN Without(refStack, 1) ELSE refStack)
    BY <1>1 DEF OutOfMemory, Refused
  <2>2. (IF pending.op = "frame" THEN Without(refStack, 1) ELSE refStack) = <<>>
    <3>1. pending.op = "frame" => refStack \in Seq(Int) /\ Len(refStack) = 1
      BY DEF RInv, WaitInv, IInv, PendingInv
    <3>2. ASSUME NEW s \in Seq(Int), Len(s) = 1 PROVE Without(s, 1) = <<>>
      <4>1. Without(s, 1) \in Seq(Int) /\ Len(Without(s, 1)) = 0
        BY <3>2 DEF Without
      <4>. QED
        BY <4>1
    <3>. QED
      BY <2>1, <3>1, <3>2 DEF RInv, WaitInv
  <2>. QED
    BY <2>1, <2>2, ThrowWaits, AskRefs
<1>2. CASE Panic
  BY <1>2, HaltRefs DEF Panic, Refused
<1>. QED
  BY <1>1, <1>2

-----------------------------------------------------------------------------
\* What is done with the memory that is granted.

LEMMA PlacedRefs ==
  ASSUME IInv, IInv', RInv, phase = "alloc", phase' \in {"run", "unwind"},
         NEW c, WellFormed(c), Room(c.size), left' = left + c.size, loc' = loc,
         DOMAIN mem' = DOMAIN mem \cup {left}, mem'[left] = c,
         \A a \in DOMAIN mem :
           \/ mem'[a] = mem[a]
           \/ \E s : /\ Fits(s, mem[a]) /\ mem'[a] = [mem[a] EXCEPT !.refs = s]
                     /\ \A r \in Members(s) : Live(r) \/ Live(r)',
         \A r \in Members(c.refs) : Live(r),
         RootPointers' \subseteq RootPointers \cup {left},
         \A r : phase' = "unwind" /\ r = pending'.ref => Live(r)'
  PROVE  RefInv' /\ ChunksInv'
<1>1. /\ left \in Nat /\ loc \in Nat /\ HeapSize \in Nat
      /\ \A a \in DOMAIN mem : a \in Nat /\ mem[a].size \in Nat \ {0} /\ End(a) <= left
      /\ left <= HeapSize /\ loc <= left
  BY HeapAssumption DEF IInv, HeapInv, Shaped, RInv, ChunksInv
<1>2. left \notin DOMAIN mem /\ c.size \in Nat \ {0}
  BY <1>1 DEF End, WellFormed, ChunkType
<1>3. ASSUME NEW a \in DOMAIN mem
      PROVE  /\ WellFormed(mem[a]) /\ WellFormed(mem'[a])
             /\ mem'[a].id = mem[a].id /\ mem'[a].kind = mem[a].kind /\ mem'[a].size = mem[a].size
             /\ \/ mem'[a].refs = mem[a].refs
                \/ \A r \in Members(mem'[a].refs) : Live(r) \/ Live(r)'
  <2>1. WellFormed(mem[a]) /\ DOMAIN mem[a] = Fields
    BY DEF RInv, ChunksInv, AllFormed, IInv, HeapInv, Shaped
  <2>2. CASE mem'[a] = mem[a]
    BY <2>1, <2>2
  <2>3. CASE mem'[a] # mem[a]
    <3>1. PICK s : /\ Fits(s, mem[a]) /\ mem'[a] = [mem[a] EXCEPT !.refs = s]
                   /\ \A r \in Members(s) : Live(r) \/ Live(r)'
      BY <2>3
    <3>2. WellFormed(mem'[a])
      BY <2>1, <3>1, RefsFormed
    <3>. QED
      BY <2>1, <3>1, <3>2 DEF Fields
  <2>. QED
    BY <2>2, <2>3
<1>4. \A a \in DOMAIN mem' : WellFormed(mem'[a]) /\ a + mem'[a].size <= left'
  BY <1>1, <1>2, <1>3 DEF End
<1>5. ChunksInv'
  BY <1>1, <1>2, <1>4 DEF ChunksInv, AllFormed, Room, End
<1>6. \A d \in DOMAIN mem : InUse(d) /\ mem[d].kind = "object" =>
        d \in DOMAIN mem' /\ mem'[d].id # FREE /\ mem'[d].kind = "object"
  BY <1>3 DEF InUse
<1>7. ASSUME NEW h \in DOMAIN mem', HasRefs(mem'[h]) \/ h \in RootPointers', NEW r \in Members(mem'[h].refs)
      PROVE  Live(r) \/ Live(r)'
  <2>1. CASE h = left
    BY <1>7, <2>1
  <2>2. CASE h # left
    <3>1. h \in DOMAIN mem /\ (HasRefs(mem[h]) \/ h \in RootPointers)
      BY <1>3, <1>7, <2>2 DEF HasRefs, IsJava
    <3>2. \A q \in Members(mem[h].refs) : Live(q)
      BY <3>1, QuietRefsHold DEF RInv, QuietRefs, Quiet, AllLive, HeldLive
    <3>. QED
      BY <1>3, <1>7, <3>1, <3>2
  <2>. QED
    BY <2>1, <2>2
<1>8. RefInv'
  BY <1>6, <1>7, QuietKeeps DEF RInv, Quiet
<1>. QED
  BY <1>5, <1>8

LEMMA GotObjectRefs == ASSUME IInv, IInv', RInv, GotObject PROVE RInv' /\ MarkInv'
<1>1. PICK l \in Labels :
        mem' = [Placed(NewObject(l)) EXCEPT ![Top(current)].refs = Append(Operands(current), left)]
  BY DEF GotObject
<1>2. /\ phase = "alloc" /\ phase' = "run" /\ pending' = Nothing /\ loc' = loc /\ Quiet
      /\ left' = left + pending.size /\ pending.op = "new" /\ Room(pending.size)
      /\ UNCHANGED <<gray, shift, refStack, infusions, stack, halted, current, finished>>
  BY DEF GotObject, Granted, Quiet
<1>3. PICK c, f, s : c = NewObject(l) /\ f = Top(current) /\ s = Append(Operands(current), left)
  OBVIOUS
<1>4. WellFormed(c) /\ c.size = pending.size /\ c.kind = "object" /\ c.id # FREE /\ c.refs = <<NoRef>>
  <2>1. /\ pending.size \in Nat \ {0} /\ pending.id \in Nat
        /\ pending.id = REFARRAY \/ pending.id >= JAVA_START
        /\ pending.name \in Names \cup {NoName} /\ pending.class \in Nat
    BY <1>2 DEF IInv, PendingInv, Asked, RInv, WaitInv
  <2>2. WellFormed(NewObject(l))
    BY <2>1, MadeFormed DEF NewObject
  <2>. QED
    BY <1>3, <2>1, <2>2 DEF NewObject, Object, Chunk, FREE, REFARRAY, JAVA_START
<1>5. /\ f \in DOMAIN mem /\ mem[f].kind = "frame" /\ LiveSeq(Operands(current))
      /\ f \in RootPointers
  BY <1>2, <1>3, OperandsLive DEF RInv, WaitInv, IInv
<1>6. left \notin DOMAIN mem /\ left \in Nat
  <2>1. \A a \in DOMAIN mem : a \in Nat /\ mem[a].size \in Nat \ {0} /\ a + mem[a].size <= left
    BY DEF IInv, HeapInv, Shaped, RInv, ChunksInv, End
  <2>. QED
    BY <2>1 DEF IInv, HeapInv, Shaped
<1>7. /\ DOMAIN mem' = DOMAIN mem \cup {left} /\ mem'[left] = c
      /\ \A a \in DOMAIN mem : mem'[a] = IF a = f THEN [mem[a] EXCEPT !.refs = s] ELSE mem[a]
  BY <1>1, <1>3, <1>5, <1>6 DEF Placed
<1>9. Fits(s, mem[f]) /\ \A r \in Members(s) : Live(r) \/ r = left
  <2>1. PICK o : o = Operands(current)
    OBVIOUS
  <2>2. o \in Seq(Int) /\ \A i \in 1 .. Len(o) : Live(o[i])
    BY <1>5, <2>1 DEF LiveSeq
  <2>3. /\ s \in Seq(Int) /\ Len(s) = Len(o) + 1
        /\ \A i \in 1 .. Len(o) + 1 : s[i] = IF i = Len(o) + 1 THEN left ELSE o[i]
    BY <1>3, <1>6, <2>1, <2>2
  <2>4. \A i \in DOMAIN s : Live(s[i]) \/ s[i] = left
    BY <2>2, <2>3
  <2>. QED
    BY <1>5, <2>3, <2>4 DEF Fits, Members
<1>10. PICK new : new = left
  OBVIOUS
<1>11. Live(new)'
  BY <1>4, <1>7, <1>10 DEF Live, InUse
<1>12. \A r \in Members(s) : Live(r) \/ Live(r)'
  BY <1>9, <1>10, <1>11
<1>13. \A r \in Members(c.refs) : Live(r)
  BY <1>4 DEF Members, Live
<1>14. RootPointers' = RootPointers
  BY <1>2 DEF RootPointers, Frames
<1>15. RefInv' /\ ChunksInv'
  BY <1>2, <1>4, <1>7, <1>9, <1>12, <1>13, <1>14, PlacedRefs
<1>16. WaitInv' /\ ScalarsInv'
  BY <1>2 DEF RInv, WaitInv, ScalarsInv, Nothing
<1>. QED
  BY <1>2, <1>15, <1>16 DEF RInv, MarkInv

LEMMA GotFrameRefs == ASSUME IInv, IInv', RInv, GotFrame PROVE RInv' /\ MarkInv'
<1>1. PICK c, u : /\ c = Frame(pending.size, LastOf(refStack), mem[LastOf(refStack)].name)
                  /\ u = pending.thread
  OBVIOUS
<1>2. /\ phase = "alloc" /\ phase' = "run" /\ pending' = Nothing /\ loc' = loc /\ Quiet
      /\ left' = left + pending.size /\ pending.op = "frame" /\ Room(pending.size)
      /\ refStack' = Without(refStack, 1)
      /\ mem' = Placed(c) /\ stack' = [stack EXCEPT ![u] = Append(stack[u], left)]
      /\ UNCHANGED <<gray, shift, infusions, halted, current, finished>>
  BY <1>1 DEF GotFrame, Granted, Quiet
<1>3. /\ pending.size \in Nat \ {0} /\ LastOf(refStack) \in Members(infusions) /\ u \in Threads
      /\ refStack \in Seq(Int) /\ Len(refStack) = 1 /\ stack \in [Threads -> Seq(Int)]
  BY <1>1, <1>2 DEF IInv, PendingInv, Asked, FramesInv, RInv, WaitInv
<1>4. WellFormed(c) /\ c.size = pending.size /\ c.refs = <<>>
  <2>1. mem[LastOf(refStack)].name \in Names /\ LastOf(refStack) \in Int
    BY <1>2, <1>3, ListedBases, InfusionsAreInts DEF IInv
  <2>. QED
    BY <1>1, <1>3, <2>1, MadeFormed DEF Frame, Chunk
<1>5. left \notin DOMAIN mem /\ left \in Nat
  <2>1. \A a \in DOMAIN mem : a \in Nat /\ mem[a].size \in Nat \ {0} /\ a + mem[a].size <= left
    BY DEF IInv, HeapInv, Shaped, RInv, ChunksInv, End
  <2>. QED
    BY <2>1 DEF IInv, HeapInv, Shaped
<1>6. /\ DOMAIN mem' = DOMAIN mem \cup {left} /\ mem'[left] = c
      /\ \A a \in DOMAIN mem : mem'[a] = mem[a]
  BY <1>2, <1>5 DEF Placed
<1>7. RootPointers' \subseteq RootPointers \cup {left}
  <2>1. \A w \in Threads : Members(stack'[w]) \subseteq Members(stack[w]) \cup {left}
    BY <1>2, <1>3, <1>5 DEF Members
  <2>. QED
    BY <1>2, <2>1 DEF RootPointers, Frames
<1>8. RefInv' /\ ChunksInv'
  BY <1>2, <1>4, <1>6, <1>7, PlacedRefs DEF Members
<1>9. refStack' = <<>>
  <2>1. Without(refStack, 1) \in Seq(Int) /\ Len(Without(refStack, 1)) = 0
    BY <1>3 DEF Without
  <2>. QED
    BY <1>2, <2>1
<1>10. WaitInv' /\ ScalarsInv'
  BY <1>2, <1>9 DEF RInv, WaitInv, ScalarsInv, Nothing
<1>. QED
  BY <1>2, <1>8, <1>10 DEF RInv, MarkInv

LEMMA GotInfusionRefs == ASSUME IInv, IInv', RInv, MarkInv, GotInfusion PROVE RInv' /\ MarkInv'
<1>1. CASE Import[pending.name] # NoName /\ Imported(pending.name) = {}
  BY <1>1, HaltRefs DEF GotInfusion, Granted, threadVars
<1>2. CASE ~(Import[pending.name] # NoName /\ Imported(pending.name) = {})
  <2>1. PICK a \in IF Import[pending.name] = NoName THEN {NoRef} ELSE Imported(pending.name) :
          mem' = Placed(Infusion(pending.size, pending.name, a, NextBase))
    BY <1>2 DEF GotInfusion
  <2>2. PICK c : c = Infusion(pending.size, pending.name, a, NextBase)
    OBVIOUS
  <2>3. /\ phase = "alloc" /\ phase' = "run" /\ pending' = Nothing /\ loc' = loc /\ Quiet
        /\ left' = left + pending.size /\ pending.op = "load" /\ Room(pending.size)
        /\ infusions' = Append(infusions, left) /\ mem' = Placed(c)
        /\ UNCHANGED <<gray, shift, refStack, stack, halted, current, finished>>
    BY <1>2, <2>1, <2>2 DEF GotInfusion, Granted, Quiet
  <2>4. pending.size \in Nat \ {0} /\ pending.name \in Names
    BY <2>3 DEF IInv, PendingInv, Asked
  <2>5. a \in Int
    BY InfusionsAreInts, HeapAssumption DEF Imported, IInv
  <2>6. NextBase \in Nat
    <3>1. LastOf(infusions) \in Members(infusions)
      BY DEF LastOf, Members, IInv, InfusionsInv
    <3>. QED
      BY <2>3, <3>1, ListedBases DEF NextBase
  <2>7. WellFormed(c) /\ c.size = pending.size /\ c.refs = <<NoRef>>
    BY <2>2, <2>4, <2>5, <2>6, MadeFormed DEF Infusion, Chunk
  <2>8. left \notin DOMAIN mem /\ left \in Nat
    <3>1. \A x \in DOMAIN mem : x \in Nat /\ mem[x].size \in Nat \ {0} /\ x + mem[x].size <= left
      BY DEF IInv, HeapInv, Shaped, RInv, ChunksInv, End
    <3>. QED
      BY <3>1 DEF IInv, HeapInv, Shaped
  <2>9. /\ DOMAIN mem' = DOMAIN mem \cup {left} /\ mem'[left] = c
        /\ \A x \in DOMAIN mem : mem'[x] = mem[x]
    BY <2>3, <2>8 DEF Placed
  <2>10. RootPointers' \subseteq RootPointers \cup {left}
    <3>1. Members(infusions') \subseteq Members(infusions) \cup {left}
      BY <2>3, <2>8 DEF Members, IInv, InfusionsInv
    <3>. QED
      BY <2>3, <3>1 DEF RootPointers, Frames, Members
  <2>11. \A r \in Members(c.refs) : Live(r)
    BY <2>7 DEF Members, Live
  <2>12. RefInv' /\ ChunksInv'
    BY <2>3, <2>7, <2>9, <2>10, <2>11, PlacedRefs
  <2>13. WaitInv' /\ ScalarsInv'
    BY <2>3 DEF RInv, WaitInv, ScalarsInv, Nothing
  <2>. QED
    BY <2>3, <2>12, <2>13 DEF RInv, MarkInv
<1>. QED
  BY <1>1, <1>2

LEMMA GotExceptionRefs == ASSUME IInv, IInv', RInv, GotException PROVE RInv' /\ MarkInv'
<1>1. PICK l \in Labels : mem' = Placed(NewObject(l))
  BY DEF GotException
<1>2. PICK c, new : c = NewObject(l) /\ new = left
  OBVIOUS
<1>3. /\ phase = "alloc" /\ phase' = "unwind" /\ loc' = loc /\ Quiet /\ mem' = Placed(c)
      /\ pending' = [op |-> "unwind", size |-> 0, ref |-> new]
      /\ left' = left + pending.size /\ pending.op = "throw" /\ Room(pending.size)
      /\ UNCHANGED <<gray, shift, refStack, infusions, stack, halted, current, finished>>
  BY <1>1, <1>2 DEF GotException, Granted, Quiet
<1>4. WellFormed(c) /\ c.size = pending.size /\ c.kind = "object" /\ c.id # FREE /\ c.refs = <<NoRef>>
  <2>1. /\ pending.size \in Nat \ {0} /\ pending.id \in Nat
        /\ pending.id = REFARRAY \/ pending.id >= JAVA_START
        /\ pending.name \in Names \cup {NoName} /\ pending.class \in Nat
    BY <1>3 DEF IInv, PendingInv, Asked, RInv, WaitInv
  <2>2. WellFormed(NewObject(l))
    BY <2>1, MadeFormed DEF NewObject
  <2>. QED
    BY <1>2, <2>1, <2>2 DEF NewObject, Object, Chunk, FREE, REFARRAY, JAVA_START
<1>5. left \notin DOMAIN mem /\ left \in Nat
  <2>1. \A a \in DOMAIN mem : a \in Nat /\ mem[a].size \in Nat \ {0} /\ a + mem[a].size <= left
    BY DEF IInv, HeapInv, Shaped, RInv, ChunksInv, End
  <2>. QED
    BY <2>1 DEF IInv, HeapInv, Shaped
<1>6. /\ DOMAIN mem' = DOMAIN mem \cup {left} /\ mem'[left] = c
      /\ \A a \in DOMAIN mem : mem'[a] = mem[a]
  BY <1>3, <1>5 DEF Placed
<1>7. Live(new)'
  BY <1>2, <1>4, <1>6 DEF Live, InUse
<1>8. \A r \in Members(c.refs) : Live(r)
  BY <1>4 DEF Members, Live
<1>9. RootPointers' = RootPointers
  BY <1>3 DEF RootPointers, Frames
<1>10. \A r : r = pending'.ref => Live(r)'
  BY <1>3, <1>7
<1>11. RefInv' /\ ChunksInv'
  BY <1>3, <1>4, <1>6, <1>8, <1>9, <1>10, PlacedRefs
<1>12. WaitInv' /\ ScalarsInv'
  BY <1>3 DEF RInv, WaitInv, ScalarsInv
<1>. QED
  BY <1>3, <1>11, <1>12 DEF RInv, MarkInv

-----------------------------------------------------------------------------
\* Frames that end, threads and infusions that go.

LEMMA CatchRefs == ASSUME IInv, IInv', RInv, CATCH PROVE RInv' /\ MarkInv'
<1>1. /\ phase = "unwind" /\ phase' = "run" /\ pending' = Nothing /\ stack[current] # <<>>
      /\ mem' = WithOperands(current, <<pending.ref>>) /\ Quiet /\ Quiet' /\ current \in Threads
      /\ UNCHANGED <<left, loc, gray, shift, refStack, infusions, stack, halted, current, finished>>
  BY DEF CATCH, Unwinding, Quiet, IInv
<1>2. Live(pending.ref)
  BY <1>1, QuietRefsHold DEF RInv, QuietRefs, AllLive
<1>3. SoundHeap(mem')
  <2>1. LiveSeq(Operands(current)) /\ mem[Top(current)].kind = "frame"
    BY <1>1, OperandsLive
  <2>2. LiveSeq(<<pending.ref>>)
    BY <1>2, <2>1, LiveSeqs
  <2>. QED
    BY <1>1, <2>1, <2>2, HeapSound, StoreSound DEF WithOperands
<1>4. RefInv' /\ AllFormed(mem)' /\ \A a \in DOMAIN mem' : End(a)' <= left
  BY <1>1, <1>3, SoundKeeps
<1>5. WaitInv' /\ ScalarsInv' /\ ChunksInv'
  BY <1>1, <1>4 DEF RInv, WaitInv, ScalarsInv, ChunksInv, Nothing
<1>. QED
  BY <1>1, <1>4, <1>5 DEF RInv, MarkInv

\* The frame of the caller may get a value.
LEMMA PopRefs ==
  ASSUME IInv, IInv', RInv, phase \in {"run", "unwind"}, phase' = phase, pending' = pending,
         halted = "no", halted' \in {"no", "uncaught"},
         NEW t \in Threads, stack[t] # <<>>, FramePopped(t),
         NEW f, f = Top(t), DOMAIN mem' = DOMAIN Freed(f),
         \A a \in DOMAIN mem' :
           \/ mem'[a] = Freed(f)[a]
           \/ \E s : LiveSeq(s) /\ a # f /\ mem[a].kind = "frame" /\ mem'[a] = [mem[a] EXCEPT !.refs = s]
  PROVE  RInv' /\ MarkInv'
<1>1. /\ left' = LeftAfter(f) /\ stack' = [stack EXCEPT ![t] = Without(stack[t], 1)]
      /\ finished' = IF Len(stack[t]) = 1 THEN finished \cup {t} ELSE finished
      /\ UNCHANGED <<loc, gray, shift, refStack, infusions, current>> /\ Quiet
  BY DEF FramePopped, Quiet
<1>2. /\ f \in RootPointers /\ f \in DOMAIN mem /\ mem[f].kind = "frame"
  BY <1>1, OperandsLive
<1>3. /\ left \in Nat /\ loc = 0
      /\ \A a \in DOMAIN mem : a \in Nat /\ mem[a].size \in Nat \ {0} /\ a + mem[a].size <= left
      /\ \A a, b \in DOMAIN mem : a < b => a + mem[a].size <= b
      /\ left <= HeapSize
  BY HeapAssumption DEF IInv, HeapInv, Shaped, Tiled, End, RInv, ChunksInv
<1>4. \A a \in DOMAIN mem : WellFormed(mem[a]) /\ DOMAIN mem[a] = Fields
  BY DEF RInv, ChunksInv, AllFormed, IInv, HeapInv, Shaped
<1>5. ASSUME NEW a \in DOMAIN mem'
      PROVE  /\ a \in DOMAIN mem /\ WellFormed(mem'[a]) /\ mem'[a].size = mem[a].size
             /\ \/ a = f /\ mem'[a].refs = <<>> /\ ~HasRefs(mem'[a])
                \/ a # f /\ mem'[a].id = mem[a].id /\ mem'[a].refs = mem[a].refs
                \/ a # f /\ mem'[a].id = mem[a].id /\ LiveSeq(mem'[a].refs)
  <2>1. a \in DOMAIN mem
    BY <1>2 DEF Freed
  <2>2. CASE a = f
    <3>1. mem'[a] = FreeChunk(mem[a].size)
      BY <2>1, <2>2 DEF Freed
    <3>2. WellFormed(mem'[a])
      BY <1>3, <2>1, <3>1, MadeFormed
    <3>. QED
      BY <2>1, <2>2, <3>1, <3>2 DEF FreeChunk, Chunk, HasRefs, IsJava, FREE, REFARRAY, JAVA_START
  <2>3. CASE a # f /\ mem'[a] = Freed(f)[a]
    <3>1. Freed(f)[a] = mem[a]
      BY <2>1, <2>3 DEF Freed
    <3>. QED
      BY <1>4, <2>1, <2>3, <3>1
  <2>4. CASE a # f /\ mem'[a] # Freed(f)[a]
    <3>1. PICK s : LiveSeq(s) /\ mem[a].kind = "frame" /\ mem'[a] = [mem[a] EXCEPT !.refs = s]
      BY <2>4
    <3>2. WellFormed(mem'[a])
      BY <1>4, <2>1, <3>1, RefsFormed DEF Fits, LiveSeq
    <3>. QED
      BY <1>4, <2>1, <2>4, <3>1, <3>2 DEF Fields
  <2>. QED
    BY <2>2, <2>3, <2>4
<1>6. left' <= left /\ left' <= HeapSize /\ left' \in Nat
  BY <1>1, <1>2, <1>3, HeapAssumption DEF LeftAfter, IsLast
<1>7. \A a \in DOMAIN mem' : a + mem'[a].size <= left'
  <2>1. CASE IsLast(f)
    <3>1. left' = f /\ DOMAIN mem' = DOMAIN mem \ {f} /\ f + mem[f].size = left
      BY <1>1, <2>1 DEF LeftAfter, Freed, IsLast
    <3>2. \A a \in DOMAIN mem' : a \in DOMAIN mem /\ a # f /\ mem'[a].size = mem[a].size
      BY <1>5, <3>1
    <3>. QED
      BY <1>2, <1>3, <3>1, <3>2
  <2>2. CASE ~IsLast(f)
    BY <1>1, <1>3, <1>5, <2>2 DEF LeftAfter
  <2>. QED
    BY <2>1, <2>2
<1>8. ChunksInv'
  BY <1>1, <1>3, <1>5, <1>6, <1>7 DEF ChunksInv, AllFormed, End
<1>9. RootPointers' \subseteq RootPointers
  <2>1. \A w \in Threads : Members(stack'[w]) \subseteq Members(stack[w])
    <3>1. stack[t] \in Seq(Int)
      BY DEF IInv, FramesInv
    <3>2. \A i \in DOMAIN Without(stack[t], 1) : i \in DOMAIN stack[t] /\ Without(stack[t], 1)[i] = stack[t][i]
      BY <3>1 DEF Without
    <3>. QED
      BY <1>1, <3>2 DEF Members, IInv, FramesInv
  <2>. QED
    BY <1>1, <2>1 DEF RootPointers, Frames
<1>10. \A d \in DOMAIN mem : InUse(d) /\ mem[d].kind = "object" =>
         d \in DOMAIN mem' /\ mem'[d].id # FREE /\ mem'[d].kind = "object"
  <2>. SUFFICES ASSUME NEW d \in DOMAIN mem, InUse(d), mem[d].kind = "object"
                PROVE  d \in DOMAIN mem' /\ mem'[d].id # FREE /\ mem'[d].kind = "object"
    OBVIOUS
  <2>1. d # f
    BY <1>2
  <2>2. d \in DOMAIN mem' /\ Freed(f)[d] = mem[d]
    BY <2>1 DEF Freed
  <2>3. mem'[d] = mem[d]
    BY <2>2
  <2>. QED
    BY <2>2, <2>3 DEF InUse
<1>11. ASSUME NEW h \in DOMAIN mem', HasRefs(mem'[h]) \/ h \in RootPointers', NEW r \in Members(mem'[h].refs)
       PROVE  Live(r)
  <2>1. CASE h # f /\ mem'[h].id = mem[h].id /\ mem'[h].refs = mem[h].refs
    <3>1. h \in DOMAIN mem /\ (HasRefs(mem[h]) \/ h \in RootPointers)
      BY <1>5, <1>9, <1>11, <2>1 DEF HasRefs, IsJava
    <3>. QED
      BY <1>1, <1>11, <2>1, <3>1, QuietRefsHold DEF RInv, QuietRefs, AllLive, HeldLive
  <2>. QED
    BY <1>5, <1>11, <2>1 DEF Members, LiveSeq
<1>12. \A r : phase' = "unwind" /\ r = pending'.ref => Live(r)
  BY <1>1, QuietRefsHold DEF RInv, QuietRefs, AllLive
<1>13. RefInv'
  BY <1>1, <1>10, <1>11, <1>12, QuietKeeps DEF Quiet, RInv
<1>14. WaitInv' /\ ScalarsInv'
  <2>1. pending.op \notin {"new", "frame", "load", "throw"}
    BY DEF IInv, PendingInv, Nothing, RInv, WaitInv
  <2>2. WaitInv'
    BY <1>1, <2>1 DEF RInv, WaitInv
  <2>. QED
    BY <1>1, <2>2 DEF RInv, ScalarsInv
<1>. QED
  BY <1>8, <1>13, <1>14 DEF RInv, MarkInv

LEMMA EndRefs ==
  ASSUME IInv, IInv', RInv, (\E t \in Threads : RETURN(t) \/ ARETURN(t)) \/ UNWIND
  PROVE  RInv' /\ MarkInv'
<1>1. ASSUME NEW t \in Threads, RETURN(t) PROVE RInv' /\ MarkInv'
  <2>1. /\ phase = "run" /\ phase' = phase /\ pending' = pending /\ stack[t] # <<>> /\ FramePopped(t)
        /\ halted = "no" /\ halted' = "no" /\ mem' = Freed(Top(t))
    BY <1>1 DEF RETURN, Running
  <2>. QED
    BY <2>1, PopRefs
<1>2. ASSUME NEW t \in Threads, ARETURN(t) PROVE RInv' /\ MarkInv'
  <2>1. PICK f, caller, s :
          /\ f = Top(t) /\ caller = stack[t][Len(stack[t]) - 1]
          /\ s = Append(mem[caller].refs, LastOf(Operands(t)))
    OBVIOUS
  <2>2. /\ phase = "run" /\ phase' = phase /\ pending' = pending /\ stack[t] # <<>> /\ FramePopped(t)
        /\ halted = "no" /\ halted' = "no" /\ Len(stack[t]) > 1 /\ Operands(t) # <<>> /\ Quiet
        /\ mem' = [Freed(f) EXCEPT ![caller].refs = s]
    BY <1>2, <2>1 DEF ARETURN, Running, Quiet
  <2>3. Len(stack[t]) \in DOMAIN stack[t] /\ Len(stack[t]) - 1 \in DOMAIN stack[t]
    BY <2>2 DEF IInv, FramesInv
  <2>4. f = stack[t][Len(stack[t])]
    BY <2>1 DEF Top, LastOf
  <2>5. f # caller
    BY <2>1, <2>3, <2>4 DEF IInv, FramesInv
  <2>6. caller \in DOMAIN mem /\ mem[caller].kind = "frame" /\ LiveSeq(mem[caller].refs)
    <3>1. Held(caller) /\ Root(caller).id = FRAME /\ caller \in RootPointers
      BY <2>1, <2>3, RootsAre DEF IInv, FramesInv
    <3>2. caller \in DOMAIN mem /\ mem[caller].id = FRAME
      BY <2>2, <3>1, HeldInPlace DEF InPlace
    <3>3. WellFormed(mem[caller])
      BY <3>2 DEF RInv, ChunksInv, AllFormed
    <3>4. mem[caller].kind = "frame"
      BY <3>2, <3>3
         DEF WellFormed, ChunkType, IsJava, FRAME, FREE, INVALID, REFARRAY, INFUSION, JAVA_START
    <3>5. \A r \in Members(mem[caller].refs) : Live(r)
      BY <2>2, <3>1, <3>2, QuietRefsHold DEF QuietRefs, RInv, AllLive, HeldLive
    <3>6. LiveSeq(mem[caller].refs)
      BY <3>3, <3>5 DEF LiveSeq, Members, WellFormed, ChunkType
    <3>. QED
      BY <3>2, <3>4, <3>6
  <2>7. LiveSeq(s)
    <3>1. LiveSeq(Operands(t))
      BY <2>2, OperandsLive
    <3>2. PICK o : o = Operands(t)
      OBVIOUS
    <3>3. Live(LastOf(o))
      BY <2>2, <3>1, <3>2, LiveSeqs
    <3>. QED
      BY <2>1, <2>6, <3>2, <3>3, LiveSeqs
  <2>8. /\ DOMAIN mem' = DOMAIN Freed(f) /\ Freed(f)[caller] = mem[caller]
        /\ \A a \in DOMAIN mem' : mem'[a] = IF a = caller THEN [mem[a] EXCEPT !.refs = s] ELSE Freed(f)[a]
    BY <2>2, <2>5, <2>6 DEF Freed
  <2>9. \A a \in DOMAIN mem' :
          \/ mem'[a] = Freed(f)[a]
          \/ \E o : LiveSeq(o) /\ a # f /\ mem[a].kind = "frame" /\ mem'[a] = [mem[a] EXCEPT !.refs = o]
    BY <2>5, <2>6, <2>7, <2>8
  <2>10. f = Top(t) /\ DOMAIN mem' = DOMAIN Freed(f) /\ halted' \in {"no", "uncaught"}
    BY <2>1, <2>2, <2>8
  <2>. QED
    BY <2>2, <2>9, <2>10, PopRefs
<1>3. CASE UNWIND
  <2>1. /\ phase = "unwind" /\ phase' = phase /\ pending' = pending /\ stack[current] # <<>>
        /\ FramePopped(current) /\ current \in Threads /\ mem' = Freed(Top(current))
        /\ halted = "no" /\ halted' \in {"no", "uncaught"}
    BY <1>3 DEF UNWIND, Unwinding, IInv
  <2>. QED
    BY <2>1, PopRefs
<1>. QED
  BY <1>1, <1>2, <1>3

LEMMA ScheduleRefs == ASSUME IInv, IInv', RInv, SCHEDULE PROVE RInv' /\ MarkInv'
<1>1. /\ phase = "run" /\ halted = "no" /\ finished' = {} /\ Quiet /\ Quiet'
      /\ stack' = [t \in Threads |-> IF t \in finished THEN <<>> ELSE stack[t]]
      /\ UNCHANGED <<mem, left, phase, loc, gray, shift, refStack, infusions, pending, halted>>
  BY DEF SCHEDULE, Quiet
<1>2. RootPointers' \subseteq RootPointers
  BY <1>1 DEF RootPointers, Frames, Members
<1>3. \A h \in DOMAIN mem' : HasRefs(mem'[h]) \/ h \in RootPointers' =>
        \A r \in Members(mem'[h].refs) : Live(r)
  BY <1>1, <1>2, QuietRefsHold DEF RInv, QuietRefs, AllLive, HeldLive
<1>4. RefInv'
  BY <1>1, <1>3, QuietKeeps DEF RInv, InUse
<1>5. WaitInv' /\ ScalarsInv' /\ ChunksInv'
  BY <1>1 DEF RInv, WaitInv, ScalarsInv, ChunksInv, AllFormed, End, IInv, PendingInv, Nothing
<1>. QED
  BY <1>1, <1>4, <1>5 DEF RInv, MarkInv

\* Renumbering frees nothing, and makes no object into one with references.
LEMMA UnloadRefs ==
  ASSUME IInv, IInv', RInv, NEW t \in Threads, UNLOAD(t) PROVE RInv' /\ MarkInv'
<1>1. PICK i \in DOMAIN infusions :
        /\ finished' = finished \cup {u \in Threads : Executes(u, infusions[i])}
        /\ mem' = UnloadedFrom(infusions[i])
        /\ infusions' = Unlinked(infusions, i)
  BY DEF UNLOAD
<1>2. /\ phase = "run" /\ phase' = phase /\ halted = "no" /\ Quiet /\ Quiet'
      /\ UNCHANGED <<left, phase, loc, gray, shift, refStack, stack, pending, halted, current>>
  BY DEF UNLOAD, Running, Quiet
<1>3. PICK a, start, range :
        a = infusions[i] /\ start = mem[a].base /\ range = NrClasses[mem[a].name]
  OBVIOUS
<1>4. /\ a \in Members(infusions) /\ start \in Nat /\ start >= JAVA_START /\ range \in Nat
  BY <1>2, <1>3, ListedBases DEF Members
<1>5. mem' = [x \in DOMAIN mem |->
               [mem[x] EXCEPT !.id = Renumbered(mem[x].id, start, range),
                              !.base = IF x \in Members(infusions) /\ mem[x].base > start
                                       THEN mem[x].base - range ELSE mem[x].base]]
  BY <1>1, <1>3 DEF UnloadedFrom
<1>6. \A x \in Members(infusions) : mem[x].base > start => mem[x].base - range \in Nat
  <2>. SUFFICES ASSUME NEW x \in Members(infusions), mem[x].base > start
                PROVE  mem[x].base - range \in Nat
    OBVIOUS
  <2>1. PICK k \in DOMAIN infusions : x = infusions[k]
    BY DEF Members
  <2>2. mem[x] = Inf(k) /\ mem[a] = Inf(i)
    <3>1. Held(x) /\ Held(a)
      BY <1>3, <2>1 DEF IInv, InfusionsInv
    <3>2. Root(x) = mem[x] /\ Root(a) = mem[a]
      BY <1>2, <3>1, HeldInPlace DEF InPlace
    <3>. QED
      BY <1>3, <2>1, <3>2 DEF Inf
  <2>3. /\ Inf(k).base \in Nat /\ Inf(i).base \in Nat
        /\ NrClasses[Inf(k).name] \in Nat /\ NrClasses[Inf(i).name] \in Nat
        /\ k < i => Limit(k) <= Inf(i).base
        /\ i < k => Limit(i) <= Inf(k).base
        /\ i \in Nat /\ k \in Nat
    BY HeapAssumption DEF IInv, InfusionsInv
  <2>4. i < k
    BY <1>3, <2>2, <2>3 DEF Limit
  <2>. QED
    BY <1>3, <2>2, <2>3, <2>4 DEF Limit
<1>7. \A x \in DOMAIN mem : WellFormed(mem[x]) /\ DOMAIN mem[x] = Fields
  BY DEF RInv, ChunksInv, AllFormed, IInv, HeapInv, Shaped
<1>8. ASSUME NEW x \in DOMAIN mem
      PROVE  /\ WellFormed(mem'[x]) /\ mem'[x].refs = mem[x].refs /\ mem'[x].size = mem[x].size
             /\ mem'[x].kind = mem[x].kind
             /\ mem'[x].id = FREE <=> mem[x].id = FREE
             /\ HasRefs(mem'[x]) => HasRefs(mem[x])
  <2>1. PICK c, id, base :
          /\ c = mem[x] /\ id = Renumbered(mem[x].id, start, range)
          /\ base = IF x \in Members(infusions) /\ mem[x].base > start
                    THEN mem[x].base - range ELSE mem[x].base
    OBVIOUS
  <2>2. mem'[x] = [c EXCEPT !.id = id, !.base = base]
    BY <1>5, <2>1
  <2>3. c.id \in Nat /\ c.base \in Nat
    BY <1>7, <2>1 DEF WellFormed, ChunkType
  <2>4. base \in Nat
    BY <1>6, <2>1, <2>3
  <2>5. /\ id \in Nat
        /\ id # c.id => c.id > JAVA_START /\ (id = INVALID \/ id >= JAVA_START)
    BY <1>4, <2>1, <2>3 DEF Renumbered, JAVA_START, INVALID
  <2>6. WellFormed([c EXCEPT !.id = id])
    BY <1>7, <2>1, <2>5, IdFormed
  <2>7. PICK d : d = [c EXCEPT !.id = id]
    OBVIOUS
  <2>8. WellFormed([d EXCEPT !.base = base])
    BY <2>4, <2>6, <2>7 DEF WellFormed, ChunkType, IsJava
  <2>9. [c EXCEPT !.id = id, !.base = base] = [d EXCEPT !.base = base]
    BY <2>7
  <2>10. WellFormed(mem'[x])
    BY <2>2, <2>8, <2>9
  <2>11. /\ mem'[x].refs = mem[x].refs /\ mem'[x].size = mem[x].size /\ mem'[x].kind = mem[x].kind
         /\ mem'[x].id = id
    BY <1>7, <2>1, <2>2 DEF Fields
  <2>12. (id = FREE <=> c.id = FREE) /\ (id = REFARRAY \/ id >= JAVA_START => c.id = REFARRAY \/ c.id >= JAVA_START)
    BY <2>3, <2>5 DEF FREE, INVALID, REFARRAY, JAVA_START
  <2>. QED
    BY <2>1, <2>10, <2>11, <2>12 DEF HasRefs, IsJava
<1>9. DOMAIN mem' = DOMAIN mem
  BY <1>5
<1>10. RootPointers' \subseteq RootPointers
  <2>1. \A j \in DOMAIN infusions' : infusions'[j] \in Members(infusions)
    BY <1>1 DEF Unlinked, Members, IInv, InfusionsInv
  <2>. QED
    BY <1>2, <2>1 DEF RootPointers, Frames, Members
<1>11. \A h \in DOMAIN mem' : HasRefs(mem'[h]) \/ h \in RootPointers' =>
         \A r \in Members(mem'[h].refs) : Live(r)
  BY <1>2, <1>8, <1>9, <1>10, QuietRefsHold DEF RInv, QuietRefs, AllLive, HeldLive
<1>12. RefInv'
  BY <1>2, <1>8, <1>9, <1>11, QuietKeeps DEF RInv, InUse
<1>13. ChunksInv'
  BY <1>2, <1>8, <1>9 DEF RInv, ChunksInv, AllFormed, End
<1>14. WaitInv' /\ ScalarsInv'
  BY <1>1, <1>2 DEF RInv, WaitInv, ScalarsInv, IInv, PendingInv, Nothing
<1>. QED
  BY <1>2, <1>12, <1>13, <1>14 DEF RInv, MarkInv

-----------------------------------------------------------------------------
\* Marking.

LEMMA MarkRefs ==
  ASSUME IInv, IInv', RInv, MarkInv, Mark, UNCHANGED threadVars
  PROVE  RInv' /\ MarkInv'
<1>0. PICK a \in DOMAIN mem :
        /\ NextGray(a)
        /\ IF ClassMissing(mem[a])
           THEN halted' = "class" /\ UNCHANGED <<mem, loc, gray>>
           ELSE mem' = Visited(a) /\ gray' = TRUE /\ loc' = a + mem[a].size /\ UNCHANGED halted
  BY DEF Mark
<1>1. /\ phase = "mark" /\ phase' = "mark" /\ halted = "no" /\ Quiet /\ Quiet'
      /\ UNCHANGED <<left, phase, shift, refStack, infusions, stack, pending, current, finished>>
  BY DEF Mark, Collecting, threadVars, Quiet
<1>2. CASE ClassMissing(mem[a])
  BY <1>0, <1>1, <1>2, HaltRefs
<1>3. CASE ~ClassMissing(mem[a])
  <2>1. mem' = Visited(a) /\ gray' = TRUE /\ loc' = a + mem[a].size /\ halted' = halted
    BY <1>0, <1>3
  <2>2. SoundHeap(mem')
    <3>1. DOMAIN Visited(a) = DOMAIN mem
      BY DEF Visited
    <3>2. \A x \in DOMAIN mem : \E k \in {"white", "gray", "black"} :
            Visited(a)[x] = mem[x] \/ Visited(a)[x] = [mem[x] EXCEPT !.color = k]
      BY DEF Visited
    <3>. QED
      BY <1>1, <2>1, <3>1, <3>2, ColorsSound
  <2>3. RefInv' /\ AllFormed(mem)' /\ \A x \in DOMAIN mem' : End(x)' <= left
    BY <1>1, <2>2, SoundKeeps
  <2>4. WaitInv' /\ ScalarsInv'
    BY <1>1, <2>1 DEF RInv, WaitInv, ScalarsInv
  <2>5. ChunksInv'
    BY <1>1, <2>1, <2>3 DEF RInv, ChunksInv, End
  <2>6. /\ DOMAIN mem' = DOMAIN mem
        /\ \A x \in DOMAIN mem :
             /\ mem'[x].refs = mem[x].refs /\ mem'[x].id = mem[x].id
             /\ mem'[x].color = IF x = a THEN "black"
                                ELSE IF x \in Scanned(mem[a]) /\ mem[x].color = "white" THEN "gray"
                                ELSE mem[x].color
    <3>1. \A x \in DOMAIN mem : DOMAIN mem[x] = Fields
      BY DEF IInv, HeapInv, Shaped
    <3>. QED
      BY <2>1, <3>1 DEF Visited, Fields
  <2>7. ASSUME NEW h \in Sources', HasRefs(mem[h])' => mem'[h].color = "black", NEW r \in RefsOf(h)'
        PROVE  r = NoRef \/ mem'[r].color # "white"
    <3>1. RootPointers' = RootPointers
      BY <1>1 DEF RootPointers, Frames
    <3>2. h \in DOMAIN mem /\ h \in Sources /\ r \in RefsOf(h)
      BY <1>1, <2>6, <2>7, <3>1, SourcesAreInPlace, SourcesInPlaceNext
         DEF SourcesInPlace, RefsOf, HasRefs, IsJava
    <3>3. Live(r)
      <4>1. HasRefs(mem[h]) \/ h \in RootPointers
        BY <1>1, <3>2, SourcesAreInPlace DEF SourcesInPlace
      <4>. QED
        BY <1>1, <3>2, <4>1, QuietRefsHold DEF QuietRefs, RInv, AllLive, HeldLive, RefsOf
    <3>4. CASE h = a /\ HasRefs(mem[a])
      BY <2>6, <3>2, <3>3, <3>4 DEF Scanned, RefsOf, Live
    <3>5. CASE ~(h = a /\ HasRefs(mem[a]))
      <4>1. HasRefs(mem[h]) => mem[h].color = "black"
        BY <2>6, <2>7, <3>2, <3>5 DEF HasRefs, IsJava
      <4>2. r = NoRef \/ mem[r].color # "white"
        BY <1>1, <3>2, <4>1 DEF MarkInv
      <4>. QED
        BY <2>6, <3>3, <4>2 DEF Live
    <3>. QED
      BY <3>4, <3>5
  <2>8. MarkInv'
    BY <2>1, <2>7 DEF MarkInv
  <2>. QED
    BY <2>3, <2>4, <2>5, <2>8 DEF RInv
<1>. QED
  BY <1>2, <1>3

\* When a pass has found nothing gray, what is not white is black.
LEMMA MarkedBlack ==
  ASSUME IInv, RInv, MarkInv, phase = "mark", gray = FALSE, \A a \in DOMAIN mem : a >= loc => ~IsGray(a)
  PROVE  \A h \in Sources : mem[h].color # "white" =>
           \A r \in RefsOf(h) : Live(r) /\ (r = NoRef \/ mem[r].color # "white")
<1>1. loc = 0 /\ \A a \in DOMAIN mem : a \in Nat /\ WellFormed(mem[a])
  BY DEF MarkInv, IInv, HeapInv, Shaped, RInv, ChunksInv, AllFormed
<1>2. \A a \in DOMAIN mem : mem[a].color # "white" => mem[a].color = "black"
  BY <1>1 DEF IsGray, WellFormed, ChunkType
<1>3. Sources = {h \in DOMAIN mem : HasRefs(mem[h]) \/ h \in RootPointers}
  BY SourcesAreInPlace DEF SourcesInPlace
<1>4. \A h \in Sources : \A r \in RefsOf(h) : Live(r)
  BY <1>3, QuietRefsHold DEF QuietRefs, Quiet, RInv, AllLive, HeldLive, RefsOf
<1>. QED
  BY <1>2, <1>3, <1>4 DEF MarkInv

LEMMA MarkAgainRefs ==
  ASSUME IInv, IInv', RInv, MarkInv, MarkAgain, UNCHANGED threadVars PROVE RInv' /\ MarkInv'
<1>1. /\ phase = "mark" /\ halted = "no" /\ Quiet /\ loc' = 0 /\ gray' = FALSE
      /\ \A a \in DOMAIN mem : a >= loc => ~IsGray(a)
      /\ UNCHANGED <<left, shift, refStack, infusions, stack, pending, halted, current, finished>>
  BY DEF MarkAgain, Collecting, threadVars, Quiet
<1>2. \A a \in DOMAIN mem : WellFormed(mem[a]) /\ DOMAIN mem[a] = Fields
  BY DEF RInv, ChunksInv, AllFormed, IInv, HeapInv, Shaped
<1>3. left \in Nat
  BY DEF IInv, HeapInv, Shaped
<1>4. CASE gray
  <2>1. mem' = mem /\ phase' = phase /\ Quiet'
    BY <1>1, <1>4 DEF MarkAgain, Quiet
  <2>2. SoundHeap(mem')
    BY <1>1, <2>1, HeapSound
  <2>3. RefInv' /\ AllFormed(mem)' /\ \A x \in DOMAIN mem' : End(x)' <= left
    BY <1>1, <2>1, <2>2, SoundKeeps
  <2>4. WaitInv' /\ ScalarsInv' /\ ChunksInv'
    <3>1. WaitInv' /\ ScalarsInv'
      BY <1>1, <2>1 DEF RInv, WaitInv, ScalarsInv
    <3>2. ChunksInv'
      BY <1>1, <1>3, <2>1, <2>3 DEF RInv, ChunksInv
    <3>. QED
      BY <3>1, <3>2
  <2>5. RootPointers' = RootPointers
    BY <1>1 DEF RootPointers, Frames
  <2>6. Sources' = Sources
    BY <1>1, <2>1, <2>5, SourcesAreInPlace, SourcesInPlaceNext DEF SourcesInPlace
  <2>7. MarkInv'
    BY <1>1, <2>1, <2>6 DEF MarkInv, RefsOf
  <2>. QED
    BY <2>3, <2>4, <2>7 DEF RInv
<1>5. CASE ~gray
  <2>1. /\ mem' = Finalised /\ phase' = "shift" /\ Quiet' /\ gray = FALSE
    BY <1>5 DEF MarkAgain, Quiet, RInv, ScalarsInv
  <2>2. DOMAIN mem' = DOMAIN mem
    BY <2>1 DEF Finalised
  <2>3. ASSUME NEW a \in DOMAIN mem
        PROVE  /\ WellFormed(mem'[a]) /\ mem'[a].refs = mem[a].refs /\ mem'[a].size = mem[a].size
               /\ mem'[a].id = IF mem[a].color = "white" THEN FREE ELSE mem[a].id
               /\ mem'[a].kind = mem[a].kind
    <3>1. mem'[a] = IF mem[a].color = "white" THEN [mem[a] EXCEPT !.id = FREE] ELSE mem[a]
      BY <2>1 DEF Finalised
    <3>2. WellFormed(mem'[a])
      BY <1>2, <3>1, FreeFormed
    <3>. QED
      BY <1>2, <3>1, <3>2 DEF Fields
  <2>4. WaitInv' /\ ScalarsInv'
    BY <1>1, <2>1 DEF RInv, WaitInv, ScalarsInv
  <2>5. ChunksInv'
    BY <1>1, <1>3, <2>2, <2>3 DEF RInv, ChunksInv, AllFormed, End
  <2>6. RootPointers' = RootPointers
    BY <1>1 DEF RootPointers, Frames
  <2>7. ASSUME NEW h \in DOMAIN mem', HasRefs(mem'[h]) \/ h \in RootPointers', NEW r \in Members(mem'[h].refs)
        PROVE  Live(r)'
    <3>1. mem[h].color # "white" /\ h \in Sources /\ r \in RefsOf(h)
      <4>1. CASE HasRefs(mem'[h])
        BY <1>1, <2>2, <2>3, <2>7, <4>1
           DEF Sources, RefsOf, HasRefs, IsJava, FREE, REFARRAY, JAVA_START
      <4>2. CASE h \in RootPointers'
        <5>1. Held(h) /\ ChunkOf(h) = h
          BY <1>1, <2>6, <4>2, RootsHeld, RootsInPlace DEF IInv
        <5>. QED
          BY <1>1, <2>2, <2>3, <2>6, <2>7, <4>2, <5>1 DEF Held, HeldAt, Sources, RefsOf
      <4>. QED
        BY <2>7, <4>1, <4>2
    <3>2. Live(r) /\ (r = NoRef \/ mem[r].color # "white")
      BY <1>1, <2>1, <3>1, MarkedBlack
    <3>. QED
      BY <2>2, <2>3, <3>2 DEF Live, InUse
  <2>8. AllLive'
    BY <2>1, <2>7 DEF AllLive, HeldLive
  <2>9. RefInv'
    BY <2>1, <2>8, QuietRefsNext DEF QuietRefs
  <2>. QED
    BY <2>1, <2>4, <2>5, <2>9 DEF RInv, MarkInv
<1>. QED
  BY <1>4, <1>5

-----------------------------------------------------------------------------
\* Compaction.

LEMMA UpdatedSeqs ==
  ASSUME IInv, RInv, phase # "move"
  PROVE  /\ \A r \in Int : Updated(r) \in Int
         /\ Updated(NoRef) = NoRef
         /\ \A s \in Seq(Int) :
              /\ UpdatedAll(s) \in Seq(Int) /\ Len(UpdatedAll(s)) = Len(s)
              /\ \A r \in Members(UpdatedAll(s)) : \E q \in Members(s) : r = Updated(q)
<1>1. \A a \in DOMAIN mem : a \in Nat /\ mem[a].shift \in Nat
  BY DEF IInv, HeapInv, Shaped, RInv, ChunksInv, AllFormed, WellFormed, ChunkType
<1>2. \A r \in Int : Updated(r) \in Int
  BY <1>1 DEF Updated
<1>3. Updated(NoRef) = NoRef
  BY <1>1, HeapAssumption DEF Updated
<1>4. ASSUME NEW s \in Seq(Int)
      PROVE  /\ UpdatedAll(s) \in Seq(Int) /\ Len(UpdatedAll(s)) = Len(s)
             /\ \A r \in Members(UpdatedAll(s)) : \E q \in Members(s) : r = Updated(q)
  <2>1. DOMAIN s = 1 .. Len(s) /\ Len(s) \in Nat /\ \A i \in 1 .. Len(s) : s[i] \in Int
    OBVIOUS
  <2>2. UpdatedAll(s) = [i \in 1 .. Len(s) |-> Updated(s[i])]
    BY <2>1 DEF UpdatedAll
  <2>3. \A i \in 1 .. Len(s) : Updated(s[i]) \in Int
    BY <1>2, <2>1
  <2>. QED
    BY <2>1, <2>2, <2>3 DEF Members
<1>. QED
  BY <1>2, <1>3, <1>4

LEMMA ShiftRefs ==
  ASSUME IInv, IInv', RInv, Shift, UNCHANGED threadVars PROVE RInv' /\ MarkInv'
<1>1. /\ phase = "shift" /\ phase' = "managed" /\ halted = "no" /\ Quiet /\ Quiet'
      /\ mem' = [a \in DOMAIN mem |-> [mem[a] EXCEPT !.shift = ShiftOf(a)]]
      /\ shift' = Cardinality(FreeMemory)
      /\ UNCHANGED <<left, loc, gray, refStack, infusions, stack, pending, halted, current, finished>>
  BY DEF Shift, Collecting, threadVars, Quiet
<1>2. shift' \in Nat /\ \A a \in DOMAIN mem : ShiftOf(a) \in Nat
  BY <1>1, FreeIsFinite, CompactionFits DEF IInv, HeapInv
<1>3. ASSUME NEW a \in DOMAIN mem
      PROVE  /\ WellFormed(mem'[a]) /\ DOMAIN mem'[a] = DOMAIN mem[a] /\ mem'[a].refs = mem[a].refs
             /\ mem'[a].kind = mem[a].kind /\ mem'[a].name = mem[a].name
             /\ mem'[a].class = mem[a].class /\ mem'[a].id = mem[a].id /\ mem'[a].base = mem[a].base
             /\ mem'[a].size = mem[a].size /\ mem'[a].infusion = mem[a].infusion
  <2>1. WellFormed(mem[a]) /\ DOMAIN mem[a] = Fields
    BY DEF RInv, ChunksInv, AllFormed, IInv, HeapInv, Shaped
  <2>2. mem'[a] = [mem[a] EXCEPT !.shift = ShiftOf(a)]
    BY <1>1
  <2>3. WellFormed(mem'[a])
    BY <1>2, <2>1, <2>2, ShiftFormed
  <2>. QED
    BY <2>1, <2>2, <2>3 DEF Fields
<1>4. DOMAIN mem' = DOMAIN mem
  BY <1>1
<1>5. SoundHeap(mem')
  <2>1. HeldLive(mem)
    BY <1>1, QuietRefsHold DEF RInv, QuietRefs, AllLive
  <2>2. HeldLive(mem')
    BY <1>3, <1>4, <2>1 DEF HeldLive, HasRefs, IsJava
  <2>. QED
    BY <1>3, <1>4, <2>2 DEF SoundHeap, SameClasses, SameButRefs, AllFormed
<1>6. RefInv' /\ AllFormed(mem)' /\ \A x \in DOMAIN mem' : End(x)' <= left
  BY <1>1, <1>5, SoundKeeps
<1>7. WaitInv' /\ ScalarsInv'
  BY <1>1, <1>2 DEF RInv, WaitInv, ScalarsInv
<1>8. ChunksInv'
  BY <1>1, <1>6 DEF RInv, ChunksInv
<1>. QED
  BY <1>1, <1>6, <1>7, <1>8 DEF RInv, MarkInv

\* The place a chunk moves to.
ToObject(r) ==
  r = NoRef \/ \E d \in DOMAIN mem : InUse(d) /\ mem[d].kind = "object" /\ d - mem[d].shift = r

\* Between the two passes over the references, one kind of them is new.
SystemRefs ==
  IInv /\ phase = "system" =>
    (RefInv <=> \A h \in DOMAIN mem :
                  /\ HasRefs(mem[h]) => \A r \in Members(mem[h].refs) : ToObject(r)
                  /\ h \in RootPointers => \A r \in Members(mem[h].refs) : Live(r))
LEMMA SystemRefsHold == SystemRefs
<1>. SUFFICES ASSUME IInv, phase = "system"
              PROVE  RefInv <=> \A h \in DOMAIN mem :
                       /\ HasRefs(mem[h]) => \A r \in Members(mem[h].refs) : ToObject(r)
                       /\ h \in RootPointers => \A r \in Members(mem[h].refs) : Live(r)
  BY DEF SystemRefs
<1>1. \A h : New(h) <=> HasRefs(mem[h])
  BY DEF New
<1>2. \A r : Leads(r, TRUE) <=> ToObject(r)
  BY DEF Leads, At, Place, ToObject
<1>3. Sources = {h \in DOMAIN mem : HasRefs(mem[h]) \/ h \in RootPointers}
  BY SourcesAreInPlace DEF SourcesInPlace
<1>4. \A p \in RootPointers : ~HasRefs(mem[p])
  BY RootsInPlace
<1>5. ASSUME NEW h \in Sources, NEW r
      PROVE  Leads(r, New(h)) <=> IF HasRefs(mem[h]) THEN ToObject(r) ELSE Live(r)
  <2>1. CASE HasRefs(mem[h])
    <3>1. Leads(r, New(h)) <=> Leads(r, TRUE)
      BY <2>1 DEF New, Leads, At
    <3>. QED
      BY <1>2, <2>1, <3>1
  <2>2. CASE ~HasRefs(mem[h])
    <3>1. Leads(r, New(h)) <=> Leads(r, FALSE)
      BY <2>2 DEF New, Leads, At
    <3>. QED
      BY <2>2, <3>1, LeadsToLive
  <2>. QED
    BY <2>1, <2>2
<1>. QED
  BY <1>3, <1>4, <1>5 DEF RefInv, RefsOf

LEMMA SystemRefsNext == SystemRefs'
BY SystemRefsHold, PTL

LEMMA UpdateManagedRefs ==
  ASSUME IInv, IInv', RInv, MarkInv, UpdateManaged, UNCHANGED threadVars PROVE RInv' /\ MarkInv'
<1>1. /\ phase = "managed" /\ halted = "no" /\ Quiet
      /\ UNCHANGED <<left, loc, gray, shift, refStack, infusions, stack, pending, current, finished>>
  BY DEF UpdateManaged, Collecting, threadVars, Quiet
<1>2. CASE \E a \in DOMAIN mem : ClassMissing(mem[a])
  BY <1>1, <1>2, HaltRefs DEF UpdateManaged
<1>3. CASE ~\E a \in DOMAIN mem : ClassMissing(mem[a])
  <2>1. mem' = ManagedUpdated /\ phase' = "system" /\ halted' = halted
    BY <1>3 DEF UpdateManaged
  <2>2. DOMAIN mem' = DOMAIN mem
    BY <2>1 DEF ManagedUpdated
  <2>3. ASSUME NEW a \in DOMAIN mem
        PROVE  /\ WellFormed(mem'[a]) /\ mem'[a].id = mem[a].id /\ mem'[a].size = mem[a].size
               /\ mem'[a].kind = mem[a].kind /\ mem'[a].shift = mem[a].shift
               /\ mem'[a].refs = IF HasRefs(mem[a]) THEN UpdatedAll(mem[a].refs) ELSE mem[a].refs
               /\ mem[a].refs \in Seq(Int)
    <3>1. WellFormed(mem[a]) /\ DOMAIN mem[a] = Fields
      BY DEF RInv, ChunksInv, AllFormed, IInv, HeapInv, Shaped
    <3>2. PICK s : s = UpdatedAll(mem[a].refs)
      OBVIOUS
    <3>3. mem'[a] = IF HasRefs(mem[a]) THEN [mem[a] EXCEPT !.refs = s] ELSE mem[a]
      BY <2>1, <3>2 DEF ManagedUpdated
    <3>4. mem[a].refs \in Seq(Int)
      BY <3>1 DEF WellFormed, ChunkType
    <3>5. s \in Seq(Int) /\ Len(s) = Len(mem[a].refs)
      BY <1>1, <3>2, <3>4, UpdatedSeqs
    <3>6. Fits(s, mem[a])
      BY <3>1, <3>5 DEF Fits, WellFormed
    <3>7. WellFormed(mem'[a])
      BY <3>1, <3>3, <3>6, RefsFormed
    <3>. QED
      BY <3>1, <3>2, <3>3, <3>4, <3>7 DEF Fields
  <2>4. WaitInv' /\ ScalarsInv'
    BY <1>1, <2>1 DEF RInv, WaitInv, ScalarsInv
  <2>5. ChunksInv'
    BY <1>1, <2>2, <2>3 DEF RInv, ChunksInv, AllFormed, End
  <2>6. RootPointers' = RootPointers
    BY <1>1 DEF RootPointers, Frames
  <2>7. /\ \A r : Live(r) => Live(r)'
        /\ \A r, q : Live(r) /\ q = Updated(r) => ToObject(q)'
    BY <1>1, <2>2, <2>3, UpdatedSeqs DEF Live, InUse, ToObject, Updated
  <2>8. ASSUME NEW h \in DOMAIN mem'
        PROVE  /\ HasRefs(mem'[h]) => \A r \in Members(mem'[h].refs) : ToObject(r)'
               /\ h \in RootPointers' => \A r \in Members(mem'[h].refs) : Live(r)'
    <3>1. HasRefs(mem[h]) \/ h \in RootPointers => \A r \in Members(mem[h].refs) : Live(r)
      BY <1>1, <2>2, QuietRefsHold DEF RInv, QuietRefs, AllLive, HeldLive
    <3>2. ASSUME HasRefs(mem'[h]), NEW r \in Members(mem'[h].refs) PROVE ToObject(r)'
      <4>1. HasRefs(mem[h])
        BY <2>2, <2>3, <3>2 DEF HasRefs, IsJava
      <4>2. PICK q \in Members(mem[h].refs) : r = Updated(q)
        BY <1>1, <2>2, <2>3, <3>2, <4>1, UpdatedSeqs
      <4>. QED
        BY <2>7, <3>1, <4>1, <4>2
    <3>3. ASSUME h \in RootPointers', NEW r \in Members(mem'[h].refs) PROVE Live(r)'
      <4>1. h \in RootPointers /\ ~HasRefs(mem[h])
        BY <1>1, <2>6, <3>3, RootsInPlace
      <4>. QED
        BY <2>2, <2>3, <2>7, <3>1, <3>3, <4>1
    <3>. QED
      BY <3>2, <3>3
  <2>9. RefInv'
    BY <2>1, <2>8, SystemRefsNext DEF SystemRefs
  <2>. QED
    BY <2>1, <2>4, <2>5, <2>9 DEF RInv, MarkInv
<1>. QED
  BY <1>2, <1>3

\* What a reference to the new place of an object means while chunks move.
ToSpot(r) == r = NoRef \/ \E d \in DOMAIN mem : InUse(d) /\ mem[d].kind = "object" /\ Spot(d) = r

MovingRefs ==
  phase = "move" => (RefInv <=> \A h \in Sources : \A r \in RefsOf(h) : ToSpot(r))
LEMMA MovingRefsHold == MovingRefs
BY DEF MovingRefs, RefInv, Leads, At, New, Place, Spot, ToSpot

LEMMA MovingRefsNext == MovingRefs'
BY MovingRefsHold, PTL

LEMMA UpdateSystemRefs ==
  ASSUME IInv, IInv', RInv, MarkInv, UpdateSystem, UNCHANGED threadVars PROVE RInv' /\ MarkInv'
<1>1. /\ phase = "system" /\ halted = "no" /\ loc = 0
      /\ UNCHANGED <<left, loc, gray, shift, pending, current, finished>>
  BY DEF UpdateSystem, Collecting, threadVars, IInv, HeapInv
<1>2. CASE StaleFrames # {}
  BY <1>1, <1>2, HaltRefs DEF UpdateSystem
<1>3. CASE StaleFrames = {}
  <2>1. /\ mem' = SystemUpdated /\ phase' = "move" /\ halted' = halted
        /\ refStack' = UpdatedAll(refStack) /\ infusions' = UpdatedAll(infusions)
        /\ stack' = [t \in Threads |-> UpdatedAll(stack[t])]
    BY <1>3 DEF UpdateSystem
  <2>2. DOMAIN mem' = DOMAIN mem
    BY <2>1 DEF SystemUpdated
  <2>3. ASSUME NEW a \in DOMAIN mem
        PROVE  /\ WellFormed(mem'[a]) /\ mem'[a].id = mem[a].id /\ mem'[a].size = mem[a].size
               /\ mem'[a].kind = mem[a].kind /\ mem'[a].shift = mem[a].shift
               /\ mem'[a].refs = IF mem[a].id \in {FRAME, INFUSION} THEN UpdatedAll(mem[a].refs)
                                 ELSE mem[a].refs
               /\ mem[a].refs \in Seq(Int) /\ a \in Nat /\ mem[a].shift \in Nat
    <3>1. WellFormed(mem[a]) /\ DOMAIN mem[a] = Fields /\ a \in Nat
      BY DEF RInv, ChunksInv, AllFormed, IInv, HeapInv, Shaped
    <3>2. PICK s, link : s = UpdatedAll(mem[a].refs) /\ link = Updated(mem[a].infusion)
      OBVIOUS
    <3>3. mem'[a] = IF mem[a].id \in {FRAME, INFUSION}
                    THEN [mem[a] EXCEPT !.refs = s, !.infusion = link] ELSE mem[a]
      BY <2>1, <3>2 DEF SystemUpdated
    <3>4. mem[a].refs \in Seq(Int) /\ mem[a].infusion \in Int /\ mem[a].shift \in Nat
      BY <3>1 DEF WellFormed, ChunkType
    <3>5. s \in Seq(Int) /\ Len(s) = Len(mem[a].refs) /\ link \in Int
      BY <1>1, <3>2, <3>4, UpdatedSeqs
    <3>6. Fits(s, mem[a])
      BY <3>1, <3>5 DEF Fits, WellFormed
    <3>7. PICK c : c = [mem[a] EXCEPT !.refs = s]
      OBVIOUS
    <3>8. WellFormed(c) /\ WellFormed([c EXCEPT !.infusion = link])
      BY <3>1, <3>5, <3>6, <3>7, RefsFormed, LinkFormed
    <3>9. [mem[a] EXCEPT !.refs = s, !.infusion = link] = [c EXCEPT !.infusion = link]
      BY <3>7
    <3>10. WellFormed(mem'[a])
      BY <3>1, <3>3, <3>8, <3>9
    <3>. QED
      BY <3>1, <3>2, <3>3, <3>4, <3>10 DEF Fields
  <2>4. \/ refStack' = <<>> /\ refStack = <<>>
        \/ Len(refStack') = 1 /\ Len(refStack) = 1
    <3>1. refStack \in Seq(Int) /\ (refStack = <<>> \/ Len(refStack) = 1)
      BY DEF IInv, PendingInv, RInv, WaitInv
    <3>2. refStack' \in Seq(Int) /\ Len(refStack') = Len(refStack)
      BY <1>1, <2>1, <3>1, UpdatedSeqs
    <3>. QED
      BY <3>1, <3>2
  <2>5. WaitInv'
    <3>1. pending.op # "new" => pending'.op # "new"
      BY <1>1
    <3>2. pending.op = "new" => stack'[current'] # <<>>
      <4>1. stack \in [Threads -> Seq(Int)] /\ current \in Threads
        BY DEF IInv, FramesInv
      <4>2. Len(stack'[current]) = Len(stack[current]) /\ stack'[current] \in Seq(Int)
        BY <1>1, <2>1, <4>1, UpdatedSeqs
      <4>3. pending.op = "new" => stack[current] # <<>>
        BY DEF RInv, WaitInv
      <4>. QED
        BY <1>1, <4>1, <4>2, <4>3
    <3>. QED
      BY <1>1, <2>1, <2>4, <3>2 DEF RInv, WaitInv
  <2>6. ScalarsInv'
    BY <1>1, <2>1 DEF RInv, ScalarsInv
  <2>7. ChunksInv'
    BY <1>1, <2>2, <2>3 DEF RInv, ChunksInv, AllFormed, End
  <2>8. \A h \in DOMAIN mem :
          /\ HasRefs(mem[h]) => \A r \in Members(mem[h].refs) : ToObject(r)
          /\ h \in RootPointers => \A r \in Members(mem[h].refs) : Live(r)
    BY <1>1, SystemRefsHold DEF SystemRefs, RInv
  <2>9. \A d \in DOMAIN mem : Spot(d)' = d - mem[d].shift
    BY <1>1, <2>1, <2>2, <2>3 DEF Spot
  <2>10. /\ \A r : ToObject(r) => ToSpot(r)'
         /\ \A r, q : Live(r) /\ q = Updated(r) => ToSpot(q)'
    <3>1. \A d \in DOMAIN mem : InUse(d) /\ mem[d].kind = "object" =>
            d \in DOMAIN mem' /\ InUse(d)' /\ mem'[d].kind = "object" /\ Spot(d)' = d - mem[d].shift
      BY <2>2, <2>3, <2>9 DEF InUse
    <3>2. \A r : ToObject(r) => ToSpot(r)'
      BY <3>1 DEF ToObject, ToSpot
    <3>3. ASSUME NEW r, Live(r), NEW q, q = Updated(r) PROVE ToSpot(q)'
      BY <1>1, <3>1, <3>3, UpdatedSeqs DEF Live, Updated, ToSpot
    <3>. QED
      BY <3>2, <3>3
  <2>11. ASSUME NEW p \in RootPointers'
         PROVE  \E q \in RootPointers : p = Updated(q)
    <3>1. \A t \in Threads : \A i \in DOMAIN stack'[t] : \E q \in RootPointers : stack'[t][i] = Updated(q)
      <4>1. stack \in [Threads -> Seq(Int)] /\ IInv
        BY DEF IInv, FramesInv
      <4>2. \A t \in Threads : \A r \in Members(stack'[t]) : \E q \in Members(stack[t]) : r = Updated(q)
        BY <1>1, <2>1, <4>1, UpdatedSeqs
      <4>. QED
        BY <4>2, RootsAre DEF Members
    <3>2. \A r \in Members(infusions') : \E q \in RootPointers : r = Updated(q)
      BY <1>1, <2>1, UpdatedSeqs DEF IInv, InfusionsInv, RootPointers
    <3>. QED
      BY <3>1, <3>2 DEF RootPointers, Frames, Members
  <2>12. ASSUME NEW q \in RootPointers, NEW p, p = Updated(q)
         PROVE  /\ ChunkOf(p)' = q /\ q \in DOMAIN mem
                /\ mem[q].id \in {FRAME, INFUSION} /\ ~HasRefs(mem[q])
    <3>1. q \in DOMAIN mem /\ InUse(q) /\ mem[q].id \in {FRAME, INFUSION} /\ ~HasRefs(mem[q])
      BY <1>1, RootsInPlace
    <3>2. HeldAt(p, q)'
      BY <2>1, <2>2, <2>3, <2>9, <2>12, <3>1 DEF HeldAt, InUse, Updated
    <3>3. HeapInv'
      BY DEF IInv
    <3>. QED
      BY <3>1, <3>2, <3>3, HeldIsRootNext DEF RootsAreHeld
  <2>13. ASSUME NEW h \in Sources', NEW r \in RefsOf(h)' PROVE ToSpot(r)'
    <3>1. CASE h \in DOMAIN mem' /\ HasRefs(mem'[h])
      <4>1. HasRefs(mem[h]) /\ mem'[h].refs = mem[h].refs
        BY <2>2, <2>3, <3>1 DEF HasRefs, IsJava, FRAME, INFUSION, REFARRAY, JAVA_START
      <4>. QED
        BY <2>2, <2>8, <2>10, <2>13, <3>1, <4>1 DEF RefsOf
    <3>2. CASE ~(h \in DOMAIN mem' /\ HasRefs(mem'[h]))
      <4>1. PICK p \in RootPointers' : h = ChunkOf(p)'
        BY <2>13, <3>2 DEF Sources
      <4>2. PICK q \in RootPointers : p = Updated(q)
        BY <2>11
      <4>3. h = q /\ q \in DOMAIN mem /\ mem[q].id \in {FRAME, INFUSION}
        BY <2>12, <4>1, <4>2
      <4>4. PICK x \in Members(mem[q].refs) : r = Updated(x)
        BY <1>1, <2>3, <2>13, <4>3, UpdatedSeqs DEF RefsOf
      <4>. QED
        BY <2>8, <2>10, <4>3, <4>4
    <3>. QED
      BY <3>1, <3>2
  <2>14. RefInv'
    BY <2>1, <2>13, MovingRefsNext DEF MovingRefs
  <2>. QED
    BY <2>1, <2>5, <2>6, <2>7, <2>14 DEF RInv, MarkInv
<1>. QED
  BY <1>2, <1>3

LEMMA MoveRefs == ASSUME IInv, IInv', RInv, Move, UNCHANGED threadVars PROVE RInv' /\ MarkInv'
<1>1. PICK a \in DOMAIN mem :
        NextInUse(a) /\ mem' = MovedTo(a, a - mem[a].shift) /\ loc' = a + mem[a].size
  BY DEF Move
<1>2. /\ phase = "move" /\ phase' = "move" /\ halted = "no"
      /\ UNCHANGED <<left, gray, shift, refStack, infusions, stack, pending, halted, current, finished>>
  BY DEF Move, Collecting, threadVars
<1>3. PICK to : to = Spot(a)
  OBVIOUS
<1>4. MovedAlone(a, to)
  BY <1>1, <1>2, <1>3, MoveMoves DEF IInv
<1>5. \A x \in DOMAIN mem : WellFormed(mem[x]) /\ DOMAIN mem[x] = Fields /\ x \in Nat
                            /\ mem[x].size \in Nat /\ x + mem[x].size <= left /\ left \in Nat
  BY DEF RInv, ChunksInv, AllFormed, IInv, HeapInv, Shaped, End
<1>6. /\ to \in DOMAIN mem' /\ Spot(to)' = to /\ WellFormed(mem'[to])
      /\ mem'[to].id = mem[a].id /\ mem'[to].kind = mem[a].kind
      /\ mem'[to].refs = mem[a].refs /\ mem'[to].size = mem[a].size /\ InUse(a)
  <2>1. mem'[to] = [mem[a] EXCEPT !.color = "white", !.shift = 0]
    BY <1>4 DEF MovedAlone
  <2>2. PICK c, d : c = mem[a] /\ d = [c EXCEPT !.color = "white"]
    OBVIOUS
  <2>3. WellFormed(c)
    BY <1>5, <2>2
  <2>4. WellFormed(d)
    BY <2>2, <2>3, ColorFormed
  <2>5. WellFormed([d EXCEPT !.shift = 0])
    BY <2>4, ShiftFormed
  <2>6. mem'[to] = [d EXCEPT !.shift = 0]
    BY <2>1, <2>2
  <2>7. InUse(a)
    BY <1>1 DEF NextInUse
  <2>. QED
    BY <1>4, <1>5, <2>1, <2>5, <2>6, <2>7 DEF MovedAlone, Fields
<1>7. \A d \in DOMAIN mem : InUse(d) /\ d # a =>
        d \in DOMAIN mem' /\ mem'[d] = mem[d] /\ Spot(d)' = Spot(d)
  BY <1>4 DEF MovedAlone
<1>8. \A d \in DOMAIN mem' : d # to => d \in DOMAIN mem /\ d # a /\ mem'[d] = mem[d]
  BY <1>4 DEF MovedAlone
<1>9. to \in Nat /\ to <= a
  BY <1>2, <1>3, <1>6 DEF IInv, HeapInv, Sliding
<1>10. ChunksInv'
  <2>1. \A x \in DOMAIN mem' : WellFormed(mem'[x]) /\ x + mem'[x].size <= left
    BY <1>5, <1>6, <1>8, <1>9
  <2>. QED
    BY <1>1, <1>2, <1>5, <2>1 DEF RInv, ChunksInv, AllFormed, End
<1>11. WaitInv' /\ ScalarsInv'
  BY <1>2 DEF RInv, WaitInv, ScalarsInv
<1>12. \A r : ToSpot(r) => ToSpot(r)'
  <2>. SUFFICES ASSUME NEW r, NEW d \in DOMAIN mem, InUse(d), mem[d].kind = "object", Spot(d) = r
                PROVE  \E e \in DOMAIN mem' : mem'[e].id # FREE /\ mem'[e].kind = "object" /\ Spot(e)' = r
    BY DEF ToSpot, InUse
  <2>1. CASE d = a
    BY <1>3, <1>6, <2>1 DEF InUse
  <2>2. CASE d # a
    BY <1>7, <2>2 DEF InUse
  <2>. QED
    BY <2>1, <2>2
<1>13. ASSUME NEW h \in Sources', NEW r \in RefsOf(h)'
       PROVE  \E g \in Sources : r \in RefsOf(g)
  <2>1. RootPointers' = RootPointers
    BY <1>2 DEF RootPointers, Frames
  <2>2. CASE h \in DOMAIN mem' /\ HasRefs(mem'[h])
    <3>1. CASE h = to
      BY <1>6, <1>13, <2>2, <3>1 DEF Sources, RefsOf, HasRefs, IsJava
    <3>2. CASE h # to
      BY <1>8, <1>13, <2>2, <3>2 DEF Sources, RefsOf
    <3>. QED
      BY <3>1, <3>2
  <2>3. CASE ~(h \in DOMAIN mem' /\ HasRefs(mem'[h]))
    <3>1. PICK p \in RootPointers : h = ChunkOf(p)'
      BY <1>13, <2>1, <2>3 DEF Sources
    <3>2. PICK d : d = ChunkOf(p)
      OBVIOUS
    <3>3. HeldAt(p, d)
      BY <3>2, RootsHeld DEF IInv, Held
    <3>4. d \in DOMAIN mem /\ InUse(d) /\ Spot(d) = p
      BY <3>3 DEF HeldAt
    <3>5. PICK e : e = IF d = a THEN to ELSE d
      OBVIOUS
    <3>6. HeldAt(p, e)' /\ mem'[e].refs = mem[d].refs
      BY <1>2, <1>3, <1>6, <1>7, <3>4, <3>5 DEF HeldAt, InUse
    <3>7. h = e
      BY <3>1, <3>6, HeldIsRootNext DEF RootsAreHeld, IInv
    <3>. QED
      BY <1>13, <3>2, <3>6, <3>7 DEF RefsOf, Sources
  <2>. QED
    BY <2>2, <2>3
<1>14. \A h \in Sources : \A r \in RefsOf(h) : ToSpot(r)
  BY <1>2, MovingRefsHold DEF MovingRefs, RInv
<1>15. RefInv'
  BY <1>2, <1>12, <1>13, <1>14, MovingRefsNext DEF MovingRefs
<1>. QED
  BY <1>2, <1>10, <1>11, <1>15 DEF RInv, MarkInv

LEMMA EndMoveRefs == ASSUME IInv, IInv', RInv, EndMove, UNCHANGED threadVars PROVE RInv' /\ MarkInv'
<1>1. /\ phase = "move" /\ phase' = "alloc" /\ halted = "no" /\ left' = left - shift
      /\ loc' = 0 /\ shift' = 0 /\ Quiet'
      /\ mem' = [a \in {x \in DOMAIN mem : InUse(x)} |-> mem[a]]
      /\ UNCHANGED <<gray, refStack, infusions, stack, pending, halted, current, finished>>
      /\ \A a \in DOMAIN mem : a >= loc => ~InUse(a)
  BY DEF EndMove, Collecting, threadVars, Quiet
<1>2. \A d \in DOMAIN mem : InUse(d) => Spot(d) = d /\ d + mem[d].size <= left - shift
  BY <1>1 DEF Spot, IInv, HeapInv, Sliding
<1>3. /\ DOMAIN mem' = {x \in DOMAIN mem : InUse(x)}
      /\ \A a \in DOMAIN mem' : mem'[a] = mem[a]
  BY <1>1
<1>4. left \in Nat /\ shift \in Nat /\ left - shift \in Nat /\ left <= HeapSize /\ HeapSize \in Nat
  BY <1>1, HeapAssumption DEF IInv, HeapInv, Shaped, Sliding, RInv, ChunksInv
<1>5. ChunksInv'
  BY <1>1, <1>2, <1>3, <1>4 DEF RInv, ChunksInv, AllFormed, End
<1>6. WaitInv' /\ ScalarsInv'
  BY <1>1 DEF RInv, WaitInv, ScalarsInv
<1>7. \A r : ToSpot(r) => Live(r)'
  BY <1>2, <1>3 DEF ToSpot, Live, InUse
<1>8. ASSUME NEW h \in DOMAIN mem', HasRefs(mem'[h]) \/ h \in RootPointers', NEW r \in Members(mem'[h].refs)
      PROVE  Live(r)'
  <2>1. h \in Sources
    <3>1. CASE HasRefs(mem'[h])
      BY <1>3, <1>8, <3>1 DEF Sources
    <3>2. CASE h \in RootPointers'
      <4>1. h \in RootPointers
        BY <1>1, <3>2 DEF RootPointers, Frames
      <4>2. PICK d : d = ChunkOf(h)
        OBVIOUS
      <4>3. HeldAt(h, d)
        BY <4>1, <4>2, RootsHeld DEF IInv, Held
      <4>4. d = h
        BY <1>2, <4>3 DEF HeldAt
      <4>. QED
        BY <4>1, <4>2, <4>4 DEF Sources
    <3>. QED
      BY <1>8, <3>1, <3>2
  <2>2. ToSpot(r)
    BY <1>1, <1>3, <1>8, <2>1, MovingRefsHold DEF MovingRefs, RInv, RefsOf
  <2>. QED
    BY <1>7, <2>2
<1>9. AllLive'
  BY <1>1, <1>8 DEF AllLive, HeldLive
<1>10. RefInv'
  BY <1>1, <1>9, QuietRefsNext DEF QuietRefs
<1>. QED
  BY <1>1, <1>5, <1>6, <1>10 DEF RInv, MarkInv

-----------------------------------------------------------------------------
\* The invariant holds.

LEMMA CollectRefs ==
  ASSUME IInv, IInv', RInv, MarkInv, Collect, UNCHANGED threadVars PROVE RInv' /\ MarkInv'
BY MarkRefs, MarkAgainRefs, ShiftRefs, UpdateManagedRefs, UpdateSystemRefs, MoveRefs, EndMoveRefs
   DEF Collect

LEMMA NextRefs == IInv /\ IInv' /\ RInv /\ MarkInv /\ [Next]_vars => RInv' /\ MarkInv'
<1>. SUFFICES ASSUME IInv, IInv', RInv, MarkInv, [Next]_vars PROVE RInv' /\ MarkInv'
  OBVIOUS
<1>1. ASSUME NEW t \in Threads, Instruction(t) PROVE RInv' /\ MarkInv'
  <2>1. CASE GETSTATIC_A(t) \/ PUTSTATIC_A(t) \/ GETFIELD_A(t) \/ PUTFIELD_A(t) \/ POP(t)
    <3>1. RInv'
      BY <2>1, OperandsRefs
    <3>2. phase' = "run"
      BY <2>1 DEF GETSTATIC_A, PUTSTATIC_A, GETFIELD_A, PUTFIELD_A, POP, Running, Do, On
    <3>. QED
      BY <3>1, <3>2 DEF MarkInv
  <2>2. CASE NEWOBJECT(t) \/ ANEWARRAY(t) \/ INVOKE(t) \/ START(t) \/ THROW(t) \/ LOAD(t)
    BY <2>2, AllocationRefs
  <2>3. CASE RETURN(t) \/ ARETURN(t)
    BY <2>3, EndRefs
  <2>4. CASE UNLOAD(t)
    BY <2>4, UnloadRefs
  <2>. QED
    BY <1>1, <2>1, <2>2, <2>3, <2>4 DEF Instruction
<1>2. CASE Resume
  BY <1>2, GotObjectRefs, GotFrameRefs, GotInfusionRefs, GotExceptionRefs, RefusedRefs, CatchRefs,
     EndRefs
     DEF Resume
<1>3. CASE SCHEDULE
  BY <1>3, ScheduleRefs
<1>4. CASE Collect /\ UNCHANGED threadVars
  BY <1>4, CollectRefs
<1>5. CASE UNCHANGED vars
  <2>1. /\ UNCHANGED <<mem, left, phase, loc, gray, shift, refStack, infusions, stack, pending, halted>>
        /\ UNCHANGED <<current, finished>>
    BY <1>5 DEF vars, heapVars
  <2>2. ScalarsInv' /\ ChunksInv' /\ WaitInv'
    BY <2>1 DEF RInv, ScalarsInv, ChunksInv, AllFormed, WaitInv, End
  <2>3. /\ RefInv' <=> RefInv
        /\ MarkInv' <=> MarkInv
    BY <2>1
       DEF RefInv, MarkInv, Sources, RefsOf, Leads, At, New, Place, InUse, RootPointers, Frames,
                ChunkOf, Spot
  <2>. QED
    BY <2>2, <2>3 DEF RInv
<1>. QED
  BY <1>1, <1>2, <1>3, <1>4, <1>5 DEF Next

LEMMA InitRefs == Init => RInv /\ MarkInv
<1>. SUFFICES ASSUME Init PROVE RInv /\ MarkInv
  OBVIOUS
<1>1. /\ InfusionSize \in Nat \ {0} /\ FrameSize \in Nat \ {0} /\ BaseName \in Names /\ HeapSize \in Nat
      /\ InfusionSize + FrameSize <= HeapSize
  BY HeapAssumption, InfusionsAssumption
<1>2. /\ DOMAIN mem = {0, InfusionSize}
      /\ mem[0] = Infusion(InfusionSize, BaseName, NoRef, JAVA_START)
      /\ mem[InfusionSize] = Frame(FrameSize, 0, BaseName)
      /\ left = InfusionSize + FrameSize /\ phase = "run" /\ loc = 0 /\ gray = FALSE /\ shift = 0
      /\ refStack = <<>> /\ pending = Nothing /\ halted = "no" /\ finished = {}
  BY <1>1 DEF Init
<1>3. WellFormed(mem[0]) /\ WellFormed(mem[InfusionSize])
  BY <1>1, <1>2, MadeFormed, HeapAssumption DEF JAVA_START
<1>4. /\ mem[0].size = InfusionSize /\ mem[InfusionSize].size = FrameSize
      /\ mem[0].refs = <<NoRef>> /\ mem[InfusionSize].refs = <<>>
  BY <1>2 DEF Infusion, Frame, Chunk
<1>5. ChunksInv
  BY <1>1, <1>2, <1>3, <1>4 DEF ChunksInv, AllFormed, End
<1>6. ScalarsInv /\ WaitInv
  BY <1>2 DEF ScalarsInv, WaitInv, Nothing
<1>7. \A h \in DOMAIN mem : \A r \in Members(mem[h].refs) : Live(r)
  BY <1>2, <1>4 DEF Members, Live
<1>8. RefInv
  BY <1>2, <1>7, InitSound, QuietRefsHold DEF QuietRefs, Quiet, AllLive, HeldLive
<1>. QED
  BY <1>2, <1>5, <1>6, <1>8 DEF RInv, MarkInv

LEMMA RefsInvariance == Spec => [](IInv /\ RInv /\ MarkInv)
<1>1. Init => IInv /\ RInv /\ MarkInv
  BY InitSound, InitRefs
<1>2. (IInv /\ RInv /\ MarkInv) /\ [Next]_vars => (IInv /\ RInv /\ MarkInv)'
  BY NextSound, NextRefs
<1>. QED
  BY <1>1, <1>2, PTL DEF Spec

-----------------------------------------------------------------------------
\* The theorems.

\* All the state is as the C types say, and no chunk is beyond heap_base + heap_size.
THEOREM TypesHold == Spec => []TypeOK
<1>1. IInv /\ RInv => TypeOK
  <2>. SUFFICES ASSUME IInv, RInv PROVE TypeOK
    OBVIOUS
  <2>1. /\ left \in Nat /\ loc \in Nat /\ left <= HeapSize /\ loc <= left /\ HeapSize \in Nat
        /\ \A a \in DOMAIN mem : a \in Nat /\ mem[a].size \in Nat \ {0} /\ a + mem[a].size <= left
    BY HeapAssumption DEF IInv, HeapInv, Shaped, RInv, ChunksInv, End
  <2>2. DOMAIN mem \subseteq 0 .. HeapSize - 1 /\ left \in 0 .. HeapSize /\ loc \in 0 .. HeapSize
    BY <2>1
  <2>3. \A a \in DOMAIN mem : mem[a] \in ChunkType
    BY DEF RInv, ChunksInv, AllFormed, WellFormed
  <2>. QED
    BY <2>2, <2>3 DEF TypeOK, IInv, PendingInv, FramesInv, InfusionsInv, RInv, ScalarsInv
<1>. QED
  BY <1>1, RefsInvariance, PTL

\* While the program runs, every reference it can get hold of, from an operand stack, a
\* static, a field or an array, is null or leads to exactly one object in use: the collector
\* left none behind, and none to a chunk that was freed.
THEOREM ReferencesLive == Spec => []RefsLive
<1>1. IInv /\ RInv => RefsLive
  <2>. SUFFICES ASSUME IInv, RInv, phase = "run"
                PROVE  /\ \A p \in RootPointers : At(p, FALSE) = {p} /\ LeadsToOne(RefsMean(p))
                       /\ \A h \in ReachedHolders : LeadsToOne(RefsMean(h))
    BY DEF RefsLive, RootPointers
  <2>1. \A p \in RootPointers : p \in DOMAIN mem /\ InUse(p)
    BY RootsInPlace
  <2>2. \A p \in RootPointers : At(p, FALSE) = {p}
    BY <2>1 DEF At
  <2>3. \A h : New(h) = FALSE
    BY DEF New
  <2>4. ASSUME NEW r, Live(r)
        PROVE  \E l \in Labels \cup {NoLabel} : Means(r, FALSE) = {l}
    <3>1. CASE r = NoRef
      BY <3>1 DEF Means
    <3>2. CASE r # NoRef
      <4>1. r \in DOMAIN mem /\ At(r, FALSE) = {r}
        BY <2>4, <3>2 DEF Live, At
      <4>2. mem[r].label \in Labels \cup {NoLabel}
        BY <4>1 DEF RInv, ChunksInv, AllFormed, WellFormed, ChunkType
      <4>. QED
        BY <3>2, <4>1, <4>2 DEF Means
    <3>. QED
      BY <3>1, <3>2
  <2>5. ASSUME NEW h \in DOMAIN mem, HasRefs(mem[h]) \/ h \in RootPointers
        PROVE  LeadsToOne(RefsMean(h))
    <3>1. \A r \in Members(mem[h].refs) : Live(r)
      BY <2>5, QuietRefsHold DEF QuietRefs, Quiet, RInv, AllLive, HeldLive
    <3>2. DOMAIN RefsMean(h) = DOMAIN mem[h].refs
          /\ \A i \in DOMAIN mem[h].refs : RefsMean(h)[i] = Means(mem[h].refs[i], FALSE)
      BY <2>3 DEF RefsMean
    <3>3. ASSUME NEW i \in DOMAIN mem[h].refs
          PROVE  \E l \in Labels \cup {NoLabel} : RefsMean(h)[i] = {l}
      <4>1. PICK r : r = mem[h].refs[i]
        OBVIOUS
      <4>2. Live(r)
        BY <3>1, <4>1 DEF Members
      <4>3. PICK l \in Labels \cup {NoLabel} : Means(r, FALSE) = {l}
        BY <2>4, <4>2
      <4>4. RefsMean(h)[i] = Means(r, FALSE)
        BY <3>2, <4>1
      <4>. QED
        BY <4>3, <4>4
    <3>. QED
      BY <3>2, <3>3 DEF LeadsToOne
  <2>6. \A h \in ReachedHolders : h \in DOMAIN mem /\ HasRefs(mem[h])
    BY DEF ReachedHolders, Holders
  <2>. QED
    BY <2>1, <2>2, <2>5, <2>6
<1>. QED
  BY <1>1, RefsInvariance, PTL

\* While dj_mem_mark visits, no black object refers to a white one, and no root, static or
\* saved C pointer does: what is white in the end cannot be reached.
THEOREM ColorsHold == Spec => []TriColor
<1>1. IInv /\ RInv /\ MarkInv => TriColor
  <2>. SUFFICES ASSUME IInv, RInv, MarkInv, phase = "mark"
                PROVE  /\ \A r \in FrameRefs \cup StaticRefs \cup Members(refStack) :
                            r # NoRef => mem[r].color # "white"
                       /\ \A a \in DOMAIN mem :
                            HasRefs(mem[a]) /\ mem[a].color = "black" =>
                              \A r \in Members(mem[a].refs) : r # NoRef => mem[r].color # "white"
    BY DEF TriColor
  <2>1. \A h \in Sources : (HasRefs(mem[h]) => mem[h].color = "black") =>
          \A r \in RefsOf(h) : r = NoRef \/ mem[r].color # "white"
    BY DEF MarkInv
  <2>2. \A p \in RootPointers : ChunkOf(p) = p /\ ~HasRefs(mem[p]) /\ mem[p].color # "white"
    BY RootsHeld, RootsInPlace DEF IInv, Held, HeldAt
  <2>3. \A p \in RootPointers : \A r \in Members(mem[p].refs) : r = NoRef \/ mem[r].color # "white"
    BY <2>1, <2>2 DEF Sources, RefsOf
  <2>4. \A r \in FrameRefs \cup StaticRefs : r # NoRef => mem[r].color # "white"
    BY <2>3 DEF FrameRefs, StaticRefs, RootPointers
  <2>5. \A r \in Members(refStack) : mem[r].color # "white"
    <3>1. refStack # <<>> => Len(refStack) = 1 /\ LastOf(refStack) \in RootPointers
      BY DEF RInv, WaitInv, IInv, PendingInv, Asked, RootPointers
    <3>2. \A r \in Members(refStack) : Len(refStack) = 1 /\ r = LastOf(refStack)
      BY <3>1 DEF Members, LastOf, IInv, PendingInv
    <3>. QED
      BY <2>2, <3>1, <3>2 DEF Members
  <2>6. \A a \in DOMAIN mem : HasRefs(mem[a]) /\ mem[a].color = "black" =>
          \A r \in Members(mem[a].refs) : r # NoRef => mem[r].color # "white"
    BY <2>1 DEF Sources, RefsOf
  <2>. QED
    BY <2>4, <2>5, <2>6
<1>. QED
  BY <1>1, RefsInvariance, PTL

=============================================================================
