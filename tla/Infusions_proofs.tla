--------------------------- MODULE Infusions_proofs ---------------------------
(***************************************************************************)
(* Proofs about Infusions, for any threads, infusions and imports, any sizes  *)
(* and any heap: the heap stays in order, and so do the pointers into it that  *)
(* the machine keeps outside it.                                            *)
(***************************************************************************)
EXTENDS Infusions, Heap_proofs, SequenceTheorems

-----------------------------------------------------------------------------
\* The inductive invariant: HeapInv, and what the pointers in the VM struct and in the
\* threads point to, also in the middle of a collection.

\* Each thread has its frames to itself, and a thread that may run again executes methods
\* of loaded infusions.
FramesInv ==
  /\ stack \in [Threads -> Seq(Int)]
  /\ \A t \in Threads : \A i \in DOMAIN stack[t] :
       Held(stack[t][i]) /\ Root(stack[t][i]).id = FRAME
  /\ \A t, u \in Threads : \A i \in DOMAIN stack[t] : \A j \in DOMAIN stack[u] :
       stack[t][i] = stack[u][j] => t = u /\ i = j
  /\ \A t \in Threads \ finished : \A i \in DOMAIN stack[t] :
       Root(stack[t][i]).infusion \in Members(infusions)

\* The infusion at position i of the list, and the first class id behind it.
Inf(i) == Root(infusions[i])
Limit(i) == Inf(i).base + NrClasses[Inf(i).name]

InfusionsInv ==
  /\ infusions \in Seq(Int) /\ infusions # <<>>
  /\ \A i \in DOMAIN infusions :
       /\ Held(infusions[i]) /\ Inf(i).id = INFUSION
       /\ Inf(i).name \in Names /\ Inf(i).base \in Nat
       /\ Inf(i).infusion \in Members(infusions) \cup {NoRef}
  /\ Inf(1).base = JAVA_START /\ Inf(1).name = BaseName
  /\ \A i \in DOMAIN infusions : i > 1 => Inf(i).base = Limit(i - 1)
  /\ \A i, j \in DOMAIN infusions : i < j => Limit(i) <= Inf(j).base

\* What the operation that waits for memory asked for.
Asked(p, saved) ==
  /\ p.op \in {"new", "frame", "load", "throw"} => p.size \in Nat \ {0}
  /\ p.op = "load" => p.name \in Names
  /\ p.op = "frame" =>
       /\ p.thread \in Threads
       /\ Len(saved) > 0 /\ LastOf(saved) \in Members(infusions)

PendingInv ==
  /\ phase = "run" => pending = Nothing
  /\ refStack \in Seq(Int)
  /\ Asked(pending, refStack)

IInv ==
  /\ HeapInv /\ FramesInv /\ InfusionsInv /\ PendingInv
  /\ current \in Threads

-----------------------------------------------------------------------------
\* Steps that leave the pointers alone.

RootPointers == Frames \cup Members(infusions)

LEMMA RootsAre ==
  /\ \A t \in Threads : \A i \in DOMAIN stack[t] : stack[t][i] \in RootPointers
  /\ \A i \in DOMAIN infusions : infusions[i] \in RootPointers
BY DEF RootPointers, Frames, Members

\* Frames that are left: each is where it was, and its infusion loaded if its thread goes on.
LEMMA FramesLeft ==
  ASSUME FramesInv, stack' \in [Threads -> Seq(Int)], NEW R,
         \A r \in R : Linked(r, r, Root(r).infusion),
         \A t \in Threads : \A i \in DOMAIN stack'[t] :
           /\ i \in DOMAIN stack[t] /\ stack'[t][i] = stack[t][i] /\ stack[t][i] \in R
           /\ t \notin finished' => Root(stack[t][i]).infusion \in Members(infusions)'
  PROVE  FramesInv'
<1>1. ASSUME NEW t \in Threads, NEW i \in DOMAIN stack'[t]
      PROVE  /\ Held(stack[t][i])' /\ Root(stack[t][i])'.id = FRAME
             /\ t \notin finished' => Root(stack[t][i])'.infusion \in Members(infusions)'
  <2>1. PICK r \in R : r = stack[t][i] /\ stack'[t][i] = r
    BY <1>1
  <2>2. Linked(r, r, Root(r).infusion) /\ Root(r).id = FRAME
    BY <1>1, <2>1 DEF FramesInv
  <2>3. /\ Held(r)' /\ Root(r)'.id = FRAME
        /\ t \notin finished' => Root(r)'.infusion \in Members(infusions)'
    BY <1>1, <2>1, <2>2 DEF Linked, FollowedTo
  <2>. QED
    BY <2>1, <2>3
<1>2. \A t, u \in Threads : \A i \in DOMAIN stack'[t] : \A j \in DOMAIN stack'[u] :
        stack'[t][i] = stack'[u][j] => t = u /\ i = j
  BY DEF FramesInv
<1>. QED
  BY <1>1, <1>2 DEF FramesInv

LEMMA FramesStay ==
  ASSUME FramesInv, stack' = stack, Members(infusions) \subseteq Members(infusions)',
         finished' = finished,
         \A r \in RootPointers : Linked(r, r, Root(r).infusion)
  PROVE  FramesInv'
<1>1. PICK R : R = RootPointers
  OBVIOUS
<1>2. \A t \in Threads : \A i \in DOMAIN stack'[t] :
        /\ i \in DOMAIN stack[t] /\ stack'[t][i] = stack[t][i] /\ stack[t][i] \in R
        /\ t \notin finished' => Root(stack[t][i]).infusion \in Members(infusions)'
  BY <1>1, RootsAre DEF FramesInv
<1>3. stack' \in [Threads -> Seq(Int)]
  BY DEF FramesInv
<1>. QED
  BY <1>1, <1>2, <1>3, FramesLeft

LEMMA InfusionsStay ==
  ASSUME InfusionsInv, infusions' = infusions,
         \A r \in Members(infusions) : Linked(r, r, Root(r).infusion)
  PROVE  InfusionsInv'
<1>1. Members(infusions)' = Members(infusions)
  BY DEF Members
<1>2. ASSUME NEW i \in DOMAIN infusions
      PROVE  /\ Held(infusions[i])' /\ Inf(i)'.id = Inf(i).id /\ Inf(i)'.base = Inf(i).base
             /\ Inf(i)'.name = Inf(i).name /\ Inf(i)'.infusion = Inf(i).infusion
             /\ Limit(i)' = Limit(i)
  <2>1. PICK r : r = infusions[i]
    OBVIOUS
  <2>2. infusions'[i] = r
    BY <2>1
  <2>3. Linked(r, r, Root(r).infusion)
    BY <2>1 DEF Members
  <2>. QED
    BY <2>1, <2>2, <2>3 DEF Linked, FollowedTo, Inf, Limit
<1>3. 1 \in DOMAIN infusions /\ \A i \in DOMAIN infusions : i > 1 => i - 1 \in DOMAIN infusions
  BY DEF InfusionsInv
<1>. QED
  BY <1>1, <1>2, <1>3 DEF InfusionsInv

\* The machine's own steps: outside a collection a pointer stands for the chunk at its
\* address.
Idle == phase \notin {"mark", "move"}

LEMMA IdleHeld ==
  ASSUME HeapInv, Idle, NEW r
  PROVE  /\ Held(r) <=> r \in DOMAIN mem /\ InUse(r)
         /\ Held(r) => Root(r) = mem[r]
<1>1. HeldAt(r, r) <=> r \in DOMAIN mem /\ InUse(r)
  BY DEF Idle, HeldAt, Spot
<1>2. Held(r) => HeldAt(r, r)
  BY DEF Idle, Held, HeldAt, Spot
<1>. QED
  BY <1>1, <1>2, HeldIsRoot

LEMMA RootsHeld ==
  ASSUME FramesInv, InfusionsInv, NEW r \in RootPointers
  PROVE  Held(r) /\ Root(r).id \in {FRAME, INFUSION}
<1>1. CASE r \in Frames
  <2>1. PICK t \in Threads : \E i \in DOMAIN stack[t] : r = stack[t][i]
    BY <1>1 DEF Frames, Members
  <2>. QED
    BY <2>1 DEF FramesInv
<1>2. CASE r \in Members(infusions)
  BY <1>2 DEF InfusionsInv, Inf, Members
<1>. QED
  BY <1>1, <1>2 DEF RootPointers

\* Every chunk stays where it is and what it is; new ones may appear.
Keeps ==
  \A a \in DOMAIN mem :
    /\ a \in DOMAIN mem' /\ Carried(a, a)
    /\ phase' = "mark" /\ a \in RootPointers => mem'[a].color # "white"

LEMMA KeepsRoots ==
  ASSUME HeapInv, HeapInv', FramesInv, InfusionsInv, Idle, phase' # "move", Keeps
  PROVE  \A r \in RootPointers : Linked(r, r, Root(r).infusion)
<1>1. ASSUME NEW r \in RootPointers PROVE Linked(r, r, Root(r).infusion)
  <2>1. Held(r) /\ r \in DOMAIN mem
    BY RootsHeld, IdleHeld
  <2>2. Stays(r)
    BY <2>1 DEF Keeps, Stays
  <2>. QED
    BY <2>1, <2>2, StaysHeld DEF Idle
<1>. QED
  BY <1>1

LEMMA RootsKept ==
  ASSUME HeapInv, HeapInv', FramesInv, InfusionsInv, Idle, phase' # "move", Keeps,
         stack' = stack, infusions' = infusions, finished' = finished
  PROVE  FramesInv' /\ InfusionsInv'
<1>1. \A r \in RootPointers : Linked(r, r, Root(r).infusion)
  BY KeepsRoots
<1>2. Members(infusions)' = Members(infusions)
  BY DEF Members
<1>. QED
  BY <1>1, <1>2, FramesStay, InfusionsStay DEF RootPointers

\* m is the heap n, with other references and colors in it.
SameButRefs(m, n) ==
  /\ DOMAIN m = DOMAIN n
  /\ \A a \in DOMAIN n :
       /\ DOMAIN m[a] = DOMAIN n[a] /\ m[a].size = n[a].size
       /\ m[a].id = n[a].id /\ m[a].base = n[a].base /\ m[a].name = n[a].name
       /\ m[a].infusion = n[a].infusion

LEMMA RefsStored ==
  ASSUME NEW n, NEW m, SameButRefs(m, n), NEW x, NEW s
  PROVE  SameButRefs([m EXCEPT ![x].refs = s], n)
BY DEF SameButRefs

LEMMA NothingStored == \A n : SameButRefs(n, n)
BY DEF SameButRefs

LEMMA StoredHeap ==
  ASSUME HeapInv, Idle, phase' \notin {"managed", "system", "move"}, SameButRefs(mem', mem),
         left' = left, loc' = loc
  PROVE  HeapInv' /\ (phase' # "mark" => Keeps)
<1>1. SameTiles /\ loc' \in Nat /\ loc = 0
  BY DEF HeapInv, Idle, Shaped, SameTiles, SameButRefs
<1>2. Shaped' /\ Tiled'
  BY <1>1, TilesStay DEF HeapInv, Idle
<1>3. phase' # "mark" => Keeps
  BY DEF Keeps, Carried, SameButRefs
<1>. QED
  BY <1>1, <1>2, <1>3 DEF HeapInv

LEMMA DoKeeps ==
  ASSUME IInv, phase = "run", NEW m, Do(m), SameButRefs(m, mem)
  PROVE  IInv'
<1>1. /\ mem' = m /\ left' = left /\ phase' = phase /\ loc' = loc /\ refStack' = refStack
      /\ infusions' = infusions /\ stack' = stack /\ pending' = pending
      /\ current' = current /\ finished' = finished
  BY DEF Do, threadVars
<1>2. HeapInv' /\ Keeps
  BY <1>1, StoredHeap DEF IInv, Idle
<1>3. FramesInv' /\ InfusionsInv'
  BY <1>1, <1>2, RootsKept DEF IInv, Idle
<1>. QED
  BY <1>1, <1>3, <1>2 DEF IInv, PendingInv, Asked, Members

\* Instructions on the operand stack, statics and fields.
LEMMA OperandsStored ==
  ASSUME NEW t, NEW s PROVE SameButRefs(WithOperands(t, s), mem)
BY NothingStored, RefsStored DEF WithOperands

LEMMA OnKeeps ==
  ASSUME IInv, phase = "run", NEW r, NEW m, On(r, m), SameButRefs(m, mem)
  PROVE  IInv'
<1>1. CASE ~ClassMissing(mem[r])
  BY <1>1, DoKeeps DEF On
<1>2. CASE ClassMissing(mem[r])
  <2>1. /\ mem' = mem /\ left' = left /\ phase' = phase /\ loc' = loc /\ refStack' = refStack
        /\ infusions' = infusions /\ stack' = stack /\ pending' = pending
        /\ current' = current /\ finished' = finished
    BY <1>2 DEF On, threadVars
  <2>2. HeapInv' /\ Keeps
    BY <2>1, StoredHeap, NothingStored DEF IInv, Idle
  <2>3. FramesInv' /\ InfusionsInv'
    BY <2>1, <2>2, RootsKept DEF IInv, Idle
  <2>. QED
    BY <2>1, <2>2, <2>3 DEF IInv, PendingInv, Asked, Members
<1>. QED
  BY <1>1, <1>2

LEMMA OperandsKeep ==
  ASSUME IInv, NEW t \in Threads,
         GETSTATIC_A(t) \/ PUTSTATIC_A(t) \/ GETFIELD_A(t) \/ PUTFIELD_A(t) \/ POP(t)
  PROVE  IInv'
<1>1. CASE GETSTATIC_A(t)
  <2>1. PICK s : Do(WithOperands(t, s))
    BY <1>1 DEF GETSTATIC_A
  <2>. QED
    BY <1>1, <2>1, DoKeeps, OperandsStored DEF GETSTATIC_A, Running
<1>2. CASE PUTSTATIC_A(t)
  <2>1. PICK s, a, v : Do([WithOperands(t, s) EXCEPT ![a].refs = v])
    BY <1>2 DEF PUTSTATIC_A
  <2>2. SameButRefs([WithOperands(t, s) EXCEPT ![a].refs = v], mem)
    BY OperandsStored, RefsStored
  <2>. QED
    BY <1>2, <2>1, <2>2, DoKeeps DEF PUTSTATIC_A, Running
<1>3. CASE GETFIELD_A(t)
  <2>1. PICK r, s : On(r, WithOperands(t, s))
    BY <1>3 DEF GETFIELD_A
  <2>. QED
    BY <1>3, <2>1, OnKeeps, OperandsStored DEF GETFIELD_A, Running
<1>4. CASE PUTFIELD_A(t)
  <2>1. PICK r, s, a, v : On(r, [WithOperands(t, s) EXCEPT ![a].refs = v])
    BY <1>4 DEF PUTFIELD_A
  <2>2. SameButRefs([WithOperands(t, s) EXCEPT ![a].refs = v], mem)
    BY OperandsStored, RefsStored
  <2>. QED
    BY <1>4, <2>1, <2>2, OnKeeps DEF PUTFIELD_A, Running
<1>5. CASE POP(t)
  <2>1. PICK s : Do(WithOperands(t, s))
    BY <1>5 DEF POP
  <2>. QED
    BY <1>5, <2>1, DoKeeps, OperandsStored DEF POP, Running
<1>. QED
  BY <1>1, <1>2, <1>3, <1>4, <1>5

-----------------------------------------------------------------------------
\* Steps that allocate.

\* The collector starts with all frames and loaded infusions marked.
LEMMA AskKeeps ==
  ASSUME IInv, phase \in {"run", "alloc"}, NEW p, NEW saved, Ask(p, saved), UNCHANGED threadVars,
         saved \in Seq(Int), Asked(p, saved)
  PROVE  IInv'
<1>1. /\ pending' = p /\ refStack' = saved /\ phase' \in {"alloc", "mark"} /\ left' = left
      /\ loc' = loc /\ infusions' = infusions /\ stack' = stack
      /\ current' = current /\ finished' = finished
  BY DEF Ask, threadVars
<1>2. CASE phase' = "alloc"
  <2>1. mem' = mem
    BY <1>2 DEF Ask
  <2>2. HeapInv' /\ Keeps
    BY <1>1, <1>2, <2>1, StoredHeap, NothingStored DEF IInv, Idle
  <2>3. FramesInv' /\ InfusionsInv'
    BY <1>1, <1>2, <2>2, RootsKept DEF IInv, Idle
  <2>. QED
    BY <1>1, <1>2, <2>2, <2>3 DEF IInv, PendingInv, Asked, Members
<1>3. CASE phase' = "mark"
  <2>1. mem' = RootsMarked(saved)
    BY <1>3 DEF Ask
  <2>2. SameButRefs(mem', mem)
    BY <2>1 DEF RootsMarked, SameButRefs, IInv, HeapInv, Shaped, Fields
  <2>3. HeapInv'
    BY <1>1, <1>3, <2>2, StoredHeap DEF IInv, Idle
  <2>4. ASSUME NEW a \in DOMAIN mem, a \in RootPointers PROVE mem'[a].color # "white"
    <3>1. Held(a) /\ Root(a).id \in {FRAME, INFUSION} /\ (Root(a).id = FRAME \/ a \in Members(infusions))
      <4>1. ASSUME a \in Frames PROVE Root(a).id = FRAME
        BY <4>1 DEF Frames, Members, IInv, FramesInv
      <4>. QED
        BY <2>4, <4>1, RootsHeld DEF IInv, RootPointers
    <3>2. mem[a].id = FRAME \/ a \in Members(infusions)
      BY <3>1, IdleHeld DEF IInv, Idle
    <3>3. RootColor(a, saved) # "white"
      BY <3>2 DEF RootColor, FRAME, MANAGED_START
    <3>. QED
      BY <2>1, <3>3 DEF RootsMarked, IInv, HeapInv, Shaped, Fields
  <2>5. Keeps
    BY <2>2, <2>4 DEF Keeps, Carried, SameButRefs
  <2>6. FramesInv' /\ InfusionsInv'
    BY <1>1, <1>3, <2>3, <2>5, RootsKept DEF IInv, Idle
  <2>. QED
    BY <1>1, <1>3, <2>3, <2>6 DEF IInv, PendingInv, Asked, Members
<1>. QED
  BY <1>1, <1>2, <1>3

\* A thread that runs is not one that was ended: what its method names is loaded.
LEMMA ResolvedLoaded ==
  ASSUME IInv, NEW t \in Threads, Running(t)
  PROVE  Resolved(t) \subseteq Members(infusions)
<1>1. Len(stack[t]) \in DOMAIN stack[t] /\ t \in Threads \ finished /\ Idle
  BY DEF Running, IInv, FramesInv, Idle
<1>2. PICK f : f = stack[t][Len(stack[t])]
  OBVIOUS
<1>3. f = Top(t) /\ Held(f) /\ Root(f).infusion \in Members(infusions)
  BY <1>1, <1>2 DEF Top, LastOf, IInv, FramesInv
<1>4. Root(f) = mem[f]
  BY <1>1, <1>3, IdleHeld DEF IInv
<1>5. PICK own : own = mem[f].infusion
  OBVIOUS
<1>6. PICK i \in DOMAIN infusions : own = infusions[i]
  BY <1>3, <1>4, <1>5 DEF Members
<1>7. Held(own) /\ Root(own).infusion \in Members(infusions) \cup {NoRef}
  BY <1>6 DEF IInv, InfusionsInv, Inf
<1>8. mem[own].infusion \in Members(infusions) \cup {NoRef}
  BY <1>1, <1>7, IdleHeld DEF IInv
<1>. QED
  BY <1>3, <1>4, <1>5, <1>6, <1>8 DEF Resolved, Members

LEMMA InfusionsAreInts ==
  ASSUME InfusionsInv PROVE Members(infusions) \subseteq Int
BY DEF InfusionsInv, Members

LEMMA Saves ==
  ASSUME IInv, NEW a \in Members(infusions), NEW u \in Threads
  PROVE  /\ Append(refStack, a) \in Seq(Int)
         /\ Asked([op |-> "frame", size |-> FrameSize, thread |-> u], Append(refStack, a))
<1>1. a \in Int /\ refStack \in Seq(Int)
  BY InfusionsAreInts DEF IInv, PendingInv
<1>2. /\ Append(refStack, a) \in Seq(Int) /\ Len(Append(refStack, a)) = Len(refStack) + 1
      /\ Append(refStack, a)[Len(refStack) + 1] = a /\ Len(refStack) \in Nat
  BY <1>1
<1>. QED
  BY <1>2, InfusionsAssumption DEF Asked, LastOf

LEMMA ThrowAsked == \A saved : Asked(Throw, saved)
BY InfusionsAssumption DEF Asked, Throw

LEMMA AllocationKeeps ==
  ASSUME IInv, NEW t \in Threads,
         NEWOBJECT(t) \/ ANEWARRAY(t) \/ INVOKE(t) \/ START(t) \/ THROW(t) \/ LOAD(t)
  PROVE  IInv'
<1>0. Running(t) /\ phase = "run" /\ refStack \in Seq(Int)
  BY DEF NEWOBJECT, ANEWARRAY, INVOKE, START, THROW, LOAD, Running, IInv, PendingInv
<1>1. CASE NEWOBJECT(t)
  <2>1. PICK i, n, k : Ask([op |-> "new", size |-> ObjectSize, id |-> i, name |-> n, class |-> k], refStack)
    BY <1>1 DEF NEWOBJECT
  <2>2. Asked([op |-> "new", size |-> ObjectSize, id |-> i, name |-> n, class |-> k], refStack)
    BY InfusionsAssumption DEF Asked
  <2>. QED
    BY <1>0, <1>1, <2>1, <2>2, AskKeeps DEF NEWOBJECT
<1>2. CASE ANEWARRAY(t)
  <2>1. Asked([op |-> "new", size |-> ObjectSize, id |-> REFARRAY, name |-> NoName, class |-> 0], refStack)
    BY InfusionsAssumption DEF Asked
  <2>. QED
    BY <1>0, <1>2, <2>1, AskKeeps DEF ANEWARRAY
<1>3. CASE INVOKE(t)
  <2>1. PICK a \in Resolved(t) \cup ClassesOf(Operands(t)) : AskFrame(t, a)
    BY <1>3 DEF INVOKE
  <2>2. a \in Members(infusions)
    BY <1>0, ResolvedLoaded DEF ClassesOf
  <2>. QED
    BY <1>0, <1>3, <2>1, <2>2, Saves, AskKeeps DEF INVOKE, AskFrame
<1>4. CASE START(t)
  <2>1. PICK u \in Threads \ finished, a \in Members(infusions) : AskFrame(u, a)
    BY <1>4 DEF START
  <2>. QED
    BY <1>0, <1>4, <2>1, Saves, AskKeeps DEF START, AskFrame
<1>5. CASE THROW(t)
  BY <1>0, <1>5, ThrowAsked, AskKeeps DEF THROW
<1>6. CASE LOAD(t)
  <2>1. PICK n \in Names : Ask([op |-> "load", size |-> InfusionSize, name |-> n], refStack)
    BY <1>6 DEF LOAD
  <2>2. Asked([op |-> "load", size |-> InfusionSize, name |-> n], refStack)
    BY InfusionsAssumption DEF Asked
  <2>. QED
    BY <1>0, <1>6, <2>1, <2>2, AskKeeps DEF LOAD
<1>. QED
  BY <1>1, <1>2, <1>3, <1>4, <1>5, <1>6

\* The new chunk lies behind all others.
LEMMA PlacedHeap ==
  ASSUME HeapInv, Idle, phase' \notin {"mark", "managed", "system", "move"}, loc' = loc,
         NEW c, DOMAIN c = Fields, c.size \in Nat \ {0},
         SameButRefs(mem', Placed(c)), left' = left + c.size
  PROVE  /\ HeapInv' /\ Keeps
         /\ left \notin DOMAIN mem /\ left \in DOMAIN mem' /\ left \in Nat
         /\ mem'[left].id = c.id /\ mem'[left].base = c.base /\ mem'[left].name = c.name
         /\ mem'[left].infusion = c.infusion
<1>1. Shaped /\ Tiled /\ left \in Nat
  BY DEF HeapInv, Idle, Shaped
<1>2. left \notin DOMAIN mem
  BY <1>1 DEF Shaped, Tiled, End
<1>3. /\ DOMAIN Placed(c) = DOMAIN mem \cup {left} /\ Placed(c)[left] = c
      /\ \A a \in DOMAIN mem : Placed(c)[a] = mem[a]
  BY <1>2 DEF Placed
<1>4. /\ DOMAIN mem' = DOMAIN mem \cup {left}
      /\ DOMAIN mem'[left] = Fields /\ mem'[left].size = c.size
      /\ mem'[left].id = c.id /\ mem'[left].base = c.base /\ mem'[left].name = c.name
      /\ mem'[left].infusion = c.infusion
      /\ \A a \in DOMAIN mem : DOMAIN mem'[a] = Fields /\ mem'[a].size = mem[a].size
  BY <1>1, <1>3 DEF SameButRefs, Shaped
<1>5. Keeps
  BY <1>3 DEF SameButRefs, Keeps, Carried
<1>6. loc' = 0
  BY DEF HeapInv, Idle
<1>7. Shaped'
  BY <1>1, <1>4, <1>6 DEF Shaped
<1>8. Tiled'
  <2>1. \A a \in DOMAIN mem : /\ End(a)' = End(a) /\ a \in Nat /\ End(a) \in Nat
                            /\ a < End(a) /\ End(a) <= left
    BY <1>1, <1>4 DEF Shaped, Tiled, End
  <2>2. PICK l : l = left
    OBVIOUS
  <2>3. End(l)' = l + c.size /\ left' = l + c.size /\ l \in Nat /\ DOMAIN mem' = DOMAIN mem \cup {l}
    BY <1>1, <1>4, <2>2 DEF End
  <2>4. \A a \in DOMAIN mem' : End(a)' <= left'
    BY <2>1, <2>2, <2>3
  <2>5. \A a, b \in DOMAIN mem' : a < b => End(a)' <= b
    <3>. SUFFICES ASSUME NEW a \in DOMAIN mem', NEW b \in DOMAIN mem', a < b PROVE End(a)' <= b
      OBVIOUS
    <3>1. a # l
      BY <2>1, <2>2, <2>3
    <3>2. a \in DOMAIN mem /\ End(a)' = End(a) /\ End(a) <= l
      BY <2>1, <2>2, <2>3, <3>1
    <3>. QED
      BY <1>1, <2>3, <3>2 DEF Tiled
  <2>6. \A u \in 0 .. left' - 1 : \E a \in DOMAIN mem' : a <= u /\ u < End(a)'
    <3>. SUFFICES ASSUME NEW u \in 0 .. left' - 1
                  PROVE  \E a \in DOMAIN mem' : a <= u /\ u < End(a)'
      OBVIOUS
    <3>1. CASE u < l
      <4>1. PICK a \in DOMAIN mem : a <= u /\ u < End(a)
        BY <1>1, <2>2, <3>1 DEF Tiled
      <4>. QED
        BY <2>1, <2>3, <4>1
    <3>2. CASE ~(u < l)
      BY <2>3, <3>2
    <3>. QED
      BY <3>1, <3>2
  <2>. QED
    BY <2>4, <2>5, <2>6 DEF Tiled
<1>. QED
  BY <1>1, <1>2, <1>4, <1>5, <1>6, <1>7, <1>8 DEF HeapInv

\* IdleHeld of the next state.
IdleRoots ==
  \A r : HeapInv /\ Idle => (Held(r) <=> r \in DOMAIN mem /\ InUse(r)) /\ (Held(r) => Root(r) = mem[r])
LEMMA IdleRootsHold == IdleRoots
BY IdleHeld DEF IdleRoots
LEMMA IdleHeldNext == IdleRoots'
BY IdleRootsHold, PTL

LEMMA GotObjectKeeps == ASSUME IInv, GotObject PROVE IInv'
<1>1. PICK l \in Labels :
        mem' = [Placed(NewObject(l)) EXCEPT ![Top(current)].refs = Append(Operands(current), left)]
  BY DEF GotObject
<1>2. /\ phase = "alloc" /\ phase' = "run" /\ pending' = Nothing /\ loc' = loc
      /\ left' = left + pending.size /\ pending.op = "new"
      /\ UNCHANGED <<refStack, infusions, stack, current, finished>>
  BY DEF GotObject, Granted
<1>3. DOMAIN NewObject(l) = Fields /\ NewObject(l).size = pending.size /\ pending.size \in Nat \ {0}
  BY <1>2 DEF NewObject, Object, Chunk, Fields, IInv, PendingInv, Asked
<1>4. SameButRefs(mem', Placed(NewObject(l)))
  BY <1>1, NothingStored, RefsStored
<1>5. HeapInv' /\ Keeps
  BY <1>2, <1>3, <1>4, PlacedHeap DEF IInv, Idle
<1>6. FramesInv' /\ InfusionsInv'
  BY <1>2, <1>5, RootsKept DEF IInv, Idle
<1>. QED
  BY <1>2, <1>5, <1>6 DEF IInv, PendingInv, Asked, Nothing

LEMMA GotExceptionKeeps == ASSUME IInv, GotException PROVE IInv'
<1>1. PICK l \in Labels : mem' = Placed(NewObject(l))
  BY DEF GotException
<1>2. /\ phase = "alloc" /\ phase' = "unwind" /\ pending'.op = "unwind" /\ loc' = loc
      /\ left' = left + pending.size /\ pending.op = "throw"
      /\ UNCHANGED <<refStack, infusions, stack, current, finished>>
  BY DEF GotException, Granted
<1>3. DOMAIN NewObject(l) = Fields /\ NewObject(l).size = pending.size /\ pending.size \in Nat \ {0}
  BY <1>2 DEF NewObject, Object, Chunk, Fields, IInv, PendingInv, Asked
<1>4. SameButRefs(mem', Placed(NewObject(l)))
  BY <1>1, NothingStored
<1>5. HeapInv' /\ Keeps
  BY <1>2, <1>3, <1>4, PlacedHeap DEF IInv, Idle
<1>6. FramesInv' /\ InfusionsInv'
  BY <1>2, <1>5, RootsKept DEF IInv, Idle
<1>. QED
  BY <1>2, <1>5, <1>6 DEF IInv, PendingInv, Asked

\* The new frame is on top of its thread's stack, and no other pointer is to it.
LEMMA GotFrameKeeps == ASSUME IInv, GotFrame PROVE IInv'
<1>. DEFINE t == pending.thread
            c == Frame(pending.size, LastOf(refStack), mem[LastOf(refStack)].name)
<1>1. /\ mem' = Placed(c) /\ left' = left + pending.size
      /\ refStack' = Without(refStack, 1)
      /\ stack' = [stack EXCEPT ![t] = Append(stack[t], left)]
      /\ phase = "alloc" /\ phase' = "run" /\ pending' = Nothing /\ pending.op = "frame"
      /\ loc' = loc /\ infusions' = infusions /\ current' = current /\ finished' = finished
  BY DEF GotFrame, Granted
<1>2. /\ t \in Threads /\ pending.size \in Nat \ {0} /\ LastOf(refStack) \in Members(infusions)
      /\ refStack \in Seq(Int) /\ Len(refStack) > 0 /\ stack \in [Threads -> Seq(Int)]
  BY <1>1 DEF IInv, PendingInv, Asked, FramesInv
<1>3. /\ DOMAIN c = Fields /\ c.size = pending.size /\ c.id = FRAME
      /\ c.infusion = LastOf(refStack)
  BY DEF Frame, Chunk, Fields
<1>4. /\ HeapInv' /\ Keeps /\ left \notin DOMAIN mem /\ left \in DOMAIN mem' /\ left \in Nat
      /\ mem'[left].id = FRAME /\ mem'[left].infusion = LastOf(refStack)
  BY <1>1, <1>2, <1>3, NothingStored, PlacedHeap DEF IInv, Idle
<1>5. \A r \in RootPointers : Linked(r, r, Root(r).infusion)
  BY <1>1, <1>4, KeepsRoots DEF IInv, Idle
<1>6. InfusionsInv' /\ Members(infusions)' = Members(infusions)
  BY <1>1, <1>5, InfusionsStay DEF IInv, Members, RootPointers
<1>7. PICK new : new = left
  OBVIOUS
<1>8. Held(new)' /\ Root(new)' = mem'[new]
  BY <1>1, <1>4, <1>7, IdleHeldNext DEF IdleRoots, Idle, InUse, FRAME, FREE
<1>9. Held(new)' /\ Root(new)'.id = FRAME /\ Root(new)'.infusion \in Members(infusions)'
  BY <1>2, <1>4, <1>6, <1>7, <1>8
<1>10. FramesInv'
  <2>1. stack' \in [Threads -> Seq(Int)]
    BY <1>1, <1>2, <1>4
  <2>2. ASSUME NEW u \in Threads, NEW i \in DOMAIN stack'[u]
        PROVE  \/ i \in DOMAIN stack[u] /\ stack'[u][i] = stack[u][i]
               \/ u = t /\ i = Len(stack[t]) + 1 /\ stack'[u][i] = new
    BY <1>1, <1>2, <1>4, <1>7, <2>2
  <2>3. ASSUME NEW u \in Threads, NEW i \in DOMAIN stack[u], NEW r, r = stack[u][i]
        PROVE  /\ Held(r)' /\ Root(r)'.id = FRAME /\ r # new
               /\ u \notin finished => Root(r)'.infusion \in Members(infusions)
    <3>1. Linked(r, r, Root(r).infusion)
      BY <1>5, <2>3, RootsAre
    <3>2. /\ Held(r) /\ Root(r).id = FRAME
          /\ u \notin finished => Root(r).infusion \in Members(infusions)
      BY <2>3 DEF IInv, FramesInv
    <3>3. r \in DOMAIN mem
      BY <1>1, <3>2, IdleHeld DEF IInv, Idle
    <3>. QED
      BY <1>4, <1>7, <3>1, <3>2, <3>3 DEF Linked, FollowedTo
  <2>4. ASSUME NEW u \in Threads, NEW i \in DOMAIN stack'[u], NEW r, r = stack'[u][i]
        PROVE  /\ Held(r)' /\ Root(r)'.id = FRAME
               /\ u \notin finished => Root(r)'.infusion \in Members(infusions)'
    BY <1>6, <1>9, <2>2, <2>3, <2>4
  <2>5. ASSUME NEW u \in Threads, NEW v \in Threads, NEW i \in DOMAIN stack'[u],
               NEW j \in DOMAIN stack'[v], stack'[u][i] = stack'[v][j]
        PROVE  u = v /\ i = j
    <3>1. \A w \in Threads : \A k \in DOMAIN stack[w] : stack[w][k] # new
      BY <2>3
    <3>2. \A w, x \in Threads : \A k \in DOMAIN stack[w] : \A n \in DOMAIN stack[x] :
            stack[w][k] = stack[x][n] => w = x /\ k = n
      BY DEF IInv, FramesInv
    <3>. QED
      BY <2>2, <2>5, <3>1, <3>2
  <2>6. \A u \in Threads : \A i \in DOMAIN stack'[u] :
          /\ Held(stack[u][i])' /\ Root(stack[u][i])'.id = FRAME
          /\ u \notin finished => Root(stack[u][i])'.infusion \in Members(infusions)'
    <3>. SUFFICES ASSUME NEW u \in Threads, NEW i \in DOMAIN stack'[u]
                  PROVE  /\ Held(stack[u][i])' /\ Root(stack[u][i])'.id = FRAME
                         /\ u \notin finished => Root(stack[u][i])'.infusion \in Members(infusions)'
      OBVIOUS
    <3>1. PICK r : r = stack'[u][i]
      OBVIOUS
    <3>2. /\ Held(r)' /\ Root(r)'.id = FRAME
          /\ u \notin finished => Root(r)'.infusion \in Members(infusions)'
      BY <2>4, <3>1
    <3>. QED
      BY <3>1, <3>2
  <2>. QED
    BY <1>1, <2>1, <2>5, <2>6 DEF FramesInv
<1>11. refStack' \in Seq(Int)
  BY <1>1, <1>2 DEF Without
<1>. QED
  BY <1>1, <1>4, <1>6, <1>10, <1>11 DEF IInv, PendingInv, Asked, Nothing

\* The new infusion is last in the list, and its classes come behind those of all others.
LEMMA GotInfusionKeeps == ASSUME IInv, GotInfusion PROVE IInv'
<1>0. /\ phase = "alloc" /\ pending.op = "load" /\ pending.size \in Nat \ {0} /\ pending.name \in Names
      /\ UNCHANGED <<loc, refStack, stack, current, finished>>
  BY DEF GotInfusion, Granted, IInv, PendingInv, Asked
<1>1. CASE UNCHANGED <<mem, left, phase, infusions, pending>>
  <2>1. HeapInv' /\ Keeps
    BY <1>0, <1>1, StoredHeap, NothingStored DEF IInv, Idle
  <2>2. FramesInv' /\ InfusionsInv'
    BY <1>0, <1>1, <2>1, RootsKept DEF IInv, Idle
  <2>. QED
    BY <1>0, <1>1, <2>1, <2>2 DEF IInv, PendingInv, Asked, Members
<1>2. CASE ~UNCHANGED <<mem, left, phase, infusions, pending>>
  <2>1. PICK a \in Members(infusions) \cup {NoRef} :
          mem' = Placed(Infusion(pending.size, pending.name, a, NextBase))
    BY <1>2 DEF GotInfusion, Imported
  <2>. DEFINE c == Infusion(pending.size, pending.name, a, NextBase)
              n == Len(infusions)
  <2>2. /\ left' = left + pending.size /\ infusions' = Append(infusions, left)
        /\ phase' = "run" /\ pending' = Nothing
    BY <1>2 DEF GotInfusion
  <2>3. /\ DOMAIN c = Fields /\ c.size = pending.size /\ c.id = INFUSION
        /\ c.infusion = a /\ c.base = NextBase /\ c.name = pending.name
    BY DEF Infusion, Chunk, Fields
  <2>4. /\ HeapInv' /\ Keeps /\ left \notin DOMAIN mem /\ left \in DOMAIN mem' /\ left \in Nat
        /\ mem'[left].id = INFUSION /\ mem'[left].base = NextBase
        /\ mem'[left].name = pending.name /\ mem'[left].infusion = a
    BY <1>0, <2>1, <2>2, <2>3, NothingStored, PlacedHeap DEF IInv, Idle
  <2>5. \A r \in RootPointers : Linked(r, r, Root(r).infusion)
    BY <1>0, <2>2, <2>4, KeepsRoots DEF IInv, Idle
  <2>6. PICK new : new = left
    OBVIOUS
  <2>7. Held(new)' /\ Root(new)' = mem'[new]
    BY <2>2, <2>4, <2>6, IdleHeldNext DEF IdleRoots, Idle, InUse, INFUSION, FREE
  <2>8. /\ infusions \in Seq(Int) /\ n \in Nat \ {0} /\ DOMAIN infusions = 1 .. n
        /\ infusions' \in Seq(Int) /\ DOMAIN infusions' = 1 .. n + 1
        /\ infusions'[n + 1] = new /\ \A i \in 1 .. n : infusions'[i] = infusions[i]
    BY <2>2, <2>4, <2>6 DEF IInv, InfusionsInv
  <2>9. Members(infusions) \subseteq Members(infusions)'
    BY <2>8 DEF Members
  <2>10. FramesInv'
    BY <1>0, <2>5, <2>9, FramesStay DEF IInv
  <2>11. NextBase = Limit(n)
    <3>1. PICK l : l = infusions[n]
      OBVIOUS
    <3>2. Held(l) /\ Inf(n) = Root(l)
      BY <2>8, <3>1 DEF IInv, InfusionsInv, Inf
    <3>3. Root(l) = mem[l]
      BY <1>0, <3>2, IdleHeld DEF IInv, Idle
    <3>. QED
      BY <3>1, <3>2, <3>3 DEF NextBase, LastOf, Limit
  <2>12. ASSUME NEW i \in 1 .. n
         PROVE  /\ Held(infusions[i])' /\ Inf(i)'.id = Inf(i).id /\ Inf(i)'.base = Inf(i).base
                /\ Inf(i)'.name = Inf(i).name /\ Inf(i)'.infusion = Inf(i).infusion
                /\ Limit(i)' = Limit(i)
    <3>1. PICK r : r = infusions[i]
      OBVIOUS
    <3>2. infusions'[i] = r
      BY <2>8, <3>1
    <3>3. Linked(r, r, Root(r).infusion)
      BY <2>5, <2>8, <3>1, RootsAre
    <3>. QED
      BY <3>1, <3>2, <3>3 DEF Linked, FollowedTo, Inf, Limit
  <2>13. PICK m : m = n + 1
    OBVIOUS
  <2>14. /\ Held(infusions[m])' /\ Inf(m)'.id = INFUSION /\ Inf(m)'.name = pending.name
         /\ Inf(m)'.base = Limit(n) /\ Inf(m)'.infusion = a
    <3>1. infusions'[m] = new
      BY <2>8, <2>13
    <3>. QED
      BY <2>4, <2>6, <2>7, <2>11, <3>1 DEF Inf
  <2>15. ASSUME NEW i \in 1 .. n
         PROVE  Inf(i).base \in Nat /\ NrClasses[Inf(i).name] \in Nat /\ Limit(i) \in Nat
    <3>1. Inf(i).base \in Nat /\ Inf(i).name \in Names
      BY <2>8 DEF IInv, InfusionsInv
    <3>2. NrClasses[Inf(i).name] \in Nat
      BY <3>1, HeapAssumption
    <3>3. Limit(i) = Inf(i).base + NrClasses[Inf(i).name]
      BY DEF Limit
    <3>. QED
      BY <3>1, <3>2, <3>3
  <2>16. \A i \in 1 .. n : Limit(i) <= Limit(n)
    <3>. SUFFICES ASSUME NEW i \in 1 .. n PROVE Limit(i) <= Limit(n)
      OBVIOUS
    <3>1. CASE i = n
      BY <2>15, <3>1
    <3>2. CASE i < n
      <4>1. n \in 1 .. n
        BY <2>8
      <4>2. Limit(i) <= Inf(n).base
        BY <2>8, <3>2, <4>1 DEF IInv, InfusionsInv
      <4>. QED
        <5>1. /\ Inf(n).base \in Nat /\ NrClasses[Inf(n).name] \in Nat
              /\ Limit(i) \in Nat /\ Limit(n) \in Nat
          BY <2>15, <4>1
        <5>2. Limit(n) = Inf(n).base + NrClasses[Inf(n).name]
          BY DEF Limit
        <5>. QED
          BY <4>2, <5>1, <5>2
    <3>3. n \in Nat
      BY <2>8
    <3>4. i = n \/ i < n
      BY <3>3
    <3>. QED
      BY <3>1, <3>2, <3>4
  <2>17. InfusionsInv'
    <3>1. infusions' \in Seq(Int) /\ infusions' # <<>>
      BY <2>8
    <3>2. \A i \in DOMAIN infusions' :
            /\ Held(infusions[i])' /\ Inf(i)'.id = INFUSION
            /\ Inf(i)'.name \in Names /\ Inf(i)'.base \in Nat
            /\ Inf(i)'.infusion \in Members(infusions)' \cup {NoRef}
      <4>. SUFFICES ASSUME NEW i \in DOMAIN infusions'
                    PROVE  /\ Held(infusions[i])' /\ Inf(i)'.id = INFUSION
                           /\ Inf(i)'.name \in Names /\ Inf(i)'.base \in Nat
                           /\ Inf(i)'.infusion \in Members(infusions)' \cup {NoRef}
        OBVIOUS
      <4>1. CASE i \in 1 .. n
        BY <2>8, <2>9, <2>12, <4>1 DEF IInv, InfusionsInv
      <4>2. CASE i = m
        <5>1. n \in 1 .. n
          BY <2>8
        <5>. QED
          BY <1>0, <2>1, <2>9, <2>14, <2>15, <4>2, <5>1
      <4>. QED
        BY <2>8, <2>13, <4>1, <4>2
    <3>3. Inf(1)'.base = JAVA_START /\ Inf(1)'.name = BaseName
      BY <2>8, <2>12 DEF IInv, InfusionsInv
    <3>4. \A i \in DOMAIN infusions' : i > 1 => Inf(i)'.base = Limit(i - 1)'
      <4>. SUFFICES ASSUME NEW i \in DOMAIN infusions', i > 1 PROVE Inf(i)'.base = Limit(i - 1)'
        OBVIOUS
      <4>1. PICK k : k = i - 1
        OBVIOUS
      <4>2. k \in 1 .. n /\ Limit(k)' = Limit(k)
        BY <2>8, <2>12, <4>1
      <4>3. CASE i \in 1 .. n
        BY <2>8, <2>12, <4>1, <4>2, <4>3 DEF IInv, InfusionsInv
      <4>4. CASE i = m
        BY <2>8, <2>13, <2>14, <4>1, <4>2, <4>4
      <4>. QED
        BY <2>8, <2>13, <4>3, <4>4
    <3>5. \A i, j \in DOMAIN infusions' : i < j => Limit(i)' <= Inf(j)'.base
      <4>. SUFFICES ASSUME NEW i \in DOMAIN infusions', NEW j \in DOMAIN infusions', i < j
                    PROVE  Limit(i)' <= Inf(j)'.base
        OBVIOUS
      <4>1. i \in 1 .. n /\ Limit(i)' = Limit(i)
        BY <2>8, <2>12
      <4>2. CASE j \in 1 .. n
        BY <2>8, <2>12, <4>1, <4>2 DEF IInv, InfusionsInv
      <4>3. CASE j = m
        BY <2>14, <2>16, <4>1, <4>3
      <4>. QED
        BY <2>8, <2>13, <4>2, <4>3
    <3>. QED
      BY <3>1, <3>2, <3>3, <3>4, <3>5 DEF InfusionsInv
  <2>. QED
    BY <1>0, <2>2, <2>4, <2>10, <2>17 DEF IInv, PendingInv, Asked, Nothing
<1>. QED
  BY <1>1, <1>2

LEMMA RefusedKeeps == ASSUME IInv, OutOfMemory \/ Panic PROVE IInv'
<1>1. CASE OutOfMemory
  <2>. DEFINE saved == IF pending.op = "frame" THEN Without(refStack, 1) ELSE refStack
  <2>1. phase = "alloc" /\ Ask(Throw, saved) /\ UNCHANGED threadVars
    BY <1>1 DEF OutOfMemory, Refused
  <2>2. refStack \in Seq(Int) /\ (pending.op = "frame" => Len(refStack) > 0)
    BY DEF IInv, PendingInv, Asked
  <2>3. saved \in Seq(Int)
    BY <2>2 DEF Without
  <2>. HIDE DEF saved
  <2>. QED
    BY <2>1, <2>3, ThrowAsked, AskKeeps
<1>2. CASE Panic
  <2>1. /\ phase = "alloc"
        /\ UNCHANGED <<mem, left, phase, loc, refStack, infusions, stack, pending, current, finished>>
    BY <1>2 DEF Panic, Refused, threadVars
  <2>2. HeapInv' /\ Keeps
    BY <2>1, StoredHeap, NothingStored DEF IInv, Idle
  <2>3. FramesInv' /\ InfusionsInv'
    BY <2>1, <2>2, RootsKept DEF IInv, Idle
  <2>. QED
    BY <2>1, <2>2, <2>3 DEF IInv, PendingInv, Asked, Members
<1>. QED
  BY <1>1, <1>2

LEMMA CatchKeeps == ASSUME IInv, CATCH PROVE IInv'
<1>1. /\ phase = "unwind" /\ phase' = "run" /\ mem' = WithOperands(current, <<pending.ref>>)
      /\ pending' = Nothing
      /\ UNCHANGED <<left, loc, refStack, infusions, stack, current, finished>>
  BY DEF CATCH, Unwinding
<1>2. HeapInv' /\ Keeps
  BY <1>1, StoredHeap, OperandsStored DEF IInv, Idle
<1>3. FramesInv' /\ InfusionsInv'
  BY <1>1, <1>2, RootsKept DEF IInv, Idle
<1>. QED
  BY <1>1, <1>2, <1>3 DEF IInv, PendingInv, Asked, Nothing

-----------------------------------------------------------------------------
\* Frames that end.

LEMMA FreedHeap ==
  ASSUME HeapInv, Idle, phase' = phase, phase \in {"run", "unwind"}, loc' = loc,
         NEW a \in DOMAIN mem, SameButRefs(mem', Freed(a)), left' = LeftAfter(a)
  PROVE  HeapInv' /\ \A b \in DOMAIN mem : b # a => b \in DOMAIN mem' /\ Carried(b, b)
<1>1. Shaped /\ Tiled /\ loc = 0 /\ a \in Nat
  BY DEF HeapInv, Idle, Shaped
<1>2. CASE IsLast(a)
  <2>1. Freed(a) = [x \in DOMAIN mem \ {a} |-> mem[x]] /\ left' = a /\ End(a) = left
    BY <1>2 DEF Freed, LeftAfter, IsLast, End
  <2>2. /\ DOMAIN mem' = DOMAIN mem \ {a}
        /\ \A b \in DOMAIN mem \ {a} : DOMAIN mem'[b] = Fields /\ mem'[b].size = mem[b].size /\ Carried(b, b)
    BY <1>1, <2>1 DEF SameButRefs, Shaped, Carried
  <2>3. Shaped'
    BY <1>1, <2>1, <2>2 DEF Shaped
  <2>4. \A b \in DOMAIN mem \ {a} :
          End(b)' = End(b) /\ b \in Nat /\ b < End(b) /\ End(b) \in Nat /\ End(b) <= left
    BY <1>1, <2>2 DEF Shaped, Tiled, End
  <2>5. \A b \in DOMAIN mem' : End(b)' <= left'
    <3>. SUFFICES ASSUME NEW b \in DOMAIN mem \ {a} PROVE End(b) <= a
      BY <2>1, <2>2, <2>4
    <3>1. (b < a => End(b) <= a) /\ (a < b => End(a) <= b)
      BY <1>1 DEF Tiled
    <3>2. left \in Nat /\ a \in Nat /\ b \in Nat /\ b < End(b) /\ End(b) \in Nat /\ End(b) <= left
      BY <1>1, <2>4 DEF Shaped
    <3>3. ~(a < b)
      BY <2>1, <3>1, <3>2
    <3>. QED
      BY <3>1, <3>2, <3>3
  <2>6. \A b, d \in DOMAIN mem' : b < d => End(b)' <= d
    BY <1>1, <2>2, <2>4 DEF Tiled
  <2>7. \A u \in 0 .. left' - 1 : \E b \in DOMAIN mem' : b <= u /\ u < End(b)'
    <3>. SUFFICES ASSUME NEW u \in 0 .. a - 1
                  PROVE  \E b \in DOMAIN mem' : b <= u /\ u < End(b)'
      BY <2>1
    <3>1. a < left /\ left \in Nat
      BY <1>1, <2>1 DEF Shaped, End
    <3>2. PICK b \in DOMAIN mem : b <= u /\ u < End(b)
      BY <1>1, <3>1 DEF Tiled
    <3>3. b # a
      BY <1>1, <3>2
    <3>. QED
      BY <2>2, <2>4, <3>2, <3>3
  <2>. QED
    BY <1>1, <2>2, <2>3, <2>5, <2>6, <2>7 DEF HeapInv, Tiled
<1>3. CASE ~IsLast(a)
  <2>1. Freed(a) = [mem EXCEPT ![a] = FreeChunk(mem[a].size)] /\ left' = left
    BY <1>3 DEF Freed, LeftAfter
  <2>2. DOMAIN FreeChunk(mem[a].size) = Fields /\ FreeChunk(mem[a].size).size = mem[a].size
    BY DEF FreeChunk, Chunk, Fields
  <2>3. SameTiles
    BY <1>1, <2>1, <2>2 DEF SameButRefs, SameTiles, Shaped
  <2>4. \A b \in DOMAIN mem : b # a => b \in DOMAIN mem' /\ Carried(b, b)
    BY <2>1 DEF SameButRefs, Carried
  <2>5. Shaped' /\ Tiled'
    BY <1>1, <2>1, <2>3, TilesStay
  <2>. QED
    BY <1>1, <2>4, <2>5 DEF HeapInv
<1>. QED
  BY <1>2, <1>3

\* A frame that is popped is freed, and no other pointer leads to it.
LEMMA PopKeeps ==
  ASSUME IInv, phase \in {"run", "unwind"}, phase' = phase, pending' = pending,
         NEW t \in Threads, stack[t] # <<>>, FramePopped(t), SameButRefs(mem', Freed(Top(t)))
  PROVE  IInv'
<1>1. PICK f : f = Top(t)
  OBVIOUS
<1>2. /\ stack \in [Threads -> Seq(Int)] /\ Len(stack[t]) \in DOMAIN stack[t] /\ Len(stack[t]) \in Nat
      /\ f = stack[t][Len(stack[t])] /\ Idle
  BY <1>1 DEF IInv, FramesInv, Top, LastOf, Idle
<1>3. Held(f) /\ Root(f).id = FRAME /\ f \in DOMAIN mem /\ Root(f) = mem[f]
  BY <1>2, IdleHeld DEF IInv, FramesInv
<1>4. /\ left' = LeftAfter(f) /\ stack' = [stack EXCEPT ![t] = Without(stack[t], 1)]
      /\ finished \subseteq finished'
      /\ UNCHANGED <<loc, refStack, infusions, current>>
  BY <1>1 DEF FramePopped
<1>5. HeapInv' /\ \A b \in DOMAIN mem : b # f => b \in DOMAIN mem' /\ Carried(b, b)
  BY <1>1, <1>2, <1>3, <1>4, FreedHeap DEF IInv
<1>6. ASSUME NEW r \in RootPointers, r # f PROVE Linked(r, r, Root(r).infusion)
  <2>1. Held(r) /\ r \in DOMAIN mem
    BY <1>2, RootsHeld, IdleHeld DEF IInv
  <2>2. Stays(r)
    BY <1>5, <1>6, <2>1 DEF Stays
  <2>. QED
    BY <1>2, <1>5, <2>1, <2>2, StaysHeld DEF IInv, Idle
<1>7. PICK R : R = RootPointers \ {f}
  OBVIOUS
<1>8. Members(infusions) \subseteq R
  <2>1. \A r \in Members(infusions) : Root(r).id = INFUSION
    BY DEF Members, IInv, InfusionsInv, Inf
  <2>. QED
    BY <1>3, <1>7, <2>1 DEF RootPointers, INFUSION, FRAME
<1>9. InfusionsInv' /\ Members(infusions)' = Members(infusions)
  BY <1>4, <1>6, <1>7, <1>8, InfusionsStay DEF IInv, Members
<1>10. stack' \in [Threads -> Seq(Int)]
  BY <1>2, <1>4 DEF Without
<1>11. ASSUME NEW u \in Threads, NEW i \in DOMAIN stack'[u]
       PROVE  /\ i \in DOMAIN stack[u] /\ stack'[u][i] = stack[u][i] /\ stack[u][i] \in R
              /\ u \notin finished' => Root(stack[u][i]).infusion \in Members(infusions)'
  <2>1. i \in DOMAIN stack[u] /\ stack'[u][i] = stack[u][i] /\ ~(u = t /\ i = Len(stack[t]))
    BY <1>2, <1>4, <1>11 DEF Without
  <2>2. stack[u][i] # f
    BY <1>2, <2>1 DEF IInv, FramesInv
  <2>. QED
    BY <1>4, <1>7, <1>9, <2>1, <2>2, RootsAre DEF IInv, FramesInv
<1>12. FramesInv'
  <2>1. \A r \in R : Linked(r, r, Root(r).infusion)
    BY <1>6, <1>7
  <2>2. \A u \in Threads : \A i \in DOMAIN stack'[u] :
          /\ i \in DOMAIN stack[u] /\ stack'[u][i] = stack[u][i] /\ stack[u][i] \in R
          /\ u \notin finished' => Root(stack[u][i]).infusion \in Members(infusions)'
    BY <1>11
  <2>3. FramesInv
    BY DEF IInv
  <2>. QED
    BY <1>10, <2>1, <2>2, <2>3, FramesLeft
<1>. QED
  BY <1>4, <1>5, <1>9, <1>12 DEF IInv, PendingInv, Asked, Members

LEMMA ReturnKeeps ==
  ASSUME IInv, NEW t \in Threads, RETURN(t) \/ ARETURN(t) PROVE IInv'
<1>1. /\ phase = "run" /\ phase' = phase /\ pending' = pending /\ stack[t] # <<>> /\ FramePopped(t)
  BY DEF RETURN, ARETURN, Running
<1>2. SameButRefs(mem', Freed(Top(t)))
  <2>1. CASE RETURN(t)
    BY <2>1, NothingStored DEF RETURN
  <2>2. CASE ARETURN(t)
    <3>1. PICK x, v : mem' = [Freed(Top(t)) EXCEPT ![x].refs = v]
      BY <2>2 DEF ARETURN
    <3>. QED
      BY <3>1, NothingStored, RefsStored
  <2>. QED
    BY <2>1, <2>2
<1>. QED
  BY <1>1, <1>2, PopKeeps

LEMMA UnwindKeeps == ASSUME IInv, UNWIND PROVE IInv'
<1>1. /\ phase = "unwind" /\ phase' = phase /\ pending' = pending /\ stack[current] # <<>>
      /\ FramePopped(current) /\ current \in Threads
  BY DEF UNWIND, Unwinding, IInv
<1>2. SameButRefs(mem', Freed(Top(current)))
  BY NothingStored DEF UNWIND
<1>. QED
  BY <1>1, <1>2, PopKeeps

-----------------------------------------------------------------------------
\* Threads that end, and infusions that go.

LEMMA ScheduleKeeps == ASSUME IInv, SCHEDULE PROVE IInv'
<1>1. /\ phase = "run" /\ stack' = [t \in Threads |-> IF t \in finished THEN <<>> ELSE stack[t]]
      /\ current' \in Threads
      /\ UNCHANGED <<mem, left, phase, loc, refStack, infusions, pending>>
  BY DEF SCHEDULE
<1>2. HeapInv' /\ Keeps
  BY <1>1, StoredHeap, NothingStored DEF IInv, Idle
<1>3. PICK R : R = RootPointers
  OBVIOUS
<1>4. \A r \in R : Linked(r, r, Root(r).infusion)
  BY <1>1, <1>2, <1>3, KeepsRoots DEF IInv, Idle
<1>5. InfusionsInv' /\ Members(infusions)' = Members(infusions)
  BY <1>1, <1>3, <1>4, InfusionsStay DEF IInv, Members, RootPointers
<1>6. stack' \in [Threads -> Seq(Int)] /\ FramesInv
  BY <1>1 DEF IInv, FramesInv
<1>7. \A t \in Threads : \A i \in DOMAIN stack'[t] :
        /\ i \in DOMAIN stack[t] /\ stack'[t][i] = stack[t][i] /\ stack[t][i] \in R
        /\ t \notin finished' => Root(stack[t][i]).infusion \in Members(infusions)'
  BY <1>1, <1>3, <1>5, <1>6, RootsAre DEF FramesInv
<1>8. FramesInv'
  BY <1>4, <1>6, <1>7, FramesLeft
<1>. QED
  BY <1>1, <1>2, <1>5, <1>8 DEF IInv, PendingInv, Asked, Members

\* The infusions behind the one unloaded move down by its classes, those before it stay,
\* and so do the links: nobody imports it, and its threads are ended.
LEMMA UnloadKeeps == ASSUME IInv, NEW t \in Threads, UNLOAD(t) PROVE IInv'
<1>1. PICK i \in DOMAIN infusions :
        /\ SafeToUnload(infusions[i])
        /\ finished' = finished \cup {u \in Threads : Executes(u, infusions[i])}
        /\ mem' = UnloadedFrom(infusions[i])
        /\ infusions' = Unlinked(infusions, i)
  BY DEF UNLOAD
<1>2. PICK a, n : a = infusions[i] /\ n = Len(infusions)
  OBVIOUS
<1>3. /\ phase = "run" /\ phase' = "run" /\ Idle /\ Idle' /\ pending = Nothing
      /\ UNCHANGED <<left, loc, refStack, stack, pending, current>>
  BY DEF UNLOAD, Running, IInv, PendingInv, Idle
<1>4. /\ HeapInv /\ Shaped /\ FramesInv /\ InfusionsInv
      /\ infusions \in Seq(Int) /\ n \in Nat \ {0} /\ DOMAIN infusions = 1 .. n /\ i \in 1 .. n
  BY <1>2 DEF IInv, HeapInv, InfusionsInv
<1>5. ASSUME NEW k \in 1 .. n
      PROVE  /\ infusions[k] \in DOMAIN mem /\ InUse(infusions[k]) /\ Inf(k) = mem[infusions[k]]
             /\ Inf(k).id = INFUSION /\ Inf(k).name \in Names /\ Inf(k).base \in Nat
             /\ NrClasses[Inf(k).name] \in Nat /\ Limit(k) = Inf(k).base + NrClasses[Inf(k).name]
             /\ Inf(k).infusion \in Members(infusions) \cup {NoRef}
  <2>1. PICK r : r = infusions[k]
    OBVIOUS
  <2>2. Held(r) /\ Root(r) = Inf(k)
    BY <1>4, <2>1 DEF InfusionsInv, Inf
  <2>3. r \in DOMAIN mem /\ InUse(r) /\ Root(r) = mem[r]
    BY <1>3, <1>4, <2>2, IdleHeld
  <2>4. /\ Inf(k).id = INFUSION /\ Inf(k).name \in Names /\ Inf(k).base \in Nat
        /\ Inf(k).infusion \in Members(infusions) \cup {NoRef}
    BY <1>4 DEF InfusionsInv
  <2>. QED
    BY <2>1, <2>2, <2>3, <2>4, HeapAssumption DEF Limit
<1>6. PICK start, range : start = Inf(i).base /\ range = NrClasses[Inf(i).name]
  OBVIOUS
<1>7. start \in Nat /\ range \in Nat /\ Limit(i) = start + range /\ a \in DOMAIN mem
      /\ Inf(i) = mem[a] /\ mem[a].base = start /\ NrClasses[mem[a].name] = range
  BY <1>2, <1>4, <1>5, <1>6
<1>8. \A k, l \in 1 .. n : k < l => Limit(k) <= Inf(l).base
  BY <1>4 DEF InfusionsInv
<1>9. i > 1 /\ 1 \in 1 .. n
  <2>1. mem[a].name # BaseName
    BY <1>1, <1>2 DEF SafeToUnload
  <2>2. Inf(1).name = BaseName
    BY <1>4 DEF InfusionsInv
  <2>. QED
    BY <1>4, <1>7, <2>1, <2>2
<1>10. start >= JAVA_START
  <2>1. Limit(1) <= start /\ Inf(1).base = JAVA_START
    BY <1>4, <1>6, <1>8, <1>9 DEF InfusionsInv
  <2>. QED
    BY <1>5, <1>7, <1>9, <2>1 DEF JAVA_START
<1>11. DOMAIN mem' = DOMAIN mem /\
       \A x \in DOMAIN mem :
         /\ DOMAIN mem'[x] = Fields /\ mem'[x].size = mem[x].size /\ mem'[x].name = mem[x].name
         /\ mem'[x].infusion = mem[x].infusion
         /\ mem'[x].id = Renumbered(mem[x].id, start, range)
         /\ mem'[x].base = IF x \in Members(infusions) /\ mem[x].base > start
                           THEN mem[x].base - range ELSE mem[x].base
  BY <1>1, <1>2, <1>4, <1>7 DEF UnloadedFrom, Shaped, Fields
<1>12. \A id \in {FRAME, INFUSION} : Renumbered(id, start, range) = id
  BY <1>7, <1>10 DEF Renumbered, FRAME, INFUSION, JAVA_START
<1>13. HeapInv'
  <2>1. SameTiles
    BY <1>11 DEF SameTiles
  <2>2. Shaped' /\ Tiled'
    BY <1>3, <1>4, <2>1, TilesStay DEF HeapInv, Shaped
  <2>. QED
    BY <1>3, <1>4, <2>2 DEF HeapInv
<1>14. /\ infusions' \in Seq(Int) /\ DOMAIN infusions' = 1 .. n - 1 /\ n - 1 \in Nat \ {0}
       /\ \A j \in 1 .. n - 1 : infusions'[j] = IF j < i THEN infusions[j] ELSE infusions[j + 1]
  <2>1. infusions' = [j \in 1 .. n - 1 |-> IF j < i THEN infusions[j] ELSE infusions[j + 1]]
    BY <1>1, <1>2 DEF Unlinked
  <2>2. n - 1 \in Nat \ {0}
    BY <1>4, <1>9
  <2>3. \A j \in 1 .. n - 1 : (IF j < i THEN infusions[j] ELSE infusions[j + 1]) \in Int
    BY <1>4
  <2>. QED
    BY <2>1, <2>2, <2>3
<1>15. Members(infusions) \ {a} \subseteq Members(infusions)'
  <2>. SUFFICES ASSUME NEW k \in 1 .. n, k # i PROVE infusions[k] \in Members(infusions)'
    BY <1>2, <1>4 DEF Members
  <2>1. CASE k < i
    <3>1. k \in 1 .. n - 1
      BY <1>4, <2>1
    <3>2. infusions'[k] = infusions[k]
      BY <1>14, <2>1, <3>1
    <3>. QED
      BY <1>14, <3>1, <3>2 DEF Members
  <2>2. CASE k > i
    <3>1. k - 1 \in 1 .. n - 1 /\ ~(k - 1 < i) /\ (k - 1) + 1 = k
      BY <1>4, <2>2
    <3>. QED
      BY <1>14, <3>1 DEF Members
  <2>. QED
    BY <1>4, <2>1, <2>2
<1>. DEFINE B(k) == IF k < i THEN Inf(k).base ELSE Inf(k).base - range
            K(j) == IF j < i THEN j ELSE j + 1
<1>16. ASSUME NEW k \in 1 .. n, k # i, NEW r, r = infusions[k]
       PROVE  /\ Held(r)' /\ Root(r)'.id = INFUSION /\ Root(r)'.name = Inf(k).name
              /\ Root(r)'.base = B(k) /\ B(k) \in Nat
              /\ Root(r)'.infusion \in Members(infusions)' \cup {NoRef}
  <2>1. r \in DOMAIN mem /\ r \in Members(infusions) /\ Inf(k) = mem[r] /\ mem[r].id = INFUSION
    BY <1>4, <1>5, <1>16 DEF Members
  <2>2. r \in DOMAIN mem' /\ mem'[r].id = INFUSION
    BY <1>11, <1>12, <2>1
  <2>3. Held(r)' /\ Root(r)' = mem'[r]
    BY <1>3, <1>13, <2>2, IdleHeldNext DEF IdleRoots, InUse, INFUSION, FREE
  <2>4. mem'[r].base = B(k) /\ B(k) \in Nat
    <3>1. Inf(k).base \in Nat /\ Limit(k) = Inf(k).base + NrClasses[Inf(k).name]
          /\ NrClasses[Inf(k).name] \in Nat
      BY <1>5
    <3>2. mem'[r].base = IF Inf(k).base > start THEN Inf(k).base - range ELSE Inf(k).base
      BY <1>11, <2>1
    <3>3. CASE k < i
      <4>1. Limit(k) <= start
        BY <1>4, <1>6, <1>8, <3>3
      <4>. QED
        BY <1>7, <3>1, <3>2, <3>3, <4>1
    <3>4. CASE k > i
      <4>1. start + range <= Inf(k).base
        BY <1>4, <1>7, <1>8, <3>4
      <4>2. ~(k < i)
        BY <1>4, <3>4
      <4>. QED
        BY <1>7, <3>1, <3>2, <4>1, <4>2
    <3>. QED
      BY <1>4, <1>16, <3>3, <3>4
  <2>5. mem'[r].infusion \in Members(infusions)' \cup {NoRef}
    <3>1. mem[r].infusion # a
      BY <1>1, <1>2, <2>1 DEF SafeToUnload
    <3>2. mem[r].infusion \in Members(infusions) \cup {NoRef}
      BY <1>5, <2>1
    <3>. QED
      BY <1>11, <1>15, <2>1, <3>1, <3>2
  <2>. QED
    BY <1>11, <2>1, <2>2, <2>3, <2>4, <2>5
<1>17. ASSUME NEW j \in 1 .. n - 1
       PROVE  /\ K(j) \in 1 .. n /\ K(j) # i
              /\ Held(infusions[j])' /\ Inf(j)'.id = INFUSION /\ Inf(j)'.name = Inf(K(j)).name
              /\ Inf(j)'.base = B(K(j)) /\ B(K(j)) \in Nat
              /\ Limit(j)' = B(K(j)) + NrClasses[Inf(K(j)).name]
              /\ Inf(j)'.infusion \in Members(infusions)' \cup {NoRef}
  <2>1. K(j) \in 1 .. n /\ K(j) # i
    BY <1>4
  <2>2. PICK k, r : k = K(j) /\ r = infusions[k]
    OBVIOUS
  <2>3. infusions'[j] = r
    BY <1>14, <2>2
  <2>4. /\ Held(r)' /\ Root(r)'.id = INFUSION /\ Root(r)'.name = Inf(k).name
        /\ Root(r)'.base = B(k) /\ B(k) \in Nat
        /\ Root(r)'.infusion \in Members(infusions)' \cup {NoRef}
    BY <1>16, <2>1, <2>2
  <2>. HIDE DEF B, K
  <2>. QED
    BY <2>1, <2>2, <2>3, <2>4 DEF Inf, Limit
<1>18. ASSUME NEW k \in 1 .. n, NEW l \in 1 .. n, k # i, l # i, k < l
       PROVE  B(k) + NrClasses[Inf(k).name] <= B(l)
  <2>1. /\ Inf(k).base \in Nat /\ Inf(l).base \in Nat /\ NrClasses[Inf(k).name] \in Nat
        /\ Limit(k) = Inf(k).base + NrClasses[Inf(k).name] /\ Limit(k) <= Inf(l).base
    BY <1>5, <1>8, <1>18
  <2>2. CASE k < i /\ l < i
    BY <2>1, <2>2
  <2>3. CASE ~(k < i)
    <3>1. ~(l < i)
      BY <1>4, <1>18, <2>3
    <3>2. B(k) = Inf(k).base - range /\ B(l) = Inf(l).base - range
      BY <2>3, <3>1
    <3>. HIDE DEF B
    <3>. QED
      BY <1>7, <2>1, <3>2
  <2>4. CASE k < i /\ ~(l < i)
    <3>1. Limit(k) <= start /\ start + range <= Inf(l).base
      BY <1>4, <1>6, <1>7, <1>8, <1>18, <2>4
    <3>. QED
      BY <1>7, <2>1, <2>4, <3>1
  <2>. QED
    BY <2>2, <2>3, <2>4
<1>19. ASSUME NEW j \in 1 .. n - 1, j > 1
       PROVE  B(K(j)) = B(K(j - 1)) + NrClasses[Inf(K(j - 1)).name]
  <2>0. \A k \in 1 .. n : k > 1 => k - 1 \in 1 .. n /\ Inf(k).base = Limit(k - 1)
    BY <1>4 DEF InfusionsInv
  <2>1. CASE j < i
    <3>1. K(j) = j /\ K(j - 1) = j - 1 /\ j \in 1 .. n /\ j - 1 < i /\ j - 1 \in 1 .. n
      BY <1>4, <1>19, <2>1
    <3>. QED
      BY <1>5, <1>19, <2>0, <2>1, <3>1
  <2>2. CASE j = i
    <3>1. K(j) = i + 1 /\ K(j - 1) = i - 1 /\ i + 1 \in 1 .. n /\ i - 1 \in 1 .. n /\ i - 1 < i
          /\ ~(i + 1 < i) /\ (i + 1) - 1 = i /\ i + 1 > 1
      <4>1. i \in Nat /\ i <= n - 1 /\ i > 1
        BY <1>4, <1>9, <2>2
      <4>2. K(j) = i + 1
        BY <2>2, <4>1
      <4>3. K(j - 1) = i - 1 /\ i - 1 < i
        BY <2>2, <4>1
      <4>. HIDE DEF K
      <4>. QED
        BY <1>4, <4>1, <4>2, <4>3
    <3>2. Inf(i + 1).base = Limit(i) /\ Inf(i).base = Limit(i - 1)
      BY <1>4, <1>9, <2>0, <3>1
    <3>3. Limit(i - 1) = Inf(i - 1).base + NrClasses[Inf(i - 1).name]
      BY <1>5, <3>1
    <3>. QED
      BY <1>6, <1>7, <3>1, <3>2, <3>3
  <2>3. CASE j > i
    <3>1. K(j) = j + 1 /\ K(j - 1) = j /\ j + 1 \in 1 .. n /\ j \in 1 .. n /\ ~(j < i)
          /\ ~(j + 1 < i) /\ (j + 1) - 1 = j /\ j + 1 > 1
      BY <1>4, <1>9, <2>3
    <3>2. Inf(j + 1).base = Limit(j)
      BY <2>0, <3>1
    <3>3. Limit(j) = Inf(j).base + NrClasses[Inf(j).name] /\ Inf(j).base \in Nat
          /\ NrClasses[Inf(j).name] \in Nat
      BY <1>5, <3>1
    <3>. QED
      BY <1>7, <3>1, <3>2, <3>3
  <2>. QED
    BY <1>4, <2>1, <2>2, <2>3
<1>20. InfusionsInv'
  <2>1. infusions' # <<>>
    <3>0. 1 \in 1 .. n - 1
      BY <1>4, <1>14
    <3>1. 1 \in DOMAIN infusions'
      BY <1>14, <3>0
    <3>. QED
      BY <3>1
  <2>2. \A j \in DOMAIN infusions' :
          /\ Held(infusions[j])' /\ Inf(j)'.id = INFUSION
          /\ Inf(j)'.name \in Names /\ Inf(j)'.base \in Nat
          /\ Inf(j)'.infusion \in Members(infusions)' \cup {NoRef}
    BY <1>5, <1>14, <1>17
  <2>3. Inf(1)'.base = JAVA_START /\ Inf(1)'.name = BaseName
    <3>1. 1 \in 1 .. n - 1 /\ K(1) = 1 /\ 1 < i
      BY <1>4, <1>9
    <3>2. Inf(1)'.name = Inf(1).name /\ Inf(1)'.base = Inf(1).base
      BY <1>17, <3>1
    <3>. QED
      BY <1>4, <3>2 DEF InfusionsInv
  <2>4. \A j \in DOMAIN infusions' : j > 1 => Inf(j)'.base = Limit(j - 1)'
    <3>. SUFFICES ASSUME NEW j \in 1 .. n - 1, j > 1 PROVE Inf(j)'.base = Limit(j - 1)'
      BY <1>14
    <3>1. PICK m : m = j - 1
      OBVIOUS
    <3>2. m \in 1 .. n - 1
      BY <1>4, <3>1
    <3>3. Limit(m)' = B(K(m)) + NrClasses[Inf(K(m)).name] /\ Inf(j)'.base = B(K(j))
      BY <1>17, <3>2
    <3>4. B(K(j)) = B(K(m)) + NrClasses[Inf(K(m)).name]
      BY <1>19, <3>1
    <3>. HIDE DEF B, K
    <3>. QED
      BY <3>1, <3>3, <3>4
  <2>5. \A j, l \in DOMAIN infusions' : j < l => Limit(j)' <= Inf(l)'.base
    <3>. SUFFICES ASSUME NEW j \in 1 .. n - 1, NEW l \in 1 .. n - 1, j < l
                  PROVE  Limit(j)' <= Inf(l)'.base
      BY <1>14
    <3>1. K(j) < K(l) /\ K(j) \in 1 .. n /\ K(l) \in 1 .. n /\ K(j) # i /\ K(l) # i
      BY <1>4
    <3>2. B(K(j)) + NrClasses[Inf(K(j)).name] <= B(K(l))
      BY <1>18, <3>1
    <3>3. Limit(j)' = B(K(j)) + NrClasses[Inf(K(j)).name] /\ Inf(l)'.base = B(K(l))
      BY <1>17
    <3>. QED
      BY <3>2, <3>3
  <2>. QED
    BY <1>14, <2>1, <2>2, <2>3, <2>4, <2>5 DEF InfusionsInv
<1>21. FramesInv'
  <2>1. PICK R : R = Frames
    OBVIOUS
  <2>2. ASSUME NEW r \in R PROVE Linked(r, r, Root(r).infusion) /\ Root(r) = mem[r]
    <3>1. Held(r) /\ Root(r).id = FRAME
      BY <1>4, <2>1, <2>2 DEF Frames, Members, FramesInv
    <3>2. r \in DOMAIN mem /\ Root(r) = mem[r]
      BY <1>3, <1>4, <3>1, IdleHeld
    <3>3. r \notin Members(infusions)
      <4>1. \A k \in 1 .. n : mem[infusions[k]].id = INFUSION
        BY <1>5
      <4>. QED
        BY <1>4, <3>1, <3>2, <4>1 DEF Members, FRAME, INFUSION
    <3>4. Carried(r, r)
      BY <1>11, <1>12, <3>1, <3>2, <3>3 DEF Carried
    <3>5. Stays(r)
      BY <1>3, <1>11, <3>2, <3>4 DEF Stays
    <3>. QED
      BY <1>3, <1>4, <1>13, <3>1, <3>2, <3>5, StaysHeld
  <2>3. ASSUME NEW u \in Threads, NEW j \in DOMAIN stack'[u]
        PROVE  /\ j \in DOMAIN stack[u] /\ stack'[u][j] = stack[u][j] /\ stack[u][j] \in R
               /\ u \notin finished' => Root(stack[u][j]).infusion \in Members(infusions)'
    <3>1. j \in DOMAIN stack[u] /\ stack'[u][j] = stack[u][j] /\ stack[u][j] \in R
      BY <1>3, <2>1, <2>3 DEF Frames, Members
    <3>2. ASSUME u \notin finished' PROVE Root(stack[u][j]).infusion \in Members(infusions)'
      <4>1. u \notin finished /\ ~Executes(u, a)
        BY <1>1, <1>2, <3>2
      <4>2. Root(stack[u][j]).infusion \in Members(infusions)
        BY <1>4, <3>1, <4>1 DEF FramesInv
      <4>3. mem[stack[u][j]].infusion # a
        BY <3>1, <4>1 DEF Executes, Members
      <4>4. Root(stack[u][j]) = mem[stack[u][j]]
        BY <2>2, <3>1
      <4>. QED
        BY <1>15, <4>2, <4>3, <4>4
    <3>. QED
      BY <3>1, <3>2
  <2>4. stack' \in [Threads -> Seq(Int)]
    BY <1>3, <1>4 DEF FramesInv
  <2>5. \A r \in R : Linked(r, r, Root(r).infusion)
    BY <2>2
  <2>6. \A u \in Threads : \A j \in DOMAIN stack'[u] :
          /\ j \in DOMAIN stack[u] /\ stack'[u][j] = stack[u][j] /\ stack[u][j] \in R
          /\ u \notin finished' => Root(stack[u][j]).infusion \in Members(infusions)'
    BY <2>3
  <2>. QED
    BY <1>4, <2>4, <2>5, <2>6, FramesLeft
<1>. QED
  BY <1>3, <1>13, <1>20, <1>21 DEF IInv, PendingInv, Asked, Nothing

-----------------------------------------------------------------------------
\* Collections.

LEMMA UpdatedPointers ==
  ASSUME HeapInv, phase = "system"
  PROVE  /\ \A r \in Int : Updated(r) \in Int
         /\ \A a, b \in DOMAIN mem : InUse(a) /\ InUse(b) /\ Updated(a) = Updated(b) => a = b
         /\ \A s \in Seq(Int) :
              /\ UpdatedAll(s) \in Seq(Int) /\ Len(UpdatedAll(s)) = Len(s)
              /\ DOMAIN UpdatedAll(s) = DOMAIN s
              /\ \A i \in DOMAIN s : UpdatedAll(s)[i] = Updated(s[i])
<1>1. Shaped /\ Tiled /\ ShiftsSet
  BY DEF HeapInv
<1>2. \A a \in DOMAIN mem :
        Updated(a) = Target(a) /\ Updated(a) \in Int /\ a \in Nat /\ mem[a].size \in Nat \ {0}
  BY <1>1, CompactionFits DEF Updated, Target, ShiftsSet, Shaped
<1>3. \A r \in Int : Updated(r) \in Int
  BY <1>2 DEF Updated
<1>4. ASSUME NEW a \in DOMAIN mem, NEW b \in DOMAIN mem, InUse(a), InUse(b), Updated(a) = Updated(b)
      PROVE  a = b
  <2>1. /\ a < b => Target(a) + mem[a].size <= Target(b)
        /\ b < a => Target(b) + mem[b].size <= Target(a)
    BY <1>1, <1>4, CompactionFits
  <2>. QED
    BY <1>2, <1>4, <2>1
<1>5. ASSUME NEW s \in Seq(Int)
      PROVE  /\ UpdatedAll(s) \in Seq(Int) /\ Len(UpdatedAll(s)) = Len(s)
             /\ DOMAIN UpdatedAll(s) = DOMAIN s
             /\ \A i \in DOMAIN s : UpdatedAll(s)[i] = Updated(s[i])
  <2>1. DOMAIN s = 1 .. Len(s) /\ Len(s) \in Nat /\ \A i \in 1 .. Len(s) : s[i] \in Int
    OBVIOUS
  <2>2. UpdatedAll(s) = [i \in 1 .. Len(s) |-> Updated(s[i])]
    BY <2>1 DEF UpdatedAll
  <2>3. \A i \in 1 .. Len(s) : Updated(s[i]) \in Int
    BY <1>3, <2>1
  <2>. QED
    BY <2>1, <2>2, <2>3
<1>. QED
  BY <1>3, <1>4, <1>5

\* All pointers get their new values in one step, and the links with them.
LEMMA UpdateKeepsRoots ==
  ASSUME IInv, UpdateSystem, Repointed, UNCHANGED threadVars PROVE IInv'
<1>1. /\ phase = "system" /\ phase' = "move" /\ refStack' = UpdatedAll(refStack)
      /\ infusions' = UpdatedAll(infusions)
      /\ stack' = [t \in Threads |-> UpdatedAll(stack[t])] /\ pending' = pending
      /\ current' = current /\ finished' = finished /\ Idle
  BY DEF UpdateSystem, Repointed, threadVars, Idle
<1>2. HeapInv /\ FramesInv /\ InfusionsInv /\ HeapInv'
  BY UpdateSystemKeeps DEF IInv
<1>3. /\ infusions \in Seq(Int) /\ refStack \in Seq(Int) /\ stack \in [Threads -> Seq(Int)]
      /\ Len(infusions) \in Nat \ {0} /\ DOMAIN infusions = 1 .. Len(infusions)
  BY DEF IInv, FramesInv, InfusionsInv, PendingInv
<1>4. /\ infusions' \in Seq(Int) /\ DOMAIN infusions' = DOMAIN infusions
      /\ Len(infusions') = Len(infusions)
      /\ \A i \in DOMAIN infusions : infusions'[i] = Updated(infusions[i])
      /\ refStack' \in Seq(Int) /\ Len(refStack') = Len(refStack)
      /\ \A i \in DOMAIN refStack : refStack'[i] = Updated(refStack[i])
  BY <1>1, <1>2, <1>3, UpdatedPointers
<1>5. /\ stack' \in [Threads -> Seq(Int)]
      /\ \A t \in Threads : /\ DOMAIN stack'[t] = DOMAIN stack[t]
                           /\ \A i \in DOMAIN stack[t] : stack'[t][i] = Updated(stack[t][i])
  BY <1>1, <1>2, <1>3, UpdatedPointers
<1>6. \A r \in Members(infusions) : Updated(r) \in Members(infusions)'
  BY <1>4 DEF Members
<1>7. Updated(NoRef) = NoRef
  BY <1>2, HeapAssumption DEF Updated, HeapInv, Shaped
<1>8. FramesInv'
  <2>1. ASSUME NEW t \in Threads, NEW i \in DOMAIN stack[t]
        PROVE  /\ Held(stack[t][i])' /\ Root(stack[t][i])'.id = FRAME
               /\ t \notin finished => Root(stack[t][i])'.infusion \in Members(infusions)'
    <3>1. PICK r, s, link : r = stack[t][i] /\ s = Updated(r) /\ link = Root(r).infusion
      OBVIOUS
    <3>2. /\ Held(r) /\ Root(r).id = FRAME
          /\ t \notin finished => link \in Members(infusions)
      BY <1>2, <3>1 DEF FramesInv
    <3>3. Linked(r, s, Updated(Root(r).infusion))
      BY <1>2, <3>1, <3>2, UpdateFollows
    <3>4. /\ Held(s)' /\ Root(s)'.id = FRAME
          /\ t \notin finished => Root(s)'.infusion \in Members(infusions)'
      BY <1>6, <3>1, <3>2, <3>3 DEF Linked, FollowedTo
    <3>5. stack'[t][i] = s
      BY <1>5, <3>1
    <3>. QED
      BY <3>4, <3>5
  <2>2. ASSUME NEW t \in Threads, NEW u \in Threads, NEW i \in DOMAIN stack[t], NEW j \in DOMAIN stack[u],
               stack'[t][i] = stack'[u][j]
        PROVE  t = u /\ i = j
    <3>1. \A w \in Threads : \A k \in DOMAIN stack[w] : stack[w][k] \in DOMAIN mem /\ InUse(stack[w][k])
      BY <1>1, <1>2, IdleHeld DEF FramesInv
    <3>2. Updated(stack[t][i]) = Updated(stack[u][j])
      BY <1>5, <2>2
    <3>3. stack[t][i] = stack[u][j]
      BY <1>1, <1>2, <3>1, <3>2, UpdatedPointers
    <3>. QED
      BY <1>2, <3>3 DEF FramesInv
  <2>. QED
    BY <1>1, <1>5, <2>1, <2>2 DEF FramesInv
<1>9. ASSUME NEW i \in DOMAIN infusions
      PROVE  /\ Held(infusions[i])' /\ Inf(i)'.id = Inf(i).id /\ Inf(i)'.base = Inf(i).base
             /\ Inf(i)'.name = Inf(i).name /\ Limit(i)' = Limit(i)
             /\ Inf(i)'.infusion \in Members(infusions)' \cup {NoRef}
  <2>1. PICK r, s, link : r = infusions[i] /\ s = Updated(r) /\ link = Root(r).infusion
    OBVIOUS
  <2>2. Held(r) /\ Root(r).id = INFUSION /\ link \in Members(infusions) \cup {NoRef} /\ Inf(i) = Root(r)
    BY <1>2, <2>1 DEF InfusionsInv, Inf
  <2>3. Linked(r, s, Updated(Root(r).infusion))
    BY <1>2, <2>1, <2>2, UpdateFollows
  <2>4. infusions'[i] = s
    BY <1>4, <2>1
  <2>5. Updated(Root(r).infusion) \in Members(infusions)' \cup {NoRef}
    BY <1>6, <1>7, <2>1, <2>2
  <2>6. /\ Held(s)' /\ Root(s)'.id = Inf(i).id /\ Root(s)'.base = Inf(i).base
        /\ Root(s)'.name = Inf(i).name /\ Root(s)'.infusion \in Members(infusions)' \cup {NoRef}
    BY <2>2, <2>3, <2>5 DEF Linked, FollowedTo
  <2>. QED
    BY <2>4, <2>6 DEF Inf, Limit
<1>10. InfusionsInv'
  <2>1. 1 \in DOMAIN infusions /\ \A i \in DOMAIN infusions : i > 1 => i - 1 \in DOMAIN infusions
    BY <1>3
  <2>2. infusions' # <<>>
    BY <1>3, <1>4
  <2>3. \A i \in DOMAIN infusions :
          /\ Held(infusions[i])' /\ Inf(i)'.id = INFUSION
          /\ Inf(i)'.name \in Names /\ Inf(i)'.base \in Nat
          /\ Inf(i)'.infusion \in Members(infusions)' \cup {NoRef}
    BY <1>2, <1>9 DEF InfusionsInv
  <2>4. Inf(1)'.base = JAVA_START /\ Inf(1)'.name = BaseName
    BY <1>2, <1>9, <2>1 DEF InfusionsInv
  <2>5. \A i \in DOMAIN infusions : i > 1 => Inf(i)'.base = Limit(i - 1)'
    <3>. SUFFICES ASSUME NEW i \in DOMAIN infusions, i > 1 PROVE Inf(i)'.base = Limit(i - 1)'
      OBVIOUS
    <3>1. PICK k : k = i - 1
      OBVIOUS
    <3>2. Limit(k)' = Limit(k) /\ Inf(i)'.base = Inf(i).base /\ Inf(i).base = Limit(k)
      BY <1>2, <1>9, <2>1, <3>1 DEF InfusionsInv
    <3>. QED
      BY <3>1, <3>2
  <2>6. \A i, j \in DOMAIN infusions : i < j => Limit(i)' <= Inf(j)'.base
    BY <1>2, <1>9 DEF InfusionsInv
  <2>. QED
    BY <1>4, <2>2, <2>3, <2>4, <2>5, <2>6 DEF InfusionsInv
<1>11. PendingInv'
  <2>1. Asked(pending, refStack)
    BY DEF IInv, PendingInv
  <2>2. ASSUME pending.op = "frame"
        PROVE  Len(refStack') > 0 /\ LastOf(refStack') \in Members(infusions)'
    <3>1. Len(refStack) > 0 /\ LastOf(refStack) \in Members(infusions)
      BY <2>1, <2>2 DEF Asked
    <3>2. Len(refStack) \in DOMAIN refStack
      BY <1>3, <3>1
    <3>3. LastOf(refStack') = Updated(LastOf(refStack))
      BY <1>4, <3>2 DEF LastOf
    <3>. QED
      BY <1>4, <1>6, <3>1, <3>3
  <2>. QED
    BY <1>1, <1>4, <2>1, <2>2 DEF PendingInv, Asked
<1>. QED
  BY <1>1, <1>2, <1>8, <1>10, <1>11 DEF IInv

LEMMA CollectKeeps == ASSUME IInv, Collect, UNCHANGED threadVars PROVE IInv'
<1>1. CASE Repointed
  <2>1. UpdateSystem
    BY <1>1 DEF Collect, Repointed, Collecting, Mark, MarkAgain, Shift, UpdateManaged, Move, EndMove
  <2>. QED
    BY <1>1, <2>1, UpdateKeepsRoots
<1>2. CASE ~Repointed
  <2>1. /\ phase' # "run"
        /\ UNCHANGED <<refStack, infusions, stack, pending, current, finished>>
    BY <1>2 DEF Collect, Repointed, Collecting, Mark, MarkAgain, Shift, UpdateManaged, UpdateSystem,
                Move, EndMove, threadVars
  <2>2. \A r \in RootPointers : Linked(r, r, Root(r).infusion)
    BY <1>2, RootsHeld, CollectFollows DEF IInv
  <2>3. Members(infusions)' = Members(infusions)
    BY <2>1 DEF Members
  <2>4. FramesInv' /\ InfusionsInv'
    BY <2>1, <2>2, <2>3, FramesStay, InfusionsStay DEF IInv, RootPointers
  <2>5. HeapInv'
    BY CollectorKeepsHeap DEF IInv
  <2>. QED
    BY <2>1, <2>3, <2>4, <2>5 DEF IInv, PendingInv, Asked
<1>. QED
  BY <1>1, <1>2

-----------------------------------------------------------------------------
\* The theorems.

LEMMA InitSound == Init => IInv
<1>. SUFFICES ASSUME Init PROVE IInv
  OBVIOUS
<1>. DEFINE f == InfusionSize
<1>1. /\ DOMAIN mem = {0, f} /\ f \in Nat \ {0} /\ FrameSize \in Nat \ {0}
      /\ mem[0] = Infusion(f, BaseName, NoRef, JAVA_START) /\ mem[f] = Frame(FrameSize, 0, BaseName)
      /\ left = f + FrameSize /\ phase = "run" /\ loc = 0 /\ refStack = <<>> /\ infusions = <<0>>
      /\ pending = Nothing /\ current \in Threads /\ finished = {}
      /\ stack = [t \in Threads |-> IF t = current THEN <<f>> ELSE <<>>]
  BY InfusionsAssumption DEF Init
<1>2. /\ DOMAIN mem[0] = Fields /\ mem[0].size = f /\ mem[0].id = INFUSION /\ mem[0].name = BaseName
      /\ mem[0].base = JAVA_START /\ mem[0].infusion = NoRef
      /\ DOMAIN mem[f] = Fields /\ mem[f].size = FrameSize /\ mem[f].id = FRAME /\ mem[f].infusion = 0
  BY <1>1 DEF Infusion, Frame, Chunk, Fields
<1>3. Shaped /\ Tiled
  BY <1>1, <1>2 DEF Shaped, Tiled, End
<1>4. HeapInv
  BY <1>1, <1>3 DEF HeapInv
<1>5. Held(0) /\ Root(0) = mem[0] /\ Held(f) /\ Root(f) = mem[f]
  BY <1>1, <1>2, <1>4, IdleHeld DEF Idle, InUse, FREE, FRAME, INFUSION
<1>6. Members(infusions) = {0}
  BY <1>1 DEF Members
<1>7. FramesInv
  <2>1. \A t \in Threads : \A i \in DOMAIN stack[t] : t = current /\ i = 1 /\ stack[t][i] = f
    BY <1>1
  <2>2. stack \in [Threads -> Seq(Int)]
    BY <1>1
  <2>. QED
    BY <1>2, <1>5, <1>6, <2>1, <2>2 DEF FramesInv
<1>8. InfusionsInv
  <2>1. DOMAIN infusions = {1} /\ infusions[1] = 0 /\ infusions \in Seq(Int) /\ infusions # <<>>
    BY <1>1
  <2>2. Inf(1) = mem[0]
    BY <1>5, <2>1 DEF Inf
  <2>. QED
    BY <1>2, <1>5, <1>6, <2>1, <2>2, InfusionsAssumption DEF InfusionsInv, JAVA_START
<1>9. PendingInv
  BY <1>1 DEF PendingInv, Asked, Nothing
<1>. QED
  BY <1>1, <1>4, <1>7, <1>8, <1>9 DEF IInv

LEMMA NextSound == IInv /\ [Next]_vars => IInv'
<1>. SUFFICES ASSUME IInv, [Next]_vars PROVE IInv'
  OBVIOUS
<1>1. ASSUME NEW t \in Threads, Instruction(t) PROVE IInv'
  BY <1>1, OperandsKeep, AllocationKeeps, ReturnKeeps, UnloadKeeps DEF Instruction
<1>2. CASE Resume
  BY <1>2, GotObjectKeeps, GotFrameKeeps, GotInfusionKeeps, GotExceptionKeeps, RefusedKeeps,
     CatchKeeps, UnwindKeeps DEF Resume
<1>3. CASE SCHEDULE
  BY <1>3, ScheduleKeeps
<1>4. CASE Collect /\ UNCHANGED threadVars
  BY <1>4, CollectKeeps
<1>5. CASE UNCHANGED vars
  <2>1. UNCHANGED <<mem, left, phase, loc, shift, refStack, infusions, stack, pending, current, finished>>
    BY <1>5 DEF vars, heapVars
  <2>2. HeapInv'
    BY <2>1
       DEF IInv, HeapInv, Shaped, Tiled, End, ShiftsSet, ShiftOf, FreeMemory, Sliding, Spot, InUse
  <2>3. ASSUME NEW r \in RootPointers PROVE Linked(r, r, Root(r).infusion)
    <3>1. PICK d : d = ChunkOf(r)
      OBVIOUS
    <3>2. HeldAt(r, d) /\ Root(r) = mem[d]
      BY <2>3, <3>1, RootsHeld DEF IInv, Held, Root
    <3>3. HeldAt(r, d)' /\ mem'[d] = mem[d]
      BY <2>1, <3>2 DEF HeldAt, InUse, Spot
    <3>. QED
      BY <2>2, <3>2, <3>3, Follows DEF IInv
  <2>4. Members(infusions)' = Members(infusions)
    BY <2>1 DEF Members
  <2>5. FramesInv' /\ InfusionsInv'
    BY <2>1, <2>3, <2>4, FramesStay, InfusionsStay DEF IInv, RootPointers
  <2>6. PendingInv'
    BY <2>1 DEF IInv, PendingInv, Asked, Members
  <2>. QED
    BY <2>1, <2>2, <2>5, <2>6 DEF IInv
<1>. QED
  BY <1>1, <1>2, <1>3, <1>4, <1>5 DEF Next

LEMMA Invariance == Spec => []IInv
BY InitSound, NextSound, PTL DEF Spec

\* dj_mem_alloc and dj_mem_compact keep the heap in one piece: outside compaction the chunks
\* lie side by side up to left_pointer, after any number of collections of any heap.
THEOREM HeapStaysTiled == Spec => []HeapTiled
<1>1. IInv => HeapTiled
  <2>. SUFFICES ASSUME IInv, phase # "move"
                PROVE  /\ left > 0 => 0 \in DOMAIN mem
                       /\ \A a \in DOMAIN mem :
                            /\ a + mem[a].size \in DOMAIN mem \cup {left}
                            /\ \A b \in DOMAIN mem : a < b => a + mem[a].size <= b
    BY DEF HeapTiled
  <2>1. Shaped /\ Tiled
    BY DEF IInv, HeapInv
  <2>. QED
    BY <2>1, TilesAdjoin DEF Tiled, End
<1>. QED
  BY <1>1, Invariance, PTL

\* dj_vm_addInfusion and dj_vm_unloadInfusion: the runtime ids of the classes of the loaded
\* infusions run on from one infusion to the next, whatever was unloaded, and whatever the
\* collector did to the infusions and to the list of them.
THEOREM RangesStayTiled == Spec => []RangesTile
<1>1. IInv => RangesTile
  <2>. SUFFICES ASSUME IInv, phase = "run", NEW i \in DOMAIN infusions
                PROVE  mem[infusions[i]].base =
                         IF i = 1 THEN JAVA_START
                         ELSE mem[infusions[i - 1]].base + NrClasses[mem[infusions[i - 1]].name]
    BY DEF RangesTile
  <2>1. HeapInv /\ Idle /\ InfusionsInv
    BY DEF IInv, Idle
  <2>2. \A k \in DOMAIN infusions : Inf(k) = mem[infusions[k]]
    BY <2>1, IdleHeld DEF InfusionsInv, Inf
  <2>3. i \in Nat \ {0} /\ (i > 1 => i - 1 \in DOMAIN infusions)
    BY <2>1 DEF InfusionsInv
  <2>. QED
    BY <2>1, <2>2, <2>3 DEF InfusionsInv, Limit
<1>. QED
  BY <1>1, Invariance, PTL

\* dj_vm_unloadInfusion takes no code from under a thread that goes on, nor from under an
\* infusion that stays, and the collector repoints every link to code it moves.
THEOREM CodeStaysLoaded == Spec => []CodeLoaded
<1>1. IInv => CodeLoaded
  <2>. SUFFICES ASSUME IInv, phase = "run"
                PROVE  /\ \A a \in Members(infusions) : mem[a].infusion \in Members(infusions) \cup {NoRef}
                       /\ \A t \in Threads \ finished : \A f \in Members(stack[t]) :
                            mem[f].infusion \in Members(infusions)
    BY DEF CodeLoaded
  <2>1. HeapInv /\ Idle /\ InfusionsInv /\ FramesInv
    BY DEF IInv, Idle
  <2>2. \A k \in DOMAIN infusions : Inf(k) = mem[infusions[k]]
    BY <2>1, IdleHeld DEF InfusionsInv, Inf
  <2>3. \A t \in Threads : \A i \in DOMAIN stack[t] : Root(stack[t][i]) = mem[stack[t][i]]
    BY <2>1, IdleHeld DEF FramesInv
  <2>. QED
    BY <2>1, <2>2, <2>3 DEF InfusionsInv, FramesInv, Members
<1>. QED
  BY <1>1, Invariance, PTL

==============================================================================
