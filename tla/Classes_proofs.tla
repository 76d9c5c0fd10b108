---------------------------- MODULE Classes_proofs ----------------------------
(***************************************************************************)
(* Proofs about Infusions, for any threads, infusions and imports, any sizes *)
(* and any heap: an object stays of its class through collections, loading   *)
(* and unloading, as long as no object is of the first class of an infusion. *)
(***************************************************************************)
EXTENDS Infusions_proofs

-----------------------------------------------------------------------------
\* What is assumed of the classes: those that objects are created of are not the first of
\* their infusion, and the system infusion has the class of the exceptions.
NotFirst == FirstClass \in 1 .. NrClasses[BaseName] - 1

\* A loaded infusion has the id in its range, for that class.
Classed(id, name, class) ==
  \E i \in DOMAIN infusions :
    /\ Inf(i).name = name /\ id = Inf(i).base + class
    /\ class \in FirstClass .. NrClasses[name] - 1

OfClass(id, name, class) ==
  \/ id \in {FREE, REFARRAY}
  \/ id = INVALID /\ name # BaseName
  \/ Classed(id, name, class)

\* Every object in the heap, also one the collector is about to free, and the one that an
\* operation waits for.
ClassInv ==
  /\ \A x \in DOMAIN mem :
       mem[x].kind = "object" => OfClass(mem[x].id, mem[x].name, mem[x].class)
  /\ pending.op \in {"new", "throw"} => OfClass(pending.id, pending.name, pending.class)

\* The infusions at their positions stay what they are.
Listed ==
  \A i \in DOMAIN infusions :
    i \in DOMAIN infusions' /\ Inf(i)'.name = Inf(i).name /\ Inf(i)'.base = Inf(i).base

LEMMA ClassesStay ==
  ASSUME Listed, NEW id, NEW name, NEW class, OfClass(id, name, class)
  PROVE  OfClass(id, name, class)'
<1>1. ASSUME Classed(id, name, class) PROVE Classed(id, name, class)'
  <2>1. PICK i \in DOMAIN infusions :
          /\ Inf(i).name = name /\ id = Inf(i).base + class
          /\ class \in FirstClass .. NrClasses[name] - 1
    BY <1>1 DEF Classed
  <2>2. i \in DOMAIN infusions' /\ Inf(i)'.name = name /\ id = Inf(i)'.base + class
    BY <2>1 DEF Listed
  <2>. QED
    BY <2>1, <2>2 DEF Classed
<1>. QED
  BY <1>1 DEF OfClass

\* The chunk at e is the object that was at d, or one that has just been freed.
SameObject(d, e) ==
  /\ mem'[e].kind = mem[d].kind /\ mem'[e].name = mem[d].name /\ mem'[e].class = mem[d].class
  /\ mem'[e].id \in {mem[d].id, FREE}

\* Where the objects of the next state come from.
Descends(e) ==
  \/ mem'[e].kind # "object"
  \/ \E d \in DOMAIN mem : SameObject(d, e)
  \/ /\ pending.op \in {"new", "throw"}
     /\ mem'[e].id = pending.id /\ mem'[e].name = pending.name /\ mem'[e].class = pending.class

LEMMA ObjectsDescend ==
  ASSUME ClassInv, Listed, \A e \in DOMAIN mem' : Descends(e),
         \/ pending'.op \notin {"new", "throw"}
         \/ pending' = pending
         \/ OfClass(pending'.id, pending'.name, pending'.class)
  PROVE  ClassInv'
<1>1. ASSUME NEW e \in DOMAIN mem', mem'[e].kind = "object"
      PROVE  OfClass(mem[e].id, mem[e].name, mem[e].class)'
  <2>1. PICK id, name, class : id = mem'[e].id /\ name = mem'[e].name /\ class = mem'[e].class
    OBVIOUS
  <2>2. OfClass(id, name, class)
    <3>1. CASE \E d \in DOMAIN mem : SameObject(d, e)
      BY <1>1, <2>1, <3>1 DEF SameObject, ClassInv, OfClass
    <3>2. CASE ~\E d \in DOMAIN mem : SameObject(d, e)
      BY <1>1, <2>1, <3>2 DEF Descends, ClassInv
    <3>. QED
      BY <3>1, <3>2
  <2>3. OfClass(id, name, class)'
    BY <2>2, ClassesStay
  <2>. QED
    BY <2>1, <2>3 DEF OfClass, Classed
<1>2. ASSUME pending'.op \in {"new", "throw"}
      PROVE  OfClass(pending.id, pending.name, pending.class)'
  <2>1. PICK id, name, class : id = pending'.id /\ name = pending'.name /\ class = pending'.class
    OBVIOUS
  <2>2. OfClass(id, name, class)
    BY <1>2, <2>1 DEF ClassInv
  <2>3. OfClass(id, name, class)'
    BY <2>2, ClassesStay
  <2>. QED
    BY <2>1, <2>3 DEF OfClass, Classed
<1>. QED
  BY <1>1, <1>2 DEF ClassInv

-----------------------------------------------------------------------------
\* The machine's own steps.

\* Outside the moves a pointer is the address of its chunk.
InPlace ==
  \A r : phase # "move" /\ Held(r) => r \in DOMAIN mem /\ InUse(r) /\ Root(r) = mem[r]
LEMMA HeldInPlace == InPlace
BY DEF InPlace, Held, HeldAt, Spot, Root
LEMMA HeldInPlaceNext == InPlace'
BY HeldInPlace, PTL

LEMMA ListedInPlace ==
  ASSUME IInv, IInv', phase # "move", phase' # "move",
         \A i \in DOMAIN infusions : i \in DOMAIN infusions' /\ infusions'[i] = infusions[i],
         \A a \in DOMAIN mem : mem[a].id = INFUSION =>
           mem'[a].name = mem[a].name /\ mem'[a].base = mem[a].base
  PROVE  Listed
<1>. SUFFICES ASSUME NEW i \in DOMAIN infusions
              PROVE  /\ i \in DOMAIN infusions'
                     /\ Inf(i)'.name = Inf(i).name /\ Inf(i)'.base = Inf(i).base
  BY DEF Listed
<1>1. PICK r : r = infusions[i]
  OBVIOUS
<1>2. Held(r) /\ Root(r).id = INFUSION /\ Inf(i) = Root(r)
  BY <1>1 DEF IInv, InfusionsInv, Inf
<1>3. i \in DOMAIN infusions' /\ infusions'[i] = r
  BY <1>1
<1>4. Held(r)' /\ Inf(i)' = Root(r)'
  <2>1. Held(infusions[i])' /\ Inf(i)' = Root(infusions[i])'
    BY <1>3 DEF IInv, InfusionsInv, Inf
  <2>. QED
    BY <1>3, <2>1
<1>5. r \in DOMAIN mem /\ Root(r) = mem[r] /\ Root(r)' = mem'[r]
  BY <1>2, <1>4, HeldInPlace, HeldInPlaceNext DEF InPlace
<1>. QED
  BY <1>2, <1>3, <1>4, <1>5

\* m is the heap n, with other references, colors and shifts in it.
SameClasses(m, n) ==
  /\ DOMAIN m = DOMAIN n
  /\ \A a \in DOMAIN n :
       /\ m[a].kind = n[a].kind /\ m[a].name = n[a].name /\ m[a].class = n[a].class
       /\ m[a].id = n[a].id /\ m[a].base = n[a].base

LEMMA SameClassesStored ==
  ASSUME NEW n, NEW m, SameClasses(m, n), NEW x, NEW s
  PROVE  SameClasses([m EXCEPT ![x].refs = s], n)
BY DEF SameClasses

LEMMA SameClassesItself == \A n : SameClasses(n, n)
BY DEF SameClasses

LEMMA SameClassesKeep ==
  ASSUME IInv, IInv', ClassInv, phase # "move", phase' # "move", SameClasses(mem', mem),
         infusions' = infusions,
         \/ pending'.op \notin {"new", "throw"}
         \/ pending' = pending
         \/ OfClass(pending'.id, pending'.name, pending'.class)
  PROVE  ClassInv'
<1>1. Listed
  BY ListedInPlace DEF SameClasses
<1>2. \A e \in DOMAIN mem' : Descends(e)
  BY DEF SameClasses, Descends, SameObject
<1>. QED
  BY <1>1, <1>2, ObjectsDescend

LEMMA OperandsClasses ==
  ASSUME IInv, IInv', ClassInv, NEW t \in Threads,
         GETSTATIC_A(t) \/ PUTSTATIC_A(t) \/ GETFIELD_A(t) \/ PUTFIELD_A(t) \/ POP(t)
  PROVE  ClassInv'
<1>1. /\ phase = "run" /\ phase' = "run" /\ infusions' = infusions /\ pending' = pending
  BY DEF GETSTATIC_A, PUTSTATIC_A, GETFIELD_A, PUTFIELD_A, POP, Running, Do, On
<1>2. SameClasses(mem', mem)
  <2>1. ASSUME NEW m, NEW r, On(r, m) \/ Do(m) PROVE mem' \in {m, mem}
    BY <2>1 DEF On, Do
  <2>2. \A s : SameClasses(WithOperands(t, s), mem)
    BY SameClassesItself, SameClassesStored DEF WithOperands
  <2>3. \A s, x, v : SameClasses([WithOperands(t, s) EXCEPT ![x].refs = v], mem)
    BY <2>2, SameClassesStored
  <2>4. \/ \E s : mem' \in {WithOperands(t, s), mem}
        \/ \E s, x, v : mem' \in {[WithOperands(t, s) EXCEPT ![x].refs = v], mem}
    BY <2>1 DEF GETSTATIC_A, PUTSTATIC_A, GETFIELD_A, PUTFIELD_A, POP
  <2>. QED
    BY <2>2, <2>3, <2>4, SameClassesItself
<1>. QED
  BY <1>1, <1>2, SameClassesKeep

LEMMA AskClasses ==
  ASSUME IInv, IInv', ClassInv, phase \in {"run", "alloc"}, NEW p, NEW saved, Ask(p, saved),
         p.op \in {"new", "throw"} => OfClass(p.id, p.name, p.class)
  PROVE  ClassInv'
<1>1. pending' = p /\ phase' \in {"alloc", "mark"} /\ infusions' = infusions
  BY DEF Ask
<1>2. SameClasses(mem', mem)
  BY SameClassesItself DEF Ask, RootsMarked, SameClasses, IInv, HeapInv, Shaped, Fields
<1>. QED
  BY <1>1, <1>2, SameClassesKeep

LEMMA ThrowClassed ==
  ASSUME NotFirst, IInv, phase # "move" PROVE OfClass(Throw.id, Throw.name, Throw.class)
<1>1. 1 \in DOMAIN infusions /\ Held(infusions[1]) /\ Inf(1).name = BaseName
  BY DEF IInv, InfusionsInv
<1>2. Inf(1) = mem[infusions[1]]
  BY <1>1, HeldInPlace DEF InPlace, Inf
<1>3. FirstClass \in FirstClass .. NrClasses[BaseName] - 1
  BY InfusionsAssumption, HeapAssumption DEF NotFirst
<1>. QED
  BY <1>1, <1>2, <1>3 DEF Throw, OfClass, Classed

LEMMA AllocationClasses ==
  ASSUME NotFirst, IInv, IInv', ClassInv, NEW t \in Threads,
         NEWOBJECT(t) \/ ANEWARRAY(t) \/ INVOKE(t) \/ START(t) \/ THROW(t) \/ LOAD(t)
  PROVE  ClassInv'
<1>0. Running(t) /\ phase = "run"
  BY DEF NEWOBJECT, ANEWARRAY, INVOKE, START, THROW, LOAD, Running
<1>1. CASE NEWOBJECT(t)
  <2>0. PICK a \in Resolved(t) : \E k \in FirstClass .. NrClasses[mem[a].name] - 1 :
          Ask([op |-> "new", size |-> ObjectSize,
               id |-> mem[a].base + k, name |-> mem[a].name, class |-> k], refStack)
    BY <1>1 DEF NEWOBJECT
  <2>1. PICK k \in FirstClass .. NrClasses[mem[a].name] - 1 :
          Ask([op |-> "new", size |-> ObjectSize,
               id |-> mem[a].base + k, name |-> mem[a].name, class |-> k], refStack)
    BY <2>0
  <2>2. PICK i \in DOMAIN infusions : a = infusions[i]
    BY <1>0, ResolvedLoaded DEF Members
  <2>3. Inf(i) = mem[a]
    BY <1>0, <2>2, HeldInPlace DEF InPlace, Inf, IInv, InfusionsInv
  <2>4. OfClass(mem[a].base + k, mem[a].name, k)
    BY <2>3 DEF OfClass, Classed
  <2>. QED
    BY <1>0, <2>1, <2>4, AskClasses
<1>2. CASE ANEWARRAY(t)
  <2>1. OfClass(REFARRAY, NoName, 0)
    BY DEF OfClass
  <2>. QED
    BY <1>0, <1>2, <2>1, AskClasses DEF ANEWARRAY
<1>3. CASE INVOKE(t) \/ START(t)
  BY <1>0, <1>3, AskClasses DEF INVOKE, START, AskFrame
<1>4. CASE THROW(t)
  BY <1>0, <1>4, ThrowClassed, AskClasses DEF THROW
<1>5. CASE LOAD(t)
  BY <1>0, <1>5, AskClasses DEF LOAD
<1>. QED
  BY <1>1, <1>2, <1>3, <1>4, <1>5

LEMMA RefusedClasses ==
  ASSUME NotFirst, IInv, IInv', ClassInv, OutOfMemory \/ Panic PROVE ClassInv'
<1>1. CASE OutOfMemory
  <2>1. phase = "alloc"
    BY <1>1 DEF OutOfMemory, Refused
  <2>. QED
    BY <1>1, <2>1, ThrowClassed, AskClasses DEF OutOfMemory
<1>2. CASE Panic
  BY <1>2, SameClassesItself, SameClassesKeep DEF Panic, Refused
<1>. QED
  BY <1>1, <1>2

\* The new chunk at left_pointer.
LEMMA PlacedClasses ==
  ASSUME IInv, IInv', ClassInv, phase # "move", phase' # "move", NEW c,
         SameClasses(mem', Placed(c)),
         \/ c.kind # "object"
         \/ /\ pending.op \in {"new", "throw"}
            /\ c.id = pending.id /\ c.name = pending.name /\ c.class = pending.class,
         \A i \in DOMAIN infusions : i \in DOMAIN infusions' /\ infusions'[i] = infusions[i],
         pending'.op \notin {"new", "throw"}
  PROVE  ClassInv'
<1>1. left \notin DOMAIN mem
  BY DEF IInv, HeapInv, Shaped, Tiled, End
<1>2. /\ DOMAIN Placed(c) = DOMAIN mem \cup {left} /\ Placed(c)[left] = c
      /\ \A a \in DOMAIN mem : Placed(c)[a] = mem[a]
  BY <1>1 DEF Placed
<1>3. Listed
  BY <1>2, ListedInPlace DEF SameClasses
<1>4. \A e \in DOMAIN mem' : Descends(e)
  BY <1>2 DEF SameClasses, Descends, SameObject
<1>. QED
  BY <1>3, <1>4, ObjectsDescend

LEMMA GotClasses ==
  ASSUME IInv, IInv', ClassInv, GotObject \/ GotFrame \/ GotInfusion \/ GotException
  PROVE  ClassInv'
<1>1. ASSUME NEW l, pending.op \in {"new", "throw"}
      PROVE  LET c == NewObject(l)
             IN  c.id = pending.id /\ c.name = pending.name /\ c.class = pending.class
  BY DEF NewObject, Object, Chunk
<1>2. CASE GotObject
  <2>1. PICK l \in Labels :
          mem' = [Placed(NewObject(l)) EXCEPT ![Top(current)].refs = Append(Operands(current), left)]
    BY <1>2 DEF GotObject
  <2>2. SameClasses(mem', Placed(NewObject(l)))
    BY <2>1, SameClassesItself, SameClassesStored
  <2>3. PICK c : c = NewObject(l)
    OBVIOUS
  <2>4. /\ phase = "alloc" /\ pending.op = "new" /\ phase' = "run" /\ pending' = Nothing
        /\ infusions' = infusions
    BY <1>2 DEF GotObject, Granted
  <2>5. c.id = pending.id /\ c.name = pending.name /\ c.class = pending.class
    BY <1>1, <2>3, <2>4
  <2>. QED
    BY <2>2, <2>3, <2>4, <2>5, PlacedClasses DEF Nothing
<1>3. CASE GotFrame
  <2>1. mem' = Placed(Frame(pending.size, LastOf(refStack), mem[LastOf(refStack)].name))
    BY <1>3 DEF GotFrame
  <2>2. Frame(pending.size, LastOf(refStack), mem[LastOf(refStack)].name).kind = "frame"
    BY DEF Frame, Chunk
  <2>. QED
    BY <1>3, <2>1, <2>2, SameClassesItself, PlacedClasses DEF GotFrame, Granted, Nothing
<1>4. CASE GotInfusion
  <2>0. phase = "alloc" /\ pending.op = "load"
    BY <1>4 DEF GotInfusion, Granted
  <2>1. CASE UNCHANGED <<mem, left, phase, infusions, pending>>
    BY <2>0, <2>1, SameClassesItself, SameClassesKeep
  <2>2. CASE ~UNCHANGED <<mem, left, phase, infusions, pending>>
    <3>1. PICK a : mem' = Placed(Infusion(pending.size, pending.name, a, NextBase))
      BY <1>4, <2>2 DEF GotInfusion
    <3>2. /\ infusions' = Append(infusions, left) /\ phase' = "run" /\ pending' = Nothing
      BY <1>4, <2>2 DEF GotInfusion
    <3>3. \A i \in DOMAIN infusions : i \in DOMAIN infusions' /\ infusions'[i] = infusions[i]
      BY <3>2 DEF IInv, InfusionsInv, HeapInv, Shaped
    <3>4. Infusion(pending.size, pending.name, a, NextBase).kind = "infusion"
      BY DEF Infusion, Chunk
    <3>. QED
      BY <2>0, <3>1, <3>2, <3>3, <3>4, SameClassesItself, PlacedClasses DEF Nothing
  <2>. QED
    BY <2>1, <2>2
<1>5. CASE GotException
  <2>1. PICK l \in Labels : mem' = Placed(NewObject(l))
    BY <1>5 DEF GotException
  <2>2. pending'.op = "unwind"
    BY <1>5 DEF GotException
  <2>. QED
    BY <1>1, <1>5, <2>1, <2>2, SameClassesItself, PlacedClasses DEF GotException, Granted
<1>. QED
  BY <1>2, <1>3, <1>4, <1>5

\* A frame that is freed is not an infusion.
LEMMA PopClasses ==
  ASSUME IInv, IInv', ClassInv, phase \in {"run", "unwind"}, phase' = phase, pending' = pending,
         NEW t \in Threads, stack[t] # <<>>, FramePopped(t), SameClasses(mem', Freed(Top(t)))
  PROVE  ClassInv'
<1>1. PICK f : f = Top(t)
  OBVIOUS
<1>2. Held(f) /\ Root(f).id = FRAME
  <2>1. Len(stack[t]) \in DOMAIN stack[t] /\ f = stack[t][Len(stack[t])]
    BY <1>1 DEF Top, LastOf, IInv, FramesInv
  <2>. QED
    BY <2>1 DEF IInv, FramesInv
<1>3. f \in DOMAIN mem /\ mem[f].id = FRAME
  BY <1>2, HeldInPlace DEF InPlace
<1>4. DOMAIN mem' \subseteq DOMAIN mem /\ \A a \in DOMAIN mem' :
        \/ a = f /\ mem'[a].kind = "frame"
        \/ mem'[a].kind = mem[a].kind /\ mem'[a].id = mem[a].id /\ mem'[a].name = mem[a].name
           /\ mem'[a].class = mem[a].class
  BY <1>1 DEF Freed, SameClasses, FreeChunk, Chunk
<1>5. \A a \in DOMAIN mem : mem[a].id = INFUSION =>
        mem'[a].name = mem[a].name /\ mem'[a].base = mem[a].base
  <2>. SUFFICES ASSUME NEW a \in DOMAIN mem, mem[a].id = INFUSION
                PROVE  mem'[a].name = mem[a].name /\ mem'[a].base = mem[a].base
    OBVIOUS
  <2>1. a # f
    BY <1>3 DEF FRAME, INFUSION
  <2>2. a \in DOMAIN Freed(f) /\ Freed(f)[a] = mem[a]
    BY <2>1 DEF Freed
  <2>. QED
    BY <1>1, <2>2 DEF SameClasses
<1>6. Listed
  BY <1>5, ListedInPlace DEF FramePopped
<1>7. \A e \in DOMAIN mem' : Descends(e)
  BY <1>4 DEF Descends, SameObject
<1>. QED
  BY <1>6, <1>7, ObjectsDescend

LEMMA EndClasses ==
  ASSUME IInv, IInv', ClassInv,
         \/ \E t \in Threads : RETURN(t) \/ ARETURN(t)
         \/ UNWIND \/ CATCH \/ SCHEDULE
  PROVE  ClassInv'
<1>1. ASSUME NEW t \in Threads, RETURN(t) \/ ARETURN(t) PROVE ClassInv'
  <2>1. /\ phase = "run" /\ phase' = phase /\ pending' = pending /\ stack[t] # <<>> /\ FramePopped(t)
    BY <1>1 DEF RETURN, ARETURN, Running
  <2>2. \/ mem' = Freed(Top(t))
        \/ \E x, v : mem' = [Freed(Top(t)) EXCEPT ![x].refs = v]
    BY <1>1 DEF RETURN, ARETURN
  <2>3. SameClasses(mem', Freed(Top(t)))
    BY <2>2, SameClassesItself, SameClassesStored
  <2>. QED
    BY <2>1, <2>3, PopClasses
<1>2. CASE UNWIND
  <2>1. /\ phase = "unwind" /\ phase' = phase /\ pending' = pending /\ stack[current] # <<>>
        /\ FramePopped(current) /\ current \in Threads /\ mem' = Freed(Top(current))
    BY <1>2 DEF UNWIND, Unwinding, IInv
  <2>. QED
    BY <2>1, SameClassesItself, PopClasses
<1>3. CASE CATCH
  <2>1. SameClasses(mem', mem)
    BY <1>3, SameClassesItself, SameClassesStored DEF CATCH, WithOperands
  <2>. QED
    BY <1>3, <2>1, SameClassesKeep DEF CATCH, Unwinding, Nothing
<1>4. CASE SCHEDULE
  BY <1>4, SameClassesItself, SameClassesKeep DEF SCHEDULE
<1>. QED
  BY <1>1, <1>2, <1>3, <1>4

-----------------------------------------------------------------------------
\* Collections.

LEMMA ListedCollecting == ASSUME IInv, IInv', Collect PROVE Listed
<1>. SUFFICES ASSUME NEW i \in DOMAIN infusions
              PROVE  /\ i \in DOMAIN infusions'
                     /\ Inf(i)'.name = Inf(i).name /\ Inf(i)'.base = Inf(i).base
  BY DEF Listed
<1>1. PICK r : r = infusions[i]
  OBVIOUS
<1>2. HeapInv /\ InfusionsInv /\ Held(r) /\ Root(r).id = INFUSION /\ Inf(i) = Root(r)
  BY <1>1 DEF IInv, InfusionsInv, Inf
<1>3. CASE ~Repointed
  <2>1. infusions' = infusions
    BY <1>3 DEF Collect, Repointed, Collecting, Mark, MarkAgain, Shift, UpdateManaged, UpdateSystem,
                Move, EndMove
  <2>2. Root(r)'.name = Root(r).name /\ Root(r)'.base = Root(r).base
    BY <1>2, <1>3, CollectFollows DEF Linked, FollowedTo
  <2>3. infusions'[i] = r
    BY <1>1, <2>1
  <2>. QED
    BY <1>2, <2>1, <2>2, <2>3 DEF Inf
<1>4. CASE Repointed
  <2>1. UpdateSystem
    BY <1>4 DEF Collect, Repointed, Collecting, Mark, MarkAgain, Shift, UpdateManaged, Move, EndMove
  <2>2. infusions' = UpdatedAll(infusions) /\ phase = "system"
    BY <1>4, <2>1 DEF UpdateSystem, Repointed
  <2>3. PICK s : s = Updated(r)
    OBVIOUS
  <2>4. Root(s)'.name = Root(r).name /\ Root(s)'.base = Root(r).base
    BY <1>2, <1>4, <2>1, <2>3, UpdateFollows DEF Linked, FollowedTo
  <2>5. DOMAIN infusions' = DOMAIN infusions /\ infusions'[i] = s
    BY <1>1, <1>2, <2>2, <2>3, UpdatedPointers DEF InfusionsInv
  <2>. QED
    BY <1>2, <2>4, <2>5 DEF Inf
<1>. QED
  BY <1>3, <1>4

LEMMA CollectClasses == ASSUME IInv, IInv', ClassInv, Collect PROVE ClassInv'
<1>0. Listed
  BY ListedCollecting
<1>1. HeapInv /\ Shaped
  BY DEF IInv, HeapInv
<1>2. pending' = pending
  BY DEF Collect, Mark, MarkAgain, Shift, UpdateManaged, UpdateSystem, Move, EndMove
<1>3. ASSUME NEW e \in DOMAIN mem' PROVE Descends(e)
  <2>1. CASE Mark
    <3>1. PICK a : mem' \in {mem, Visited(a)}
      BY <2>1 DEF Mark
    <3>. QED
      BY <1>1, <1>3, <3>1 DEF Visited, Shaped, Fields, Descends, SameObject
  <2>2. CASE MarkAgain
    <3>1. mem' \in {mem, Finalised}
      BY <2>2 DEF MarkAgain
    <3>. QED
      BY <1>1, <1>3, <3>1 DEF Finalised, Shaped, Fields, Descends, SameObject
  <2>3. CASE Shift
    BY <1>1, <1>3, <2>3 DEF Shift, Shaped, Fields, Descends, SameObject
  <2>4. CASE UpdateManaged
    <3>1. mem' \in {mem, ManagedUpdated}
      BY <2>4 DEF UpdateManaged
    <3>. QED
      BY <1>1, <1>3, <3>1 DEF ManagedUpdated, Shaped, Fields, Descends, SameObject
  <2>5. CASE UpdateSystem
    <3>1. mem' \in {mem, SystemUpdated}
      BY <2>5 DEF UpdateSystem
    <3>. QED
      <4>1. CASE mem' = mem
        BY <1>3, <4>1 DEF Descends, SameObject
      <4>2. CASE mem' = SystemUpdated
        <5>1. e \in DOMAIN mem /\ DOMAIN mem[e] = Fields
          BY <1>1, <1>3, <4>2 DEF SystemUpdated, Shaped
        <5>2. SameObject(e, e)
          BY <4>2, <5>1 DEF SystemUpdated, Fields, SameObject
        <5>. QED
          BY <5>1, <5>2 DEF Descends
      <4>. QED
        BY <3>1, <4>1, <4>2
  <2>6. CASE Move
    <3>1. PICK a \in DOMAIN mem :
            NextInUse(a) /\ mem' = MovedTo(a, a - mem[a].shift) /\ loc' = a + mem[a].size
      BY <2>6 DEF Move
    <3>2. PICK to : to = Spot(a)
      OBVIOUS
    <3>3. MovedAlone(a, to)
      BY <1>1, <2>6, <3>1, <3>2, MoveMoves DEF Move, Collecting
    <3>4. CASE e = to
      <4>1. mem'[e] = [mem[a] EXCEPT !.color = "white", !.shift = 0]
        BY <3>3, <3>4 DEF MovedAlone
      <4>2. SameObject(a, e)
        BY <1>1, <3>1, <4>1 DEF Shaped, Fields, SameObject
      <4>. QED
        BY <3>1, <4>2 DEF Descends
    <3>5. CASE e # to
      BY <1>3, <3>3, <3>5 DEF MovedAlone, Descends, SameObject
    <3>. QED
      BY <3>4, <3>5
  <2>7. CASE EndMove
    BY <1>3, <2>7 DEF EndMove, Descends, SameObject
  <2>. QED
    BY <2>1, <2>2, <2>3, <2>4, <2>5, <2>6, <2>7 DEF Collect
<1>. QED
  BY <1>0, <1>2, <1>3, ObjectsDescend

-----------------------------------------------------------------------------
\* Unloading.

\* The infusion at position i goes: the ids of its classes are those from start on.  What
\* becomes of the objects, and where the infusion at position k is afterwards.
UnloadedAt(i, start, range) ==
  /\ start = Inf(i).base /\ range = NrClasses[Inf(i).name]
  /\ start >= JAVA_START /\ Inf(i).name # BaseName
  /\ DOMAIN mem' = DOMAIN mem
  /\ \A x \in DOMAIN mem :
       /\ mem'[x].kind = mem[x].kind /\ mem'[x].name = mem[x].name
       /\ mem'[x].class = mem[x].class
       /\ mem'[x].id = Renumbered(mem[x].id, start, range)
  /\ \A k \in DOMAIN infusions \ {i} :
       /\ Inf(k).base \in Nat /\ NrClasses[Inf(k).name] \in Nat
       /\ k < i => Inf(k).base + NrClasses[Inf(k).name] <= start
       /\ ~(k < i) => start + range <= Inf(k).base
       /\ \E j \in DOMAIN infusions' :
            /\ Inf(j)'.name = Inf(k).name
            /\ Inf(j)'.base = IF k < i THEN Inf(k).base ELSE Inf(k).base - range

LEMMA UnloadedLists ==
  ASSUME IInv, IInv', NEW t \in Threads, UNLOAD(t)
  PROVE  \E i \in DOMAIN infusions, start, range \in Nat : UnloadedAt(i, start, range)
<1>1. PICK i \in DOMAIN infusions :
        /\ SafeToUnload(infusions[i])
        /\ mem' = UnloadedFrom(infusions[i])
        /\ infusions' = Unlinked(infusions, i)
  BY DEF UNLOAD
<1>2. PICK a, n : a = infusions[i] /\ n = Len(infusions)
  OBVIOUS
<1>3. phase = "run" /\ phase' = "run"
  BY DEF UNLOAD, Running
<1>4. /\ Shaped /\ InfusionsInv /\ infusions \in Seq(Int)
      /\ n \in Nat \ {0} /\ DOMAIN infusions = 1 .. n /\ i \in 1 .. n
  BY <1>2 DEF IInv, HeapInv, InfusionsInv
<1>5. ASSUME NEW k \in 1 .. n
      PROVE  /\ infusions[k] \in DOMAIN mem /\ Inf(k) = mem[infusions[k]]
             /\ Inf(k).name \in Names /\ Inf(k).base \in Nat
             /\ NrClasses[Inf(k).name] \in Nat /\ Limit(k) = Inf(k).base + NrClasses[Inf(k).name]
  <2>1. PICK r : r = infusions[k]
    OBVIOUS
  <2>2. Held(r) /\ Root(r) = Inf(k) /\ Inf(k).name \in Names /\ Inf(k).base \in Nat
    BY <1>4, <2>1 DEF InfusionsInv, Inf
  <2>3. r \in DOMAIN mem /\ Root(r) = mem[r]
    BY <1>3, <2>2, HeldInPlace DEF InPlace
  <2>. QED
    BY <2>1, <2>2, <2>3, HeapAssumption DEF Limit
<1>6. PICK start, range : start = Inf(i).base /\ range = NrClasses[Inf(i).name]
  OBVIOUS
<1>7. start \in Nat /\ range \in Nat /\ Limit(i) = start + range /\ Inf(i) = mem[a]
  BY <1>2, <1>4, <1>5, <1>6
<1>8. \A k, l \in 1 .. n : k < l => Limit(k) <= Inf(l).base
  BY <1>4 DEF InfusionsInv
<1>9. Inf(i).name # BaseName
  BY <1>1, <1>2, <1>7 DEF SafeToUnload
<1>10. i > 1 /\ 1 \in 1 .. n
  BY <1>4, <1>9 DEF InfusionsInv
<1>11. start >= JAVA_START
  <2>1. Limit(1) <= start /\ Inf(1).base = JAVA_START
    BY <1>4, <1>6, <1>8, <1>10 DEF InfusionsInv
  <2>. QED
    BY <1>5, <1>7, <1>10, <2>1 DEF JAVA_START
<1>12. DOMAIN mem' = DOMAIN mem /\
       \A x \in DOMAIN mem :
         /\ mem'[x].kind = mem[x].kind /\ mem'[x].name = mem[x].name
         /\ mem'[x].class = mem[x].class
         /\ mem'[x].id = Renumbered(mem[x].id, start, range)
         /\ mem'[x].base = IF x \in Members(infusions) /\ mem[x].base > start
                           THEN mem[x].base - range ELSE mem[x].base
  BY <1>1, <1>2, <1>4, <1>6, <1>7 DEF UnloadedFrom, Shaped, Fields
<1>13. infusions' = [j \in 1 .. n - 1 |-> IF j < i THEN infusions[j] ELSE infusions[j + 1]]
  BY <1>1, <1>2 DEF Unlinked
<1>14. ASSUME NEW k \in 1 .. n, k # i
       PROVE  /\ k < i => Limit(k) <= start
              /\ ~(k < i) => start + range <= Inf(k).base
              /\ \E j \in DOMAIN infusions' :
                   /\ Inf(j)'.name = Inf(k).name
                   /\ Inf(j)'.base = IF k < i THEN Inf(k).base ELSE Inf(k).base - range
  <2>1. PICK r : r = infusions[k]
    OBVIOUS
  <2>2. /\ k < i => Limit(k) <= start
        /\ ~(k < i) => start + range <= Inf(k).base
    BY <1>4, <1>6, <1>7, <1>8, <1>14
  <2>3. PICK j \in 1 .. n - 1 : infusions'[j] = r
    <3>1. CASE k < i
      <4>1. k \in 1 .. n - 1
        BY <1>4, <3>1
      <4>. QED
        BY <1>13, <2>1, <3>1, <4>1
    <3>2. CASE ~(k < i)
      <4>1. k - 1 \in 1 .. n - 1 /\ ~(k - 1 < i) /\ (k - 1) + 1 = k
        BY <1>4, <1>14, <3>2
      <4>. QED
        BY <1>13, <2>1, <4>1
    <3>. QED
      BY <3>1, <3>2
  <2>4. j \in DOMAIN infusions'
    BY <1>13
  <2>5. Inf(j)' = mem'[r]
    <3>1. Held(infusions[j])' /\ Inf(j)' = Root(infusions[j])'
      BY <2>4 DEF IInv, InfusionsInv, Inf
    <3>2. Held(r)' /\ Inf(j)' = Root(r)'
      BY <2>3, <3>1
    <3>. QED
      BY <1>3, <3>2, HeldInPlaceNext DEF InPlace
  <2>6. r \in DOMAIN mem /\ r \in Members(infusions) /\ Inf(k) = mem[r]
    BY <1>4, <1>5, <2>1 DEF Members
  <2>7. mem'[r].base = IF Inf(k).base > start THEN Inf(k).base - range ELSE Inf(k).base
    BY <1>12, <2>6
  <2>8. mem'[r].base = IF k < i THEN Inf(k).base ELSE Inf(k).base - range
    BY <1>5, <1>7, <2>2, <2>7
  <2>. QED
    BY <1>12, <2>2, <2>4, <2>5, <2>6, <2>8
<1>15. UnloadedAt(i, start, range)
  BY <1>4, <1>5, <1>6, <1>9, <1>11, <1>12, <1>14 DEF UnloadedAt
<1>. QED
  BY <1>7, <1>15

\* dj_mem_shiftRuntimeIDs on an object that is not of the first class of its infusion.
LEMMA UnloadClasses ==
  ASSUME NotFirst, IInv, IInv', ClassInv, NEW t \in Threads, UNLOAD(t) PROVE ClassInv'
<1>0. PICK i \in DOMAIN infusions, start, range \in Nat : UnloadedAt(i, start, range)
  BY UnloadedLists
<1>1. /\ start = Inf(i).base /\ range = NrClasses[Inf(i).name]
      /\ start >= JAVA_START /\ Inf(i).name # BaseName
      /\ DOMAIN mem' = DOMAIN mem
      /\ \A x \in DOMAIN mem :
           /\ mem'[x].kind = mem[x].kind /\ mem'[x].name = mem[x].name
           /\ mem'[x].class = mem[x].class
           /\ mem'[x].id = Renumbered(mem[x].id, start, range)
      /\ \A k \in DOMAIN infusions \ {i} :
           /\ Inf(k).base \in Nat /\ NrClasses[Inf(k).name] \in Nat
           /\ k < i => Inf(k).base + NrClasses[Inf(k).name] <= start
           /\ ~(k < i) => start + range <= Inf(k).base
           /\ \E j \in DOMAIN infusions' :
                /\ Inf(j)'.name = Inf(k).name
                /\ Inf(j)'.base = IF k < i THEN Inf(k).base ELSE Inf(k).base - range
  BY <1>0 DEF UnloadedAt
<1>2. start \in Nat /\ range \in Nat /\ FirstClass \in Nat /\ FirstClass >= 1
  BY <1>1, InfusionsAssumption, HeapAssumption DEF NotFirst
<1>3. ASSUME NEW id, NEW name, NEW class, OfClass(id, name, class), NEW to,
             to = Renumbered(id, start, range)
      PROVE  OfClass(to, name, class)'
  <2>1. CASE id \in {FREE, REFARRAY} \/ (id = INVALID /\ name # BaseName)
    <3>1. to = id
      BY <1>1, <1>2, <1>3, <2>1 DEF Renumbered, FREE, REFARRAY, INVALID, JAVA_START
    <3>. QED
      BY <2>1, <3>1 DEF OfClass
  <2>2. CASE Classed(id, name, class)
    <3>1. PICK k \in DOMAIN infusions :
            /\ Inf(k).name = name /\ id = Inf(k).base + class
            /\ class \in FirstClass .. NrClasses[name] - 1
      BY <2>2 DEF Classed
    <3>2. CASE k = i
      <4>1. class \in Int /\ 1 <= class /\ class < range
        BY <1>1, <1>2, <3>1, <3>2
      <4>2. to = INVALID /\ name # BaseName
        BY <1>1, <1>2, <1>3, <3>1, <3>2, <4>1 DEF Renumbered
      <4>. QED
        BY <4>2 DEF OfClass
    <3>3. CASE k # i
      <4>1. PICK j \in DOMAIN infusions' :
              /\ Inf(j)'.name = name
              /\ Inf(j)'.base = IF k < i THEN Inf(k).base ELSE Inf(k).base - range
        BY <1>1, <3>1, <3>3
      <4>2. PICK base, nr : base = Inf(k).base /\ nr = NrClasses[name]
        OBVIOUS
      <4>3. /\ base \in Nat /\ nr \in Nat
            /\ k < i => base + nr <= start
            /\ ~(k < i) => start + range <= base
        BY <1>1, <3>1, <3>3, <4>2
      <4>4. class \in Int /\ 1 <= class /\ class < nr /\ id = base + class
        BY <1>2, <3>1, <4>2, <4>3
      <4>5. to = IF k < i THEN id ELSE id - range
        BY <1>2, <1>3, <4>3, <4>4 DEF Renumbered
      <4>6. to = Inf(j)'.base + class
        BY <1>2, <4>1, <4>2, <4>3, <4>4, <4>5
      <4>7. Classed(to, name, class)'
        BY <3>1, <4>1, <4>6 DEF Classed
      <4>. QED
        BY <4>7 DEF OfClass
    <3>. QED
      BY <3>2, <3>3
  <2>. QED
    BY <1>3, <2>1, <2>2 DEF OfClass
<1>4. ASSUME NEW x \in DOMAIN mem', mem'[x].kind = "object"
      PROVE  OfClass(mem[x].id, mem[x].name, mem[x].class)'
  <2>1. PICK to, name, class : to = mem'[x].id /\ name = mem'[x].name /\ class = mem'[x].class
    OBVIOUS
  <2>2. OfClass(mem[x].id, name, class) /\ to = Renumbered(mem[x].id, start, range)
    BY <1>1, <1>4, <2>1 DEF ClassInv
  <2>3. OfClass(to, name, class)'
    BY <1>3, <2>2
  <2>. QED
    BY <2>1, <2>3 DEF OfClass, Classed
<1>5. pending'.op = "none"
  BY DEF UNLOAD, Running, IInv, PendingInv, Nothing
<1>. QED
  BY <1>4, <1>5 DEF ClassInv

-----------------------------------------------------------------------------
\* The theorem.

LEMMA InitClasses == Init => ClassInv
BY InfusionsAssumption DEF Init, ClassInv, Nothing, Infusion, Frame, Chunk

LEMMA NextClasses == NotFirst /\ IInv /\ IInv' /\ ClassInv /\ [Next]_vars => ClassInv'
<1>. SUFFICES ASSUME NotFirst, IInv, IInv', ClassInv, [Next]_vars PROVE ClassInv'
  OBVIOUS
<1>1. ASSUME NEW t \in Threads, Instruction(t) PROVE ClassInv'
  BY <1>1, OperandsClasses, AllocationClasses, EndClasses, UnloadClasses DEF Instruction
<1>2. CASE Resume
  BY <1>2, GotClasses, RefusedClasses, EndClasses DEF Resume
<1>3. CASE SCHEDULE
  BY <1>3, EndClasses
<1>4. CASE Collect /\ UNCHANGED threadVars
  BY <1>4, CollectClasses
<1>5. CASE UNCHANGED vars
  <2>1. UNCHANGED <<mem, phase, loc, infusions, pending>>
    BY <1>5 DEF vars, heapVars
  <2>. QED
    BY <2>1 DEF ClassInv, OfClass, Classed, Inf, Root, ChunkOf, InUse, Spot
<1>. QED
  BY <1>1, <1>2, <1>3, <1>4, <1>5 DEF Next

\* An object has the runtime id of the class it was created of, or, once its infusion is
\* unloaded, the invalid one: whatever dj_mem_shiftRuntimeIDs renumbers, dj_mem_compact moves
\* and dj_vm_addInfusion gives out again.  Objects of the first class of an infusion are the
\* exception.
THEOREM ClassesStayKept == ASSUME NotFirst PROVE Spec => []ClassKept
<1>1. IInv /\ ClassInv => ClassKept
  <2>. SUFFICES ASSUME IInv, ClassInv, phase = "run", NEW x \in DOMAIN mem, mem[x].kind = "object",
                       mem[x].id \notin {FREE, REFARRAY}
                PROVE  \/ mem[x].id = INVALID /\ mem[x].name # BaseName
                       \/ \E a \in Members(infusions) :
                            mem[a].name = mem[x].name /\ mem[x].id = mem[a].base + mem[x].class
    BY DEF ClassKept
  <2>1. CASE Classed(mem[x].id, mem[x].name, mem[x].class)
    <3>1. PICK i \in DOMAIN infusions :
            Inf(i).name = mem[x].name /\ mem[x].id = Inf(i).base + mem[x].class
      BY <2>1 DEF Classed
    <3>2. Held(infusions[i]) /\ infusions[i] \in Members(infusions)
      BY DEF IInv, InfusionsInv, Members
    <3>3. Inf(i) = mem[infusions[i]]
      BY <3>2, HeldInPlace DEF InPlace, Inf
    <3>. QED
      BY <3>1, <3>2, <3>3
  <2>. QED
    BY <2>1 DEF ClassInv, OfClass
<1>2. IInv /\ IInv' /\ ClassInv /\ [Next]_vars => ClassInv'
  BY NextClasses
<1>. QED
  BY <1>1, <1>2, InitSound, NextSound, InitClasses, PTL DEF Spec

=============================================================================
