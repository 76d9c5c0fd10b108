---------------------------- MODULE Collector_proofs --------------------------
(***************************************************************************)
(* Proofs about Infusions, for any threads, infusions and imports, any sizes *)
(* and any heap: the collector always gets to its end, frees all that cannot *)
(* be reached, and nothing it does can be seen by the program.               *)
(***************************************************************************)
EXTENDS References_proofs

-----------------------------------------------------------------------------
\* The collector finds what it looks up.

\* The frames of a thread that is not ended still know the infusion they were created in.
NamesInv ==
  \A t \in Threads \ finished : \A i \in DOMAIN stack[t] :
    Root(stack[t][i]).name = Root(Root(stack[t][i]).infusion).name

\* A frame that was there before, or a new one.
OldFrame(t, i) == t \notin finished /\ i \in DOMAIN stack[t] /\ stack'[t][i] = stack[t][i]
NamedFrame(f) == mem'[f].name = mem'[mem'[f].infusion].name
LEMMA NamesStay ==
  ASSUME IInv, IInv', NamesInv, phase # "move", phase' # "move",
         \A t \in Threads \ finished' : \A i \in DOMAIN stack'[t] :
           \/ OldFrame(t, i)
           \/ NamedFrame(stack'[t][i]),
         \A a \in RootPointers : a \in RootPointers' =>
           mem'[a].name = mem[a].name /\ mem'[a].infusion = mem[a].infusion
  PROVE  NamesInv'
<1>1. ASSUME NEW t \in Threads \ finished', NEW i \in DOMAIN stack'[t], NEW f, f = stack'[t][i]
      PROVE  Root(f)'.name = Root(Root(f).infusion)'.name
  <2>1. PICK link : link = mem'[f].infusion
    OBVIOUS
  <2>2. Held(f)' /\ Root(f)'.infusion \in Members(infusions)'
    BY <1>1 DEF IInv, FramesInv
  <2>3. Root(f)' = mem'[f]
    BY <2>2, HeldInPlaceNext DEF InPlace
  <2>4. link \in Members(infusions)'
    BY <2>1, <2>2, <2>3
  <2>5. Held(link)'
    BY <2>4 DEF IInv, InfusionsInv, Members
  <2>6. Root(link)' = mem'[link]
    BY <2>5, HeldInPlaceNext DEF InPlace
  <2>7. mem'[f].name = mem'[link].name
    <3>1. CASE NamedFrame(f)
      BY <2>1, <3>1 DEF NamedFrame
    <3>2. CASE OldFrame(t, i)
      <4>1. /\ f \in RootPointers /\ Held(f) /\ Root(f).infusion \in Members(infusions)
            /\ Root(f).name = Root(Root(f).infusion).name
        BY <1>1, <3>2, RootsAre DEF OldFrame, IInv, FramesInv, NamesInv
      <4>2. Root(f) = mem[f]
        BY <4>1, HeldInPlace DEF InPlace
      <4>3. f \in RootPointers'
        BY <1>1 DEF RootPointers, Frames, Members
      <4>4. mem'[f].name = mem[f].name /\ mem[f].infusion = link
        BY <2>1, <4>1, <4>3
      <4>5. link \in RootPointers /\ link \in RootPointers' /\ Held(link)
        BY <2>4, <4>1, <4>2, <4>4 DEF RootPointers, IInv, InfusionsInv, Members
      <4>6. Root(link) = mem[link]
        BY <4>5, HeldInPlace DEF InPlace
      <4>. QED
        BY <4>1, <4>2, <4>4, <4>5, <4>6
    <3>. QED
      BY <1>1, <3>1, <3>2
  <2>8. Root(Root(f).infusion)' = Root(link)'
    BY <2>1, <2>3
  <2>. QED
    BY <2>3, <2>6, <2>7, <2>8
<1>2. ASSUME NEW t \in Threads \ finished', NEW i \in DOMAIN stack'[t]
      PROVE  Root(stack[t][i])'.name = Root(Root(stack[t][i]).infusion)'.name
  <2>1. PICK f : f = stack'[t][i]
    OBVIOUS
  <2>2. Root(f)'.name = Root(Root(f).infusion)'.name
    BY <1>1, <2>1
  <2>. QED
    BY <2>1, <2>2
<1>. QED
  BY <1>2 DEF NamesInv

\* The frames, and what they and the infusions are called, stay.
NamesSame(m) ==
  \A a \in DOMAIN mem : m[a].name = mem[a].name /\ m[a].infusion = mem[a].infusion
LEMMA SameNamesStay ==
  ASSUME IInv, IInv', NamesInv, phase # "move", phase' # "move", NamesSame(mem'),
         stack' = stack, finished' = finished
  PROVE  NamesInv'
<1>1. \A t \in Threads \ finished' : \A i \in DOMAIN stack'[t] : OldFrame(t, i)
  BY DEF OldFrame
<1>2. \A a \in RootPointers : a \in DOMAIN mem
  BY RootsInPlace
<1>. QED
  BY <1>1, <1>2, NamesStay DEF NamesSame

LEMMA SameButRefsNames == ASSUME SameButRefs(mem', mem) PROVE NamesSame(mem')
BY DEF SameButRefs, NamesSame

LEMMA AskNames ==
  ASSUME IInv, IInv', NamesInv, phase \in {"run", "alloc"}, NEW p, NEW saved, Ask(p, saved),
         UNCHANGED threadVars
  PROVE  NamesInv'
<1>1. /\ phase' \in {"alloc", "mark"} /\ stack' = stack /\ finished' = finished
      /\ mem' = mem \/ mem' = RootsMarked(saved)
  BY DEF Ask, threadVars
<1>2. \A a \in DOMAIN mem : DOMAIN mem[a] = Fields
  BY DEF IInv, HeapInv, Shaped
<1>3. NamesSame(mem')
  BY <1>1, <1>2 DEF RootsMarked, NamesSame, Fields
<1>. QED
  BY <1>1, <1>3, SameNamesStay

LEMMA InstructionNames ==
  ASSUME IInv, IInv', NamesInv, NEW t \in Threads,
         \/ GETSTATIC_A(t) \/ PUTSTATIC_A(t) \/ GETFIELD_A(t) \/ PUTFIELD_A(t) \/ POP(t)
         \/ NEWOBJECT(t) \/ ANEWARRAY(t) \/ INVOKE(t) \/ START(t) \/ THROW(t) \/ LOAD(t)
  PROVE  NamesInv'
<1>1. ASSUME NEW p, NEW saved, Ask(p, saved), phase = "run", UNCHANGED threadVars PROVE NamesInv'
  BY <1>1, AskNames
<1>2. ASSUME NEW m, Do(m), SameButRefs(m, mem), phase = "run" PROVE NamesInv'
  BY <1>2, SameButRefsNames, SameNamesStay DEF Do, threadVars
<1>3. ASSUME NEW r, NEW m, On(r, m), SameButRefs(m, mem), phase = "run" PROVE NamesInv'
  BY <1>2, <1>3, NothingStored, SameButRefsNames, SameNamesStay DEF On, threadVars
<1>4. CASE NEWOBJECT(t) \/ ANEWARRAY(t) \/ INVOKE(t) \/ START(t) \/ THROW(t) \/ LOAD(t)
  BY <1>1, <1>4 DEF NEWOBJECT, ANEWARRAY, INVOKE, START, THROW, LOAD, AskFrame, Running
<1>5. CASE GETSTATIC_A(t) \/ PUTSTATIC_A(t) \/ GETFIELD_A(t) \/ PUTFIELD_A(t) \/ POP(t)
  <2>1. phase = "run"
    BY <1>5 DEF GETSTATIC_A, PUTSTATIC_A, GETFIELD_A, PUTFIELD_A, POP, Running
  <2>2. \A s : SameButRefs(WithOperands(t, s), mem)
    BY OperandsStored
  <2>3. \A s, x, v : SameButRefs([WithOperands(t, s) EXCEPT ![x].refs = v], mem)
    BY <2>2, RefsStored
  <2>. QED
    BY <1>2, <1>3, <1>5, <2>1, <2>2, <2>3
       DEF GETSTATIC_A, PUTSTATIC_A, GETFIELD_A, PUTFIELD_A, POP
<1>. QED
  BY <1>4, <1>5

LEMMA ResumeNames ==
  ASSUME IInv, IInv', NamesInv,
         GotObject \/ GotFrame \/ GotInfusion \/ GotException \/ OutOfMemory \/ Panic \/ CATCH
  PROVE  NamesInv'
<1>1. left \notin DOMAIN mem \/ phase = "move"
  <2>1. phase # "move" => \A a \in DOMAIN mem : a \in Nat /\ mem[a].size \in Nat \ {0} /\ a + mem[a].size <= left
    BY DEF IInv, HeapInv, Shaped, Tiled, End
  <2>. QED
    BY <2>1 DEF IInv, HeapInv, Shaped
<1>2. ASSUME NEW c, SameButRefs(mem', Placed(c)), phase = "alloc" PROVE NamesSame(mem')
  BY <1>1, <1>2 DEF SameButRefs, NamesSame, Placed
<1>3. CASE GotObject
  <2>1. PICK l \in Labels :
          mem' = [Placed(NewObject(l)) EXCEPT ![Top(current)].refs = Append(Operands(current), left)]
    BY <1>3 DEF GotObject
  <2>2. SameButRefs(mem', Placed(NewObject(l)))
    BY <2>1, NothingStored, RefsStored
  <2>3. phase = "alloc" /\ phase' = "run" /\ stack' = stack /\ finished' = finished
    BY <1>3 DEF GotObject, Granted
  <2>. QED
    BY <1>2, <2>2, <2>3, SameNamesStay
<1>4. CASE GotFrame
  <2>1. PICK c, u, link : /\ c = Frame(pending.size, link, mem[link].name)
                          /\ u = pending.thread /\ link = LastOf(refStack)
    OBVIOUS
  <2>2. /\ phase = "alloc" /\ phase' = "run" /\ finished' = finished /\ mem' = Placed(c)
        /\ stack' = [stack EXCEPT ![u] = Append(stack[u], left)] /\ pending.op = "frame"
    BY <1>4, <2>1 DEF GotFrame, Granted
  <2>3. u \in Threads /\ stack \in [Threads -> Seq(Int)] /\ link \in Members(infusions)
    BY <2>1, <2>2 DEF IInv, PendingInv, Asked, FramesInv
  <2>4. left \notin DOMAIN mem /\ link \in DOMAIN mem /\ left \in Nat
    <3>1. link \in RootPointers
      BY <2>3 DEF RootPointers
    <3>. QED
      BY <1>1, <2>2, <3>1, RootsInPlace DEF IInv, HeapInv, Shaped
  <2>5. NamesSame(mem')
    BY <1>2, <2>2, NothingStored
  <2>6. NamedFrame(left)
    <3>1. mem'[left] = c /\ mem'[link] = mem[link]
      BY <2>2, <2>4 DEF Placed
    <3>2. c.name = mem[link].name /\ c.infusion = link
      BY <2>1 DEF Frame, Chunk
    <3>. QED
      BY <3>1, <3>2 DEF NamedFrame
  <2>7. ASSUME NEW t \in Threads \ finished', NEW i \in DOMAIN stack'[t]
        PROVE  OldFrame(t, i) \/ stack'[t][i] = left
    BY <2>2, <2>3, <2>4, <2>7 DEF OldFrame
  <2>8. \A a \in RootPointers : a \in DOMAIN mem
    BY <2>2, RootsInPlace
  <2>. QED
    BY <2>2, <2>5, <2>6, <2>7, <2>8, NamesStay DEF NamesSame
<1>5. CASE GotInfusion
  <2>1. phase = "alloc" /\ phase' # "move" /\ stack' = stack /\ finished' = finished
    BY <1>5 DEF GotInfusion, Granted
  <2>2. mem' = mem \/ \E c : mem' = Placed(c)
    BY <1>5 DEF GotInfusion
  <2>3. NamesSame(mem')
    BY <1>2, <2>1, <2>2, NothingStored, SameButRefsNames
  <2>. QED
    BY <2>1, <2>3, SameNamesStay
<1>6. CASE GotException
  <2>1. PICK c : mem' = Placed(c)
    BY <1>6 DEF GotException
  <2>2. phase = "alloc" /\ phase' = "unwind" /\ stack' = stack /\ finished' = finished
    BY <1>6 DEF GotException, Granted
  <2>. QED
    BY <1>2, <2>1, <2>2, NothingStored, SameNamesStay
<1>7. CASE OutOfMemory
  BY <1>7, AskNames DEF OutOfMemory, Refused
<1>8. CASE Panic
  BY <1>8, NothingStored, SameButRefsNames, SameNamesStay DEF Panic, Refused, threadVars
<1>9. CASE CATCH
  <2>1. SameButRefs(mem', mem)
    BY <1>9, OperandsStored DEF CATCH
  <2>. QED
    BY <1>9, <2>1, SameButRefsNames, SameNamesStay DEF CATCH, Unwinding
<1>. QED
  BY <1>3, <1>4, <1>5, <1>6, <1>7, <1>8, <1>9

LEMMA PopNames ==
  ASSUME IInv, IInv', NamesInv, phase \in {"run", "unwind"}, phase' = phase,
         NEW t \in Threads, stack[t] # <<>>, FramePopped(t), NEW f, SameButRefs(mem', Freed(f))
  PROVE  NamesInv'
<1>1. stack' = [stack EXCEPT ![t] = Without(stack[t], 1)] /\ finished \subseteq finished'
  BY DEF FramePopped
<1>2. \A u \in Threads \ finished' : \A i \in DOMAIN stack'[u] : OldFrame(u, i)
  <2>1. stack \in [Threads -> Seq(Int)]
    BY DEF IInv, FramesInv
  <2>2. \A i \in DOMAIN Without(stack[t], 1) : i \in DOMAIN stack[t] /\ Without(stack[t], 1)[i] = stack[t][i]
    BY <2>1 DEF Without
  <2>. QED
    BY <1>1, <2>1, <2>2 DEF OldFrame
<1>3. ASSUME NEW a \in RootPointers, a \in RootPointers'
      PROVE  mem'[a].name = mem[a].name /\ mem'[a].infusion = mem[a].infusion
  <2>1. a \in DOMAIN mem /\ a \in DOMAIN mem' /\ mem'[a].id # FREE
    BY <1>3, RootsInPlace, RootPlacesNext DEF RootPlaces, InUse
  <2>2. Freed(f)[a].id # FREE /\ a \in DOMAIN Freed(f)
    BY <2>1 DEF SameButRefs
  <2>3. Freed(f)[a] = mem[a]
    BY <2>1, <2>2 DEF Freed, FreeChunk, Chunk
  <2>. QED
    BY <2>2, <2>3 DEF SameButRefs
<1>. QED
  BY <1>2, <1>3, NamesStay

LEMMA EndNames ==
  ASSUME IInv, IInv', NamesInv,
         \/ \E t \in Threads : RETURN(t) \/ ARETURN(t) \/ UNLOAD(t)
         \/ UNWIND \/ SCHEDULE
  PROVE  NamesInv'
<1>1. ASSUME NEW t \in Threads, RETURN(t) \/ ARETURN(t) PROVE NamesInv'
  <2>1. phase = "run" /\ phase' = phase /\ stack[t] # <<>> /\ FramePopped(t)
    BY <1>1 DEF RETURN, ARETURN, Running
  <2>2. \/ mem' = Freed(Top(t))
        \/ \E x, v : mem' = [Freed(Top(t)) EXCEPT ![x].refs = v]
    BY <1>1 DEF RETURN, ARETURN
  <2>3. SameButRefs(mem', Freed(Top(t)))
    BY <2>2, NothingStored, RefsStored
  <2>. QED
    BY <2>1, <2>3, PopNames
<1>2. CASE UNWIND
  <2>1. /\ phase = "unwind" /\ phase' = phase /\ stack[current] # <<>> /\ FramePopped(current)
        /\ current \in Threads /\ mem' = Freed(Top(current))
    BY <1>2 DEF UNWIND, Unwinding, IInv
  <2>. QED
    BY <2>1, NothingStored, PopNames
<1>3. CASE SCHEDULE
  <2>1. /\ phase = "run" /\ phase' = phase /\ mem' = mem
        /\ stack' = [t \in Threads |-> IF t \in finished THEN <<>> ELSE stack[t]]
    BY <1>3 DEF SCHEDULE
  <2>2. \A t \in Threads \ finished' : \A i \in DOMAIN stack'[t] : OldFrame(t, i)
    BY <2>1 DEF OldFrame
  <2>. QED
    BY <2>1, <2>2, NamesStay
<1>4. ASSUME NEW t \in Threads, UNLOAD(t) PROVE NamesInv'
  <2>1. PICK i \in DOMAIN infusions :
          /\ finished' = finished \cup {u \in Threads : Executes(u, infusions[i])}
          /\ mem' = UnloadedFrom(infusions[i])
    BY <1>4 DEF UNLOAD
  <2>2. phase = "run" /\ phase' = phase /\ stack' = stack
    BY <1>4 DEF UNLOAD, Running
  <2>3. \A u \in Threads \ finished' : \A j \in DOMAIN stack'[u] : OldFrame(u, j)
    BY <2>1, <2>2 DEF OldFrame
  <2>4. \A a \in DOMAIN mem : DOMAIN mem[a] = Fields
    BY DEF IInv, HeapInv, Shaped
  <2>5. NamesSame(mem')
    BY <2>1, <2>4 DEF UnloadedFrom, NamesSame, Fields
  <2>6. \A a \in RootPointers : a \in DOMAIN mem
    BY <2>2, RootsInPlace
  <2>. QED
    BY <2>2, <2>3, <2>5, <2>6, NamesStay DEF NamesSame
<1>. QED
  BY <1>1, <1>2, <1>3, <1>4

LEMMA CollectNames ==
  ASSUME IInv, IInv', NamesInv, Collect, UNCHANGED threadVars PROVE NamesInv'
<1>1. finished' = finished
  BY DEF threadVars
<1>2. ASSUME NEW t \in Threads \ finished, NEW i \in DOMAIN stack[t], NEW f, f = stack[t][i]
      PROVE  /\ Held(f) /\ Root(f).id = FRAME /\ f \in RootPointers
             /\ Root(f).infusion \in Members(infusions) /\ Held(Root(f).infusion)
             /\ Root(Root(f).infusion).id = INFUSION /\ Root(f).name = Root(Root(f).infusion).name
  <2>1. /\ Held(f) /\ Root(f).id = FRAME /\ f \in RootPointers
        /\ Root(f).infusion \in Members(infusions) /\ Root(f).name = Root(Root(f).infusion).name
    BY <1>2, RootsAre DEF IInv, FramesInv, NamesInv
  <2>2. PICK j \in DOMAIN infusions : Root(f).infusion = infusions[j]
    BY <2>1 DEF Members
  <2>. QED
    BY <2>1, <2>2 DEF IInv, InfusionsInv, Inf
<1>3. CASE ~Repointed
  <2>1. UNCHANGED <<infusions, stack>>
    BY <1>3 DEF Collect, Repointed, Collecting, Mark, MarkAgain, Shift, UpdateManaged, UpdateSystem,
                Move, EndMove
  <2>2. ASSUME NEW t \in Threads \ finished, NEW i \in DOMAIN stack[t], NEW f, f = stack[t][i]
        PROVE  Root(f)'.name = Root(Root(f).infusion)'.name
    <3>1. PICK link : link = Root(f).infusion
      OBVIOUS
    <3>2. Held(f) /\ Held(link) /\ Root(f).name = Root(link).name
      BY <1>2, <2>2, <3>1
    <3>3. Linked(f, f, Root(f).infusion) /\ Linked(link, link, Root(link).infusion)
      BY <1>3, <3>2, CollectFollows DEF IInv
    <3>4. Root(f)'.name = Root(link)'.name /\ Root(f)'.infusion = link
      BY <3>1, <3>2, <3>3 DEF Linked, FollowedTo
    <3>5. Root(Root(f).infusion)' = Root(link)'
      BY <3>4
    <3>. QED
      BY <3>4, <3>5
  <2>3. \A t \in Threads \ finished : \A i \in DOMAIN stack[t] :
          Root(stack[t][i])'.name = Root(Root(stack[t][i]).infusion)'.name
    <3>. SUFFICES ASSUME NEW t \in Threads \ finished, NEW i \in DOMAIN stack[t]
                  PROVE  Root(stack[t][i])'.name = Root(Root(stack[t][i]).infusion)'.name
      OBVIOUS
    <3>1. PICK f : f = stack[t][i]
      OBVIOUS
    <3>2. Root(f)'.name = Root(Root(f).infusion)'.name
      BY <2>2, <3>1
    <3>3. stack'[t][i] = f
      BY <2>1, <3>1
    <3>. QED
      BY <3>2, <3>3
  <2>. QED
    BY <1>1, <2>1, <2>3 DEF NamesInv
<1>4. CASE Repointed
  <2>1. UpdateSystem /\ phase = "system" /\ phase' = "move"
    BY <1>4 DEF Collect, Repointed, Collecting, Mark, MarkAgain, Shift, UpdateManaged, Move, EndMove
  <2>2. stack' = [t \in Threads |-> UpdatedAll(stack[t])]
    BY <2>1 DEF UpdateSystem
  <2>3. \A t \in Threads : /\ DOMAIN stack'[t] = DOMAIN stack[t]
                           /\ \A i \in DOMAIN stack[t] : stack'[t][i] = Updated(stack[t][i])
    BY <2>2 DEF UpdatedAll
  <2>4. ASSUME NEW t \in Threads \ finished, NEW i \in DOMAIN stack[t]
        PROVE  Root(stack[t][i])'.name = Root(Root(stack[t][i]).infusion)'.name
    <3>1. PICK f, link : f = stack[t][i] /\ link = Root(f).infusion
      OBVIOUS
    <3>2. /\ Held(f) /\ Root(f).id = FRAME /\ Held(link) /\ Root(link).id = INFUSION
          /\ Root(f).name = Root(link).name
      BY <1>2, <3>1
    <3>3. PICK g, to : g = Updated(f) /\ to = Updated(link)
      OBVIOUS
    <3>4. Linked(f, g, Updated(Root(f).infusion)) /\ Linked(link, to, Updated(Root(link).infusion))
      BY <1>4, <2>1, <3>2, <3>3, UpdateFollows DEF IInv
    <3>5. Root(g)'.name = Root(to)'.name /\ Root(g)'.infusion = to
      BY <3>1, <3>2, <3>3, <3>4 DEF Linked, FollowedTo
    <3>6. Root(Root(g).infusion)' = Root(to)'
      BY <3>5
    <3>7. stack'[t][i] = g
      BY <2>3, <3>1, <3>3
    <3>. QED
      BY <3>5, <3>6, <3>7
  <2>. QED
    BY <1>1, <2>3, <2>4 DEF NamesInv
<1>. QED
  BY <1>3, <1>4

LEMMA InitNames == Init => NamesInv
<1>. SUFFICES ASSUME Init, NEW t \in Threads, NEW i \in DOMAIN stack[t]
              PROVE  Root(stack[t][i]).name = Root(Root(stack[t][i]).infusion).name
  BY DEF NamesInv
<1>1. /\ phase = "run" /\ infusions = <<0>> /\ IInv
      /\ stack = [u \in Threads |-> IF u = current THEN <<InfusionSize>> ELSE <<>>]
      /\ mem[0] = Infusion(InfusionSize, BaseName, NoRef, JAVA_START)
      /\ mem[InfusionSize] = Frame(FrameSize, 0, BaseName)
  BY InitSound, InfusionsAssumption DEF Init
<1>2. stack[t][i] = InfusionSize /\ InfusionSize \in RootPointers /\ 0 \in RootPointers
  <2>1. stack[t][i] = InfusionSize
    BY <1>1
  <2>2. infusions[1] = 0 /\ 1 \in DOMAIN infusions
    BY <1>1
  <2>. QED
    BY <2>1, <2>2, RootsAre
<1>3. Root(InfusionSize) = mem[InfusionSize] /\ Root(0) = mem[0]
  BY <1>1, <1>2, RootsInPlace
<1>. QED
  BY <1>1, <1>2, <1>3 DEF Infusion, Frame, Chunk

LEMMA NextNames == IInv /\ IInv' /\ NamesInv /\ [Next]_vars => NamesInv'
<1>. SUFFICES ASSUME IInv, IInv', NamesInv, [Next]_vars PROVE NamesInv'
  OBVIOUS
<1>1. ASSUME NEW t \in Threads, Instruction(t) PROVE NamesInv'
  BY <1>1, InstructionNames, EndNames DEF Instruction
<1>2. CASE Resume
  BY <1>2, ResumeNames, EndNames DEF Resume
<1>3. CASE SCHEDULE
  BY <1>3, EndNames
<1>4. CASE Collect /\ UNCHANGED threadVars
  BY <1>4, CollectNames
<1>5. CASE UNCHANGED vars
  <2>1. UNCHANGED <<mem, phase, loc, stack, finished>>
    BY <1>5 DEF vars, heapVars
  <2>. QED
    <3>1. \A a : ChunkOf(a)' = ChunkOf(a)
      BY <2>1 DEF ChunkOf, InUse, Spot
    <3>2. \A a : Root(a)' = Root(a)
      BY <2>1, <3>1 DEF Root
    <3>3. ASSUME NEW t \in Threads \ finished, NEW i \in DOMAIN stack[t]
          PROVE  Root(stack[t][i])'.name = Root(Root(stack[t][i]).infusion)'.name
      <4>1. PICK f, link : f = stack[t][i] /\ link = Root(f).infusion
        OBVIOUS
      <4>2. Root(f).name = Root(link).name
        BY <4>1 DEF NamesInv
      <4>3. Root(f)'.name = Root(link)'.name /\ Root(f)'.infusion = link
        BY <3>2, <4>1, <4>2
      <4>4. Root(Root(f).infusion)' = Root(link)'
        BY <4>3
      <4>5. stack'[t][i] = f
        BY <2>1, <4>1
      <4>. QED
        BY <4>3, <4>4, <4>5
    <3>. QED
      BY <2>1, <3>3 DEF NamesInv
<1>. QED
  BY <1>1, <1>2, <1>3, <1>4, <1>5 DEF Next

\* Every Java object in the heap, also one that is about to be freed, is of a loaded class.
LEMMA NoneMissing ==
  ASSUME NotFirst, IInv, RInv, ClassInv, phase # "move", NEW a \in DOMAIN mem
  PROVE  ~ClassMissing(mem[a])
<1>. SUFFICES ASSUME IsJava(mem[a]) PROVE ClassFound(mem[a].id)
  BY DEF ClassMissing
<1>1. WellFormed(mem[a])
  BY DEF RInv, ChunksInv, AllFormed
<1>2. mem[a].kind = "object"
  BY <1>1 DEF WellFormed, ChunkType, IsJava, FREE, FRAME, INFUSION, JAVA_START
<1>3. Classed(mem[a].id, mem[a].name, mem[a].class)
  BY <1>2 DEF ClassInv, OfClass, IsJava, FREE, INVALID, REFARRAY, JAVA_START
<1>4. PICK i \in DOMAIN infusions :
        /\ Inf(i).name = mem[a].name /\ mem[a].id = Inf(i).base + mem[a].class
        /\ mem[a].class \in FirstClass .. NrClasses[mem[a].name] - 1
  BY <1>3 DEF Classed
<1>5. PICK b : b = infusions[i]
  OBVIOUS
<1>6. Held(b) /\ Root(b) = Inf(i) /\ b \in Members(infusions)
  BY <1>5 DEF IInv, InfusionsInv, Inf, Members
<1>7. mem[b] = Inf(i)
  BY <1>6, HeldInPlace DEF InPlace
<1>8. mem[b].base \in Nat /\ NrClasses[mem[b].name] \in Nat /\ FirstClass \in Nat
  BY <1>6, ListedBases, InfusionsAssumption
<1>9. InRange(b, mem[a].id)
  BY <1>4, <1>7, <1>8 DEF InRange
<1>. QED
  BY <1>6, <1>9 DEF ClassFound

LEMMA NextGoes ==
  NotFirst /\ IInv /\ RInv /\ ClassInv /\ halted # "class" /\ [Next]_vars => halted' # "class"
<1>. SUFFICES ASSUME NotFirst, IInv, RInv, ClassInv, halted # "class", [Next]_vars
              PROVE  halted' # "class"
  OBVIOUS
<1>1. ASSUME NEW t \in Threads, Instruction(t) PROVE halted' # "class"
  <2>1. ASSUME NEW r, NEW m, On(r, m), Usable(r), Running(t), r \in DOMAIN mem
        PROVE  halted' = halted
    BY <2>1, NoneMissing DEF On, Do, Running
  <2>2. CASE GETFIELD_A(t) \/ PUTFIELD_A(t)
    <3>1. phase = "run" /\ Quiet /\ stack[t] # <<>> /\ Running(t)
      BY <2>2 DEF GETFIELD_A, PUTFIELD_A, Running, Quiet
    <3>2. PICK s : s = Operands(t)
      OBVIOUS
    <3>3. LiveSeq(s)
      BY <3>1, <3>2, OperandsLive
    <3>4. PICK r, m : /\ On(r, m) /\ Usable(r)
                      /\ \/ s # <<>> /\ r = LastOf(s)
                         \/ Len(s) > 1 /\ r = s[Len(s) - 1]
      <4>1. CASE GETFIELD_A(t)
        BY <3>2, <4>1 DEF GETFIELD_A
      <4>2. CASE PUTFIELD_A(t)
        BY <3>2, <4>2 DEF PUTFIELD_A
      <4>. QED
        BY <2>2, <4>1, <4>2
    <3>5. Live(r)
      BY <3>3, <3>4, LiveSeqs
    <3>. QED
      BY <2>1, <3>1, <3>4, <3>5 DEF Usable, Live
  <2>3. CASE ~(GETFIELD_A(t) \/ PUTFIELD_A(t))
    BY <1>1, <2>3
       DEF Instruction, GETSTATIC_A, PUTSTATIC_A, POP, NEWOBJECT, ANEWARRAY, INVOKE, START,
                      THROW, LOAD, RETURN, ARETURN, UNLOAD, Do, Ask, AskFrame
  <2>. QED
    BY <2>2, <2>3
<1>2. CASE Resume
  BY <1>2 DEF Resume, GotObject, GotFrame, GotInfusion, GotException, OutOfMemory, Panic, CATCH,
              UNWIND, Ask
<1>3. CASE SCHEDULE
  BY <1>3 DEF SCHEDULE
<1>4. CASE Collect
  BY <1>4, NoneMissing DEF Collect, Collecting, Mark, MarkAgain, Shift, UpdateManaged, UpdateSystem,
                           Move, EndMove
<1>5. CASE UNCHANGED vars
  BY <1>5 DEF vars, heapVars
<1>. QED
  BY <1>1, <1>2, <1>3, <1>4, <1>5 DEF Next

\* No class was looked up in vain.
Found == halted # "class"

\* As long as no object is of the first class of an infusion, neither the collector nor an
\* instruction looks up a class in vain, and no frame of a thread that still runs makes
\* dj_frame_updatePointers read an infusion that is gone.
THEOREM CollectorNeverStops == ASSUME NotFirst PROVE Spec => []CollectorGoesOn
<1>1. IInv /\ RInv /\ NamesInv /\ halted # "class" => CollectorGoesOn
  <2>. SUFFICES ASSUME IInv, RInv, NamesInv, halted = "stale", NEW t \in Threads \ finished,
                       NEW f \in Members(stack[t])
                PROVE  f \notin StaleFrames
    BY DEF CollectorGoesOn
  <2>1. phase = "system"
    BY DEF RInv, ScalarsInv
  <2>2. PICK i \in DOMAIN stack[t] : f = stack[t][i]
    BY DEF Members
  <2>3. /\ Held(f) /\ Root(f).infusion \in Members(infusions)
        /\ Root(f).name = Root(Root(f).infusion).name
    BY <2>2 DEF IInv, FramesInv, NamesInv
  <2>4. PICK a : a = Root(f).infusion
    OBVIOUS
  <2>5. PICK j \in DOMAIN infusions : a = infusions[j]
    BY <2>3, <2>4 DEF Members
  <2>6. Held(a)
    BY <2>5 DEF IInv, InfusionsInv
  <2>7. Root(f) = mem[f] /\ Root(a) = mem[a] /\ a \in DOMAIN mem
    BY <2>1, <2>3, <2>6, HeldInPlace DEF InPlace
  <2>8. mem[a].id = INFUSION
    BY <2>5, <2>7 DEF IInv, InfusionsInv, Inf
  <2>9. WellFormed(mem[a])
    BY <2>7 DEF RInv, ChunksInv, AllFormed
  <2>10. mem[a].kind = "infusion"
    BY <2>8, <2>9
       DEF WellFormed, ChunkType, IsJava, FREE, FRAME, INVALID, REFARRAY, INFUSION, JAVA_START
  <2>. QED
    BY <2>3, <2>4, <2>7, <2>10 DEF StaleFrames, Stale
<1>2. Init => Found
  BY DEF Init, Found
<1>3. NamesInv /\ Found /\ IInv /\ IInv' /\ RInv /\ ClassInv /\ [Next]_vars => NamesInv' /\ Found'
  BY NextNames, NextGoes DEF Found
<1>4. IInv /\ IInv' /\ ClassInv /\ [Next]_vars => ClassInv'
  BY NextClasses
<1>5. IInv /\ RInv /\ NamesInv /\ Found => CollectorGoesOn
  BY <1>1 DEF Found
<1>. QED
  BY <1>2, <1>3, <1>4, <1>5, InitSound, NextSound, InitClasses, InitNames, RefsInvariance, PTL
     DEF Spec

-----------------------------------------------------------------------------
\* An object is known by its label.

LabelsInv ==
  \A d, e \in DOMAIN mem :
    /\ InUse(d) /\ InUse(e) /\ mem[d].kind = "object" /\ mem[e].kind = "object"
    /\ mem[d].label = mem[e].label
    => d = e

\* What is in use in the heap m was in use in n, with its label.
SameLabels(m, n) ==
  \A a \in DOMAIN m : m[a].id # FREE =>
    a \in DOMAIN n /\ n[a].id # FREE /\ m[a].kind = n[a].kind /\ m[a].label = n[a].label

LEMMA LabelsStored ==
  ASSUME NEW n, NEW m, SameLabels(m, n), NEW x, NEW s
  PROVE  SameLabels([m EXCEPT ![x].refs = s], n)
BY DEF SameLabels

LEMMA LabelsItself == \A n : SameLabels(n, n)
BY DEF SameLabels

LEMMA LabelsStay == ASSUME LabelsInv, SameLabels(mem', mem) PROVE LabelsInv'
BY DEF LabelsInv, SameLabels, InUse

LEMMA AskLabels ==
  ASSUME IInv, LabelsInv, NEW p, NEW saved, Ask(p, saved) PROVE LabelsInv'
<1>1. mem' = mem \/ mem' = RootsMarked(saved)
  BY DEF Ask
<1>2. \A a \in DOMAIN mem : DOMAIN mem[a] = Fields
  BY DEF IInv, HeapInv, Shaped
<1>3. SameLabels(mem', mem)
  BY <1>1, <1>2 DEF RootsMarked, SameLabels, Fields
<1>. QED
  BY <1>3, LabelsStay

LEMMA InstructionLabels ==
  ASSUME IInv, LabelsInv, NEW t \in Threads,
         \/ GETSTATIC_A(t) \/ PUTSTATIC_A(t) \/ GETFIELD_A(t) \/ PUTFIELD_A(t) \/ POP(t)
         \/ NEWOBJECT(t) \/ ANEWARRAY(t) \/ INVOKE(t) \/ START(t) \/ THROW(t) \/ LOAD(t)
  PROVE  LabelsInv'
<1>1. CASE NEWOBJECT(t) \/ ANEWARRAY(t) \/ INVOKE(t) \/ START(t) \/ THROW(t) \/ LOAD(t)
  BY <1>1, AskLabels DEF NEWOBJECT, ANEWARRAY, INVOKE, START, THROW, LOAD, AskFrame
<1>2. CASE GETSTATIC_A(t) \/ PUTSTATIC_A(t) \/ GETFIELD_A(t) \/ PUTFIELD_A(t) \/ POP(t)
  <2>1. \A s : SameLabels(WithOperands(t, s), mem)
    BY LabelsItself, LabelsStored DEF WithOperands
  <2>2. \A s, x, v : SameLabels([WithOperands(t, s) EXCEPT ![x].refs = v], mem)
    BY <2>1, LabelsStored
  <2>3. ASSUME NEW m, Do(m), SameLabels(m, mem) PROVE SameLabels(mem', mem)
    BY <2>3 DEF Do
  <2>4. ASSUME NEW r, NEW m, On(r, m), SameLabels(m, mem) PROVE SameLabels(mem', mem)
    BY <2>3, <2>4, LabelsItself DEF On
  <2>5. SameLabels(mem', mem)
    BY <1>2, <2>1, <2>2, <2>3, <2>4 DEF GETSTATIC_A, PUTSTATIC_A, GETFIELD_A, PUTFIELD_A, POP
  <2>. QED
    BY <2>5, LabelsStay
<1>. QED
  BY <1>1, <1>2

\* A chunk that is placed, with the label of no object in the heap if it is an object.
LEMMA PlacedLabels ==
  ASSUME IInv, phase = "alloc", LabelsInv, NEW c, SameLabels(mem', Placed(c)),
         c.kind = "object" => Fresh(c.label)
  PROVE  LabelsInv'
<1>1. left \notin DOMAIN mem
  <2>1. \A a \in DOMAIN mem : a \in Nat /\ mem[a].size \in Nat \ {0} /\ a + mem[a].size <= left
    BY DEF IInv, HeapInv, Shaped, Tiled, End
  <2>. QED
    BY <2>1 DEF IInv, HeapInv, Shaped
<1>2. /\ DOMAIN Placed(c) = DOMAIN mem \cup {left} /\ Placed(c)[left] = c
      /\ \A a \in DOMAIN mem : Placed(c)[a] = mem[a]
  BY <1>1 DEF Placed
<1>3. ASSUME NEW d \in DOMAIN mem', NEW e \in DOMAIN mem', mem'[d].id # FREE, mem'[e].id # FREE,
             mem'[d].kind = "object", mem'[e].kind = "object", mem'[d].label = mem'[e].label, d # e
      PROVE  FALSE
  <2>1. \A x \in {d, e} :
          /\ x \in DOMAIN mem \cup {left} /\ Placed(c)[x].id # FREE
          /\ Placed(c)[x].kind = "object" /\ Placed(c)[x].label = mem'[d].label
    BY <1>2, <1>3 DEF SameLabels
  <2>2. ASSUME NEW x \in {d, e}, NEW y \in {d, e}, x = left, y # left PROVE FALSE
    <3>1. c.kind = "object" /\ c.label = mem'[d].label /\ y \in DOMAIN mem
      BY <1>2, <2>1, <2>2
    <3>2. mem[y].id # FREE /\ mem[y].label = c.label
      BY <1>2, <2>1, <2>2, <3>1
    <3>. QED
      BY <3>1, <3>2 DEF Fresh
  <2>3. d # left /\ e # left
    BY <1>3, <2>2
  <2>. QED
    BY <1>2, <1>3, <2>1, <2>3 DEF LabelsInv, InUse
<1>. QED
  BY <1>3 DEF LabelsInv, InUse

LEMMA ResumeLabels ==
  ASSUME IInv, LabelsInv,
         GotObject \/ GotFrame \/ GotInfusion \/ GotException \/ OutOfMemory \/ Panic \/ CATCH
  PROVE  LabelsInv'
<1>1. \A l : NewObject(l).label = l
  BY DEF NewObject, Object, Chunk
<1>2. CASE GotObject
  <2>1. PICK l \in Labels :
          /\ Fresh(l)
          /\ mem' = [Placed(NewObject(l)) EXCEPT ![Top(current)].refs = Append(Operands(current), left)]
    BY <1>2 DEF GotObject
  <2>2. SameLabels(mem', Placed(NewObject(l)))
    BY <2>1, LabelsItself, LabelsStored
  <2>. QED
    BY <1>1, <1>2, <2>1, <2>2, PlacedLabels DEF GotObject, Granted
<1>3. CASE GotException
  <2>1. PICK l \in Labels : Fresh(l) /\ mem' = Placed(NewObject(l))
    BY <1>3 DEF GotException
  <2>. QED
    BY <1>1, <1>3, <2>1, LabelsItself, PlacedLabels DEF GotException, Granted
<1>4. CASE GotFrame
  <2>1. PICK c : c.kind # "object" /\ mem' = Placed(c)
    BY <1>4 DEF GotFrame, Frame, Chunk
  <2>. QED
    BY <1>4, <2>1, LabelsItself, PlacedLabels DEF GotFrame, Granted
<1>5. CASE GotInfusion
  <2>1. mem' = mem \/ \E c : c.kind # "object" /\ mem' = Placed(c)
    <3>1. \A size, n, a, b : Infusion(size, n, a, b).kind # "object"
      BY DEF Infusion, Chunk
    <3>. QED
      BY <1>5, <3>1 DEF GotInfusion
  <2>2. CASE mem' = mem
    BY <2>2, LabelsItself, LabelsStay
  <2>3. CASE mem' # mem
    BY <1>5, <2>1, <2>3, LabelsItself, PlacedLabels DEF GotInfusion, Granted
  <2>. QED
    BY <2>2, <2>3
<1>6. CASE OutOfMemory
  BY <1>6, AskLabels DEF OutOfMemory
<1>7. CASE Panic
  BY <1>7, LabelsItself, LabelsStay DEF Panic
<1>8. CASE CATCH
  BY <1>8, LabelsItself, LabelsStored, LabelsStay DEF CATCH, WithOperands
<1>. QED
  BY <1>2, <1>3, <1>4, <1>5, <1>6, <1>7, <1>8

LEMMA EndLabels ==
  ASSUME IInv, RInv, LabelsInv,
         \/ \E t \in Threads : RETURN(t) \/ ARETURN(t) \/ UNLOAD(t)
         \/ UNWIND \/ SCHEDULE
  PROVE  LabelsInv'
<1>1. \A f : SameLabels(Freed(f), mem)
  BY DEF SameLabels, Freed, FreeChunk, Chunk
<1>2. ASSUME NEW t \in Threads, RETURN(t) \/ ARETURN(t) PROVE LabelsInv'
  <2>1. \/ mem' = Freed(Top(t))
        \/ \E x, v : mem' = [Freed(Top(t)) EXCEPT ![x].refs = v]
    BY <1>2 DEF RETURN, ARETURN
  <2>. QED
    BY <1>1, <2>1, LabelsStored, LabelsStay
<1>3. CASE UNWIND
  BY <1>1, <1>3, LabelsStay DEF UNWIND
<1>4. CASE SCHEDULE
  BY <1>4, LabelsItself, LabelsStay DEF SCHEDULE
<1>5. ASSUME NEW t \in Threads, UNLOAD(t) PROVE LabelsInv'
  <2>1. PICK i \in DOMAIN infusions : mem' = UnloadedFrom(infusions[i])
    BY <1>5 DEF UNLOAD
  <2>2. PICK start, range :
          start = mem[infusions[i]].base /\ range = NrClasses[mem[infusions[i]].name]
    OBVIOUS
  <2>3. start \in Nat /\ start >= JAVA_START /\ range \in Nat
    BY <1>5, <2>2, ListedBases DEF Members, UNLOAD, Running
  <2>4. \A a \in DOMAIN mem : DOMAIN mem[a] = Fields
    BY DEF IInv, HeapInv, Shaped
  <2>5. ASSUME NEW a \in DOMAIN mem
        PROVE  /\ mem'[a].label = mem[a].label /\ mem'[a].kind = mem[a].kind
               /\ mem'[a].id = Renumbered(mem[a].id, start, range)
    BY <2>1, <2>2, <2>4 DEF UnloadedFrom, Fields
  <2>6. \A id : id = FREE => Renumbered(id, start, range) = FREE
    BY <2>3 DEF Renumbered, FREE, JAVA_START
  <2>7. DOMAIN mem' = DOMAIN mem
    BY <2>1 DEF UnloadedFrom
  <2>. QED
    BY <2>5, <2>6, <2>7, LabelsStay DEF SameLabels
<1>. QED
  BY <1>2, <1>3, <1>4, <1>5

LEMMA CollectLabels ==
  ASSUME IInv, IInv', LabelsInv, Collect PROVE LabelsInv'
<1>1. \A a \in DOMAIN mem : DOMAIN mem[a] = Fields
  BY DEF IInv, HeapInv, Shaped
<1>2. CASE ~Move
  <2>1. SameLabels(mem', mem)
    <3>1. CASE Mark
      <4>1. PICK a : mem' = mem \/ mem' = Visited(a)
        BY <3>1 DEF Mark
      <4>. QED
        BY <1>1, <4>1 DEF Visited, SameLabels, Fields
    <3>2. CASE MarkAgain
      BY <1>1, <3>2 DEF MarkAgain, Finalised, SameLabels, Fields
    <3>3. CASE Shift
      BY <1>1, <3>3 DEF Shift, SameLabels, Fields
    <3>4. CASE UpdateManaged
      BY <1>1, <3>4 DEF UpdateManaged, ManagedUpdated, SameLabels, Fields
    <3>5. CASE UpdateSystem
      <4>1. mem' = mem \/ mem' = SystemUpdated
        BY <3>5 DEF UpdateSystem
      <4>2. CASE mem' = SystemUpdated
        <5>1. DOMAIN mem' = DOMAIN mem
          BY <4>2 DEF SystemUpdated
        <5>2. ASSUME NEW a \in DOMAIN mem
              PROVE  /\ mem'[a].id = mem[a].id /\ mem'[a].kind = mem[a].kind
                     /\ mem'[a].label = mem[a].label
          <6>1. PICK c, s, link :
                  c = mem[a] /\ s = UpdatedAll(mem[a].refs) /\ link = Updated(mem[a].infusion)
            OBVIOUS
          <6>2. mem'[a] = c \/ mem'[a] = [c EXCEPT !.refs = s, !.infusion = link]
            BY <4>2, <6>1 DEF SystemUpdated
          <6>3. DOMAIN c = Fields
            BY <1>1, <6>1
          <6>. QED
            BY <6>1, <6>2, <6>3 DEF Fields
        <5>. QED
          BY <5>1, <5>2 DEF SameLabels
      <4>. QED
        BY <4>1, <4>2, LabelsItself
    <3>6. CASE EndMove
      BY <3>6 DEF EndMove, SameLabels, InUse
    <3>. QED
      BY <1>2, <3>1, <3>2, <3>3, <3>4, <3>5, <3>6 DEF Collect
  <2>. QED
    BY <2>1, LabelsStay
<1>3. CASE Move
  <2>1. PICK a \in DOMAIN mem :
          NextInUse(a) /\ mem' = MovedTo(a, a - mem[a].shift) /\ loc' = a + mem[a].size
    BY <1>3 DEF Move
  <2>2. phase = "move" /\ phase' = "move"
    BY <1>3 DEF Move, Collecting
  <2>3. PICK to : to = Spot(a)
    OBVIOUS
  <2>4. MovedAlone(a, to)
    BY <2>1, <2>2, <2>3, MoveMoves DEF IInv
  <2>5. PICK from : from = [d \in DOMAIN mem' |-> IF d = to THEN a ELSE d]
    OBVIOUS
  <2>6. /\ mem'[to].id = mem[a].id /\ mem'[to].kind = mem[a].kind /\ mem'[to].label = mem[a].label
        /\ InUse(a)
    BY <1>1, <2>1, <2>4 DEF MovedAlone, Fields, NextInUse
  <2>7. ASSUME NEW d \in DOMAIN mem', mem'[d].id # FREE
        PROVE  /\ from[d] \in DOMAIN mem /\ InUse(from[d])
               /\ mem'[d].kind = mem[from[d]].kind /\ mem'[d].label = mem[from[d]].label
    BY <2>4, <2>5, <2>6, <2>7 DEF MovedAlone, InUse
  <2>8. \A d, e \in DOMAIN mem' : from[d] = from[e] => d = e
    BY <2>4, <2>5 DEF MovedAlone
  <2>. QED
    BY <2>7, <2>8 DEF LabelsInv, InUse
<1>. QED
  BY <1>2, <1>3

LEMMA NextLabels == IInv /\ IInv' /\ RInv /\ LabelsInv /\ [Next]_vars => LabelsInv'
<1>. SUFFICES ASSUME IInv, IInv', RInv, LabelsInv, [Next]_vars PROVE LabelsInv'
  OBVIOUS
<1>1. ASSUME NEW t \in Threads, Instruction(t) PROVE LabelsInv'
  BY <1>1, InstructionLabels, EndLabels DEF Instruction
<1>2. CASE Resume
  BY <1>2, ResumeLabels, EndLabels DEF Resume
<1>3. CASE SCHEDULE
  BY <1>3, EndLabels
<1>4. CASE Collect
  BY <1>4, CollectLabels
<1>5. CASE UNCHANGED vars
  BY <1>5, LabelsItself, LabelsStay DEF vars, heapVars
<1>. QED
  BY <1>1, <1>2, <1>3, <1>4, <1>5 DEF Next

LEMMA InitLabels == Init => LabelsInv
BY InfusionsAssumption DEF Init, LabelsInv, Infusion, Frame, Chunk

-----------------------------------------------------------------------------
\* What marking finds.

\* The objects these references are to.
LabelsOf(rs) == {mem[r].label : r \in rs \ {NoRef}}

\* A set of objects that the roots are in and that is closed under reference, as in Closed
\* and RootLabels, in terms of addresses.
Bounding(s) ==
  /\ s \subseteq Labels
  /\ \A h \in Holders : mem[h].label \in s => LabelsOf(RefsOf(h)) \subseteq s
  /\ LabelsOf(FrameRefs \cup StaticRefs) \subseteq s

\* What is not white is in each of these sets; once the white chunks are finalised,
\* everything is.
TraceInv ==
  /\ phase = "mark" =>
       \A s : Bounding(s) => \A h \in Holders : mem[h].color # "white" => mem[h].label \in s
  /\ phase = "shift" => \A s : Bounding(s) => \A h \in Holders : mem[h].label \in s

LEMMA LiveMeans ==
  ASSUME RInv, NEW r, Live(r)
  PROVE  /\ Means(r, FALSE) = IF r = NoRef THEN {NoLabel} ELSE {mem[r].label}
         /\ r # NoRef => mem[r].label \in Labels
<1>1. r # NoRef => r \in DOMAIN mem /\ InUse(r) /\ mem[r].kind = "object"
  BY DEF Live
<1>2. r # NoRef => mem[r].label \in Labels
  BY <1>1 DEF RInv, ChunksInv, AllFormed, WellFormed
<1>3. r # NoRef => At(r, FALSE) = {r}
  BY <1>1 DEF At
<1>. QED
  BY <1>2, <1>3 DEF Means

LEMMA HolderRefs ==
  ASSUME IInv, RInv, Quiet, NEW h \in Sources
  PROVE  /\ \A r \in RefsOf(h) : Live(r)
         /\ LabelsOf(RefsOf(h)) \subseteq Labels
         /\ MeantBy(h) = LabelsOf(RefsOf(h))
<1>1. \A r \in RefsOf(h) : Live(r)
  BY SourcesAreInPlace, QuietRefsHold
     DEF SourcesInPlace, Quiet, QuietRefs, RInv, AllLive, HeldLive, RefsOf
<1>2. \A r \in RefsOf(h) :
        /\ Means(r, FALSE) = IF r = NoRef THEN {NoLabel} ELSE {mem[r].label}
        /\ r # NoRef => mem[r].label \in Labels
  BY <1>1, LiveMeans
<1>3. Members(RefsMean(h)) = {Means(r, FALSE) : r \in RefsOf(h)}
  BY DEF RefsMean, Members, RefsOf, New, Quiet
<1>4. LabelsOf(RefsOf(h)) \subseteq Labels
  BY <1>2 DEF LabelsOf
<1>5. ASSUME NEW l PROVE l \in MeantBy(h) <=> l \in LabelsOf(RefsOf(h))
  <2>1. l \in LabelsOf(RefsOf(h)) => l # NoLabel
    BY <1>4, HeapAssumption
  <2>2. l \in MeantBy(h) <=> l # NoLabel /\ \E r \in RefsOf(h) : l \in Means(r, FALSE)
    BY <1>3 DEF MeantBy
  <2>3. l \in LabelsOf(RefsOf(h)) <=> \E r \in RefsOf(h) : r # NoRef /\ l = mem[r].label
    BY DEF LabelsOf
  <2>4. \A r \in RefsOf(h) : l # NoLabel /\ l \in Means(r, FALSE) <=> r # NoRef /\ l = mem[r].label
    BY <1>2, <2>1, HeapAssumption
  <2>. QED
    BY <2>1, <2>2, <2>3, <2>4
<1>. QED
  BY <1>1, <1>4, <1>5

LEMMA RootsRefs ==
  ASSUME IInv, RInv, Quiet
  PROVE  RootLabels = LabelsOf(FrameRefs \cup StaticRefs)
<1>1. \A p \in RootPointers : At(p, Moving) = {p} /\ p \in Sources
  BY RootsInPlace DEF At, Moving, Quiet, Sources
<1>2. UNION {At(p, Moving) : p \in Frames \cup Members(infusions)} = RootPointers
  BY <1>1 DEF RootPointers
<1>3. RootLabels = UNION {MeantBy(h) : h \in RootPointers}
  BY <1>2 DEF RootLabels
<1>4. RootLabels = UNION {LabelsOf(RefsOf(h)) : h \in RootPointers}
  BY <1>1, <1>3, HolderRefs
<1>. QED
  BY <1>4 DEF LabelsOf, RootPointers, FrameRefs, StaticRefs, RefsOf

BoundingSets ==
  IInv /\ RInv /\ Quiet =>
    \A s : s \in Closed(References) /\ RootLabels \subseteq s <=> Bounding(s)
LEMMA BoundingSetsHold == BoundingSets
<1>. SUFFICES ASSUME IInv, RInv, Quiet, NEW s
              PROVE  s \in Closed(References) /\ RootLabels \subseteq s <=> Bounding(s)
  BY DEF BoundingSets
<1>1. \A h \in Holders : h \in Sources
  BY DEF Holders, Sources
<1>2. \A h \in Holders : MeantBy(h) = LabelsOf(RefsOf(h))
  BY <1>1, HolderRefs
<1>3. References = {<<mem[h].label, LabelsOf(RefsOf(h))>> : h \in Holders}
  BY <1>2 DEF References
<1>4. s \in Closed(References) <=>
        s \subseteq Labels /\ \A h \in Holders : mem[h].label \in s => LabelsOf(RefsOf(h)) \subseteq s
  <2>1. s \in Closed(References) <=>
          s \subseteq Labels /\ \A r \in References : r[1] \in s => r[2] \subseteq s
    BY DEF Closed
  <2>2. ASSUME NEW h \in Holders
        PROVE  \E r \in References : r[1] = mem[h].label /\ r[2] = LabelsOf(RefsOf(h))
    <3>1. <<mem[h].label, LabelsOf(RefsOf(h))>> \in References
      BY <1>3
    <3>. QED
      BY <3>1
  <2>3. ASSUME NEW r \in References
        PROVE  \E h \in Holders : r[1] = mem[h].label /\ r[2] = LabelsOf(RefsOf(h))
    BY <1>3
  <2>. QED
    BY <2>1, <2>2, <2>3
<1>. QED
  BY <1>4, RootsRefs DEF Bounding

LEMMA BoundingSetsNext == BoundingSets'
BY BoundingSetsHold, PTL

LEMMA HoldersAreObjects ==
  ASSUME RInv, NEW h \in Holders
  PROVE  /\ h \in DOMAIN mem /\ HasRefs(mem[h]) /\ mem[h].kind = "object"
         /\ InUse(h) /\ mem[h].label \in Labels
<1>1. h \in DOMAIN mem /\ HasRefs(mem[h]) /\ WellFormed(mem[h])
  BY DEF Holders, RInv, ChunksInv, AllFormed
<1>2. mem[h].id \in Nat /\ mem[h].id >= 7
  BY <1>1 DEF HasRefs, IsJava, REFARRAY, JAVA_START, WellFormed, ChunkType
<1>3. mem[h].kind = "object" /\ InUse(h)
  BY <1>1, <1>2 DEF WellFormed, ChunkType, FREE, FRAME, INFUSION, InUse
<1>. QED
  BY <1>1, <1>3 DEF WellFormed

\* A step that only colors.
LEMMA ColorsBound ==
  ASSUME IInv, RInv, DOMAIN mem' = DOMAIN mem, infusions' = infusions, stack' = stack,
         \A a \in DOMAIN mem : /\ mem'[a].refs = mem[a].refs /\ mem'[a].label = mem[a].label
                               /\ HasRefs(mem'[a]) <=> HasRefs(mem[a]),
         Quiet, NEW s
  PROVE  Bounding(s)' <=> Bounding(s)
<1>1. Holders' = Holders
  BY DEF Holders
<1>2. FrameRefs' = FrameRefs /\ StaticRefs' = StaticRefs /\ RootPointers \subseteq DOMAIN mem
  <2>1. RootPointers \subseteq DOMAIN mem
    BY RootsInPlace DEF Quiet
  <2>. QED
    BY <2>1 DEF FrameRefs, StaticRefs, Frames, RootPointers
<1>3. \A h \in Holders : RefsOf(h)' = RefsOf(h)
  BY DEF RefsOf, Holders
<1>4. \A h \in Sources : \A r \in RefsOf(h) : r = NoRef \/ r \in DOMAIN mem
  BY HolderRefs DEF Live
<1>5. ASSUME NEW rs, \A r \in rs : r = NoRef \/ r \in DOMAIN mem
      PROVE  LabelsOf(rs)' = LabelsOf(rs)
  BY <1>5 DEF LabelsOf
<1>6. \A h \in Holders : LabelsOf(RefsOf(h))' = LabelsOf(RefsOf(h))
  <2>. SUFFICES ASSUME NEW h \in Holders PROVE LabelsOf(RefsOf(h))' = LabelsOf(RefsOf(h))
    OBVIOUS
  <2>1. PICK rs : rs = RefsOf(h)
    OBVIOUS
  <2>2. RefsOf(h)' = rs
    BY <1>3, <2>1
  <2>3. LabelsOf(rs)' = LabelsOf(rs)
    BY <1>4, <1>5, <2>1 DEF Holders, Sources
  <2>. QED
    BY <2>1, <2>2, <2>3
<1>7. LabelsOf(FrameRefs \cup StaticRefs)' = LabelsOf(FrameRefs \cup StaticRefs)
  <2>1. PICK rs : rs = FrameRefs \cup StaticRefs
    OBVIOUS
  <2>2. \A p \in RootPointers : p \in Sources
    BY RootsInPlace DEF Quiet, Sources
  <2>3. \A r \in rs : \E p \in RootPointers : r \in RefsOf(p)
    BY <2>1 DEF FrameRefs, StaticRefs, RootPointers, RefsOf
  <2>4. LabelsOf(rs)' = LabelsOf(rs)
    BY <1>4, <1>5, <2>2, <2>3
  <2>5. (FrameRefs \cup StaticRefs)' = rs
    BY <1>2, <2>1
  <2>. QED
    BY <2>1, <2>4, <2>5
<1>8. \A h \in Holders : mem'[h].label = mem[h].label
  BY DEF Holders
<1>. QED
  BY <1>1, <1>6, <1>7, <1>8 DEF Bounding

LEMMA AskTraces ==
  ASSUME IInv, IInv', RInv, RInv', phase \in {"run", "alloc"}, NEW p, NEW saved, Ask(p, saved)
  PROVE  TraceInv'
<1>. SUFFICES ASSUME phase' = "mark"
              PROVE  \A s : Bounding(s)' =>
                       \A h \in Holders' : mem'[h].color # "white" => mem'[h].label \in s
  BY DEF TraceInv, Ask
<1>1. /\ mem' = RootsMarked(saved) /\ refStack' = saved /\ pending' = p /\ Quiet /\ Quiet'
      /\ infusions' = infusions /\ stack' = stack
  BY DEF Ask, Quiet
<1>2. \A a \in DOMAIN mem : DOMAIN mem[a] = Fields /\ WellFormed(mem[a]) /\ a \in Nat
  BY DEF IInv, HeapInv, Shaped, RInv, ChunksInv, AllFormed
<1>3. /\ DOMAIN mem' = DOMAIN mem
      /\ \A a \in DOMAIN mem :
           /\ mem'[a].refs = mem[a].refs /\ mem'[a].label = mem[a].label /\ mem'[a].id = mem[a].id
           /\ mem'[a].color = RootColor(a, saved)
  BY <1>1, <1>2 DEF RootsMarked, Fields
<1>4. \A a \in DOMAIN mem : HasRefs(mem'[a]) <=> HasRefs(mem[a])
  BY <1>3 DEF HasRefs, IsJava
<1>5. \A r \in Members(saved) : r \in Members(infusions)
  <2>1. saved = <<>> \/ (Len(saved) = 1 /\ LastOf(saved) \in Members(infusions) /\ saved \in Seq(Int))
    BY <1>1 DEF RInv, WaitInv, IInv, PendingInv, Asked
  <2>. QED
    BY <2>1 DEF Members, LastOf
<1>6. ASSUME NEW h \in Holders', mem'[h].color # "white"
      PROVE  h \in DOMAIN mem /\ h \in FrameRefs \cup StaticRefs
  <2>1. h \in DOMAIN mem /\ HasRefs(mem[h])
    BY <1>3, <1>4, <1>6 DEF Holders
  <2>2. h \notin Members(infusions) /\ h \notin Members(saved)
    BY <1>1, <1>5, <2>1, RootsInPlace DEF Quiet, RootPointers
  <2>3. ~(mem[h].id < MANAGED_START)
    BY <1>2, <2>1 DEF HasRefs, IsJava, REFARRAY, JAVA_START, MANAGED_START, WellFormed, ChunkType
  <2>. QED
    BY <1>3, <1>6, <2>1, <2>2, <2>3 DEF RootColor
<1>7. ASSUME NEW s, Bounding(s)', NEW h \in Holders', mem'[h].color # "white"
      PROVE  mem'[h].label \in s
  <2>1. Bounding(s)
    BY <1>1, <1>3, <1>4, <1>7, ColorsBound
  <2>2. h \in DOMAIN mem /\ h \in FrameRefs \cup StaticRefs /\ h # NoRef
    BY <1>2, <1>6, <1>7, HeapAssumption
  <2>3. mem[h].label \in LabelsOf(FrameRefs \cup StaticRefs)
    BY <2>2 DEF LabelsOf
  <2>. QED
    BY <1>3, <2>1, <2>2, <2>3 DEF Bounding
<1>. QED
  BY <1>7

LEMMA MarkTraces == ASSUME IInv, RInv, TraceInv, Mark PROVE TraceInv'
<1>1. PICK a \in DOMAIN mem :
        NextGray(a) /\ (mem' = mem \/ mem' = Visited(a))
  BY DEF Mark
<1>2. phase = "mark" /\ phase' = "mark" /\ Quiet /\ infusions' = infusions /\ stack' = stack
  BY DEF Mark, Collecting, Quiet
<1>3. \A x \in DOMAIN mem : DOMAIN mem[x] = Fields /\ x \in Nat
  BY DEF IInv, HeapInv, Shaped
<1>4. /\ DOMAIN mem' = DOMAIN mem
      /\ \A x \in DOMAIN mem :
           /\ mem'[x].refs = mem[x].refs /\ mem'[x].label = mem[x].label /\ mem'[x].id = mem[x].id
           /\ mem'[x].color # "white" => mem[x].color # "white" \/ x \in Scanned(mem[a])
  BY <1>1, <1>3 DEF Visited, Fields, NextGray, IsGray
<1>5. \A x \in DOMAIN mem : HasRefs(mem'[x]) <=> HasRefs(mem[x])
  BY <1>4 DEF HasRefs, IsJava
<1>6. ASSUME NEW s, Bounding(s)', NEW h \in Holders', mem'[h].color # "white"
      PROVE  mem'[h].label \in s
  <2>1. Bounding(s)
    BY <1>2, <1>4, <1>5, <1>6, ColorsBound
  <2>2. h \in Holders /\ h \in DOMAIN mem /\ mem'[h].label = mem[h].label
    BY <1>4, <1>5, <1>6 DEF Holders
  <2>3. CASE mem[h].color # "white"
    BY <1>2, <2>1, <2>2, <2>3 DEF TraceInv
  <2>4. CASE mem[h].color = "white"
    <3>1. h \in Scanned(mem[a])
      BY <1>4, <1>6, <2>2, <2>4
    <3>2. HasRefs(mem[a]) /\ h \in RefsOf(a)
      BY <3>1 DEF Scanned, RefsOf
    <3>3. a \in Holders /\ mem[a].color # "white"
      BY <1>1, <3>2 DEF Holders, NextGray, IsGray
    <3>4. mem[a].label \in s
      BY <1>2, <2>1, <3>3 DEF TraceInv
    <3>5. mem[h].label \in LabelsOf(RefsOf(a))
      BY <1>3, <2>2, <3>2, HeapAssumption DEF LabelsOf
    <3>. QED
      BY <2>1, <2>2, <3>3, <3>4, <3>5 DEF Bounding
  <2>. QED
    BY <2>3, <2>4
<1>. QED
  BY <1>2, <1>6 DEF TraceInv

\* The objects that are not white when the white ones are finalised.
Marked == {mem[d].label : d \in {x \in DOMAIN mem : /\ InUse(x) /\ mem[x].kind = "object"
                                                    /\ mem[x].color # "white"}}

\* The step that finalises.
LEMMA SweepFrees ==
  ASSUME IInv, RInv, MarkAgain, ~gray
  PROVE  /\ phase = "mark" /\ phase' = "shift" /\ Quiet /\ Quiet' /\ gray = FALSE
         /\ infusions' = infusions /\ stack' = stack
         /\ \A a \in DOMAIN mem : a >= loc => ~IsGray(a)
         /\ DOMAIN mem' = DOMAIN mem
         /\ \A a \in DOMAIN mem :
              /\ mem'[a].refs = mem[a].refs /\ mem'[a].label = mem[a].label
              /\ mem'[a].kind = mem[a].kind /\ mem'[a].name = mem[a].name
              /\ mem'[a].id = IF mem[a].color = "white" THEN FREE ELSE mem[a].id
              /\ HasRefs(mem'[a]) <=> HasRefs(mem[a]) /\ mem[a].color # "white"
<1>1. /\ phase = "mark" /\ phase' = "shift" /\ Quiet /\ Quiet' /\ gray = FALSE
      /\ infusions' = infusions /\ stack' = stack /\ mem' = Finalised
      /\ \A a \in DOMAIN mem : a >= loc => ~IsGray(a)
  BY DEF MarkAgain, Collecting, Quiet, RInv, ScalarsInv
<1>2. \A a \in DOMAIN mem : DOMAIN mem[a] = Fields
  BY DEF IInv, HeapInv, Shaped
<1>3. \A a \in DOMAIN mem :
        /\ mem'[a].refs = mem[a].refs /\ mem'[a].label = mem[a].label
        /\ mem'[a].kind = mem[a].kind /\ mem'[a].name = mem[a].name
        /\ mem'[a].id = IF mem[a].color = "white" THEN FREE ELSE mem[a].id
  BY <1>1, <1>2 DEF Finalised, Fields
<1>4. \A a \in DOMAIN mem : HasRefs(mem'[a]) <=> HasRefs(mem[a]) /\ mem[a].color # "white"
  BY <1>3 DEF HasRefs, IsJava, FREE, REFARRAY, JAVA_START
<1>. QED
  BY <1>1, <1>3, <1>4 DEF Finalised

\* The references of what is not white are to objects that are not white.
LEMMA SweepKeeps ==
  ASSUME IInv, RInv, MarkInv, MarkAgain, ~gray, NEW h \in Sources, mem[h].color # "white"
  PROVE  /\ \A r \in RefsOf(h) : r # NoRef =>
              /\ r \in DOMAIN mem /\ InUse(r) /\ mem[r].kind = "object" /\ mem[r].color # "white"
         /\ RefsOf(h)' = RefsOf(h) /\ LabelsOf(RefsOf(h))' = LabelsOf(RefsOf(h))
         /\ LabelsOf(RefsOf(h)) \subseteq Marked
<1>1. \A r \in RefsOf(h) : r # NoRef =>
        /\ r \in DOMAIN mem /\ InUse(r) /\ mem[r].kind = "object" /\ mem[r].color # "white"
  BY SweepFrees, MarkedBlack DEF Live
<1>2. RefsOf(h)' = RefsOf(h)
  BY SweepFrees, SourcesAreInPlace DEF SourcesInPlace, RefsOf
<1>3. PICK rs : rs = RefsOf(h)
  OBVIOUS
<1>4. LabelsOf(rs)' = LabelsOf(rs) /\ LabelsOf(rs) \subseteq Marked
  BY <1>1, <1>3, SweepFrees DEF LabelsOf, Marked
<1>. QED
  BY <1>1, <1>2, <1>3, <1>4

\* What bounds the reachable objects afterwards also bounds them before, without what is white.
LEMMA SweepBounds ==
  ASSUME IInv, RInv, MarkInv, LabelsInv, MarkAgain, ~gray, NEW s, Bounding(s)'
  PROVE  Bounding(s \cap Marked)
<1>1. ASSUME NEW h \in Holders, mem[h].label \in s \cap Marked
      PROVE  LabelsOf(RefsOf(h)) \subseteq s \cap Marked
  <2>1. PICK d \in DOMAIN mem : /\ InUse(d) /\ mem[d].kind = "object" /\ mem[d].color # "white"
                                /\ mem[d].label = mem[h].label
    BY <1>1 DEF Marked
  <2>2. d = h
    BY <2>1, HoldersAreObjects DEF LabelsInv
  <2>3. h \in Sources /\ h \in Holders' /\ mem'[h].label \in s
    BY <1>1, <2>1, <2>2, SweepFrees DEF Sources, Holders
  <2>4. LabelsOf(RefsOf(h))' \subseteq s
    BY <2>3 DEF Bounding
  <2>. QED
    BY <2>1, <2>2, <2>3, <2>4, SweepKeeps
<1>2. LabelsOf(FrameRefs \cup StaticRefs) \subseteq s \cap Marked
  <2>1. ASSUME NEW l \in LabelsOf(FrameRefs \cup StaticRefs)
        PROVE  l \in s \cap Marked
    <3>1. PICK r \in FrameRefs \cup StaticRefs : r # NoRef /\ l = mem[r].label
      BY <2>1 DEF LabelsOf
    <3>2. PICK p \in RootPointers : r \in RefsOf(p)
      BY <3>1 DEF FrameRefs, StaticRefs, RootPointers, RefsOf
    <3>3. p \in Sources /\ mem[p].color # "white" /\ p \in DOMAIN mem
      <4>1. Held(p) /\ ChunkOf(p) = p /\ p \in DOMAIN mem
        BY SweepFrees, RootsHeld, RootsInPlace DEF IInv
      <4>. QED
        BY <4>1, SweepFrees DEF Held, HeldAt, Sources
    <3>4. r \in RefsOf(p)' /\ r \in DOMAIN mem
      BY <3>1, <3>2, <3>3, SweepKeeps
    <3>5. mem'[r].label = l
      BY <3>1, <3>4, SweepFrees
    <3>6. r \in (FrameRefs \cup StaticRefs)'
      <4>1. p \in Frames' \cup Members(infusions)'
        BY <3>2, SweepFrees DEF RootPointers, Frames
      <4>. QED
        BY <3>4, <4>1 DEF FrameRefs, StaticRefs, RefsOf
    <3>7. l \in LabelsOf(FrameRefs \cup StaticRefs)'
      BY <3>1, <3>5, <3>6 DEF LabelsOf
    <3>8. l \in LabelsOf(RefsOf(p))
      BY <3>1, <3>2 DEF LabelsOf
    <3>. QED
      BY <3>3, <3>7, <3>8, SweepKeeps DEF Bounding
  <2>. QED
    BY <2>1
<1>3. s \subseteq Labels
  BY DEF Bounding
<1>. QED
  BY <1>1, <1>2, <1>3 DEF Bounding

LEMMA MarkAgainTraces ==
  ASSUME IInv, RInv, MarkInv, LabelsInv, TraceInv, MarkAgain PROVE TraceInv'
<1>1. CASE gray
  <2>1. phase = "mark" /\ phase' = "mark" /\ UNCHANGED <<mem, infusions, stack>> /\ Quiet
    BY <1>1 DEF MarkAgain, Collecting, Quiet
  <2>2. Holders' = Holders /\ \A s : Bounding(s)' => Bounding(s)
    BY <2>1, ColorsBound DEF Holders
  <2>. QED
    BY <2>1, <2>2 DEF TraceInv
<1>2. CASE ~gray
  <2>1. phase = "mark" /\ phase' = "shift"
    BY <1>2, SweepFrees
  <2>2. ASSUME NEW s, Bounding(s)', NEW h \in Holders' PROVE mem'[h].label \in s
    <3>1. Bounding(s \cap Marked)
      BY <1>2, <2>2, SweepBounds
    <3>2. h \in Holders /\ mem[h].color # "white" /\ mem'[h].label = mem[h].label
      BY <1>2, <2>2, SweepFrees DEF Holders
    <3>3. mem[h].label \in s \cap Marked
      BY <2>1, <3>1, <3>2 DEF TraceInv
    <3>. QED
      BY <3>2, <3>3
  <2>. QED
    BY <2>1, <2>2 DEF TraceInv
<1>. QED
  BY <1>1, <1>2

LEMMA NextTraces ==
  IInv /\ IInv' /\ RInv /\ RInv' /\ MarkInv /\ LabelsInv /\ TraceInv /\ [Next]_vars => TraceInv'
<1>. SUFFICES ASSUME IInv, IInv', RInv, RInv', MarkInv, LabelsInv, TraceInv, [Next]_vars
              PROVE  TraceInv'
  OBVIOUS
<1>1. ASSUME NEW t \in Threads, Instruction(t) PROVE TraceInv'
  <2>1. CASE NEWOBJECT(t) \/ ANEWARRAY(t) \/ INVOKE(t) \/ START(t) \/ THROW(t) \/ LOAD(t)
    BY <2>1, AskTraces DEF NEWOBJECT, ANEWARRAY, INVOKE, START, THROW, LOAD, AskFrame, Running
  <2>2. CASE ~(NEWOBJECT(t) \/ ANEWARRAY(t) \/ INVOKE(t) \/ START(t) \/ THROW(t) \/ LOAD(t))
    <3>1. phase = "run" /\ phase' = phase
      BY <1>1, <2>2
         DEF Instruction, GETSTATIC_A, PUTSTATIC_A, GETFIELD_A, PUTFIELD_A, POP, RETURN, ARETURN,
                        UNLOAD, Do, On, Running
    <3>. QED
      BY <3>1 DEF TraceInv
  <2>. QED
    BY <2>1, <2>2
<1>2. CASE Resume
  <2>1. CASE OutOfMemory
    BY <2>1, AskTraces DEF OutOfMemory, Refused
  <2>2. CASE ~OutOfMemory
    <3>1. phase' \in {"run", "unwind", "alloc"}
      BY <1>2, <2>2
         DEF Resume, GotObject, GotFrame, GotInfusion, GotException, Panic, CATCH, UNWIND,
                        Granted, Refused, Unwinding
    <3>. QED
      BY <3>1 DEF TraceInv
  <2>. QED
    BY <2>1, <2>2
<1>3. CASE SCHEDULE
  BY <1>3 DEF SCHEDULE, TraceInv
<1>4. CASE Collect
  <2>1. CASE Mark \/ MarkAgain
    BY <2>1, MarkTraces, MarkAgainTraces
  <2>2. CASE ~(Mark \/ MarkAgain)
    <3>1. phase' \notin {"mark", "shift"}
      BY <1>4, <2>2 DEF Collect, Shift, UpdateManaged, UpdateSystem, Move, EndMove, Collecting
    <3>. QED
      BY <3>1 DEF TraceInv
  <2>. QED
    BY <2>1, <2>2
<1>5. CASE UNCHANGED vars
  <2>1. UNCHANGED <<mem, phase, infusions, stack>>
    BY <1>5 DEF vars, heapVars
  <2>2. Quiet => Holders' = Holders /\ \A s : Bounding(s)' => Bounding(s)
    BY <2>1, ColorsBound DEF Holders
  <2>. QED
    BY <2>1, <2>2 DEF TraceInv, Quiet
<1>. QED
  BY <1>1, <1>2, <1>3, <1>4, <1>5 DEF Next

LEMMA ReachedAre ==
  ASSUME IInv, RInv, Quiet
  PROVE  /\ Reached = {l \in Labels : \A s : Bounding(s) => l \in s}
         /\ ReachedHolders = {h \in Holders : mem[h].label \in Reached}
<1>1. Reached = {l \in Labels : \A s \in Closed(References) : RootLabels \subseteq s => l \in s}
  <2>1. Reached = Least(Closed(References), RootLabels)
    <3>1. PICK g : g = [references |-> References, roots |-> RootLabels]
      OBVIOUS
    <3>2. Reached = UNION {Least(Closed(x.references), x.roots) : x \in {g}}
      BY <3>1 DEF Reached
    <3>3. Reached = Least(Closed(g.references), g.roots)
      BY <3>2
    <3>. QED
      BY <3>1, <3>3
  <2>. QED
    BY <2>1 DEF Least
<1>2. \A s : s \in Closed(References) /\ RootLabels \subseteq s <=> Bounding(s)
  BY BoundingSetsHold DEF BoundingSets
<1>3. ReachedHolders = {h \in Holders : mem[h].label \in Reached}
  BY DEF ReachedHolders
<1>. QED
  BY <1>1, <1>2, <1>3

\* All that the colors say, in the states of the specification.
MarkedInv == IInv /\ RInv /\ MarkInv /\ LabelsInv /\ TraceInv
LEMMA MarkedInvariance == Spec => []MarkedInv
<1>1. Init => MarkedInv
  BY InitSound, InitRefs, InitLabels DEF Init, MarkedInv, TraceInv
<1>2. MarkedInv /\ [Next]_vars => MarkedInv'
  <2>. SUFFICES ASSUME MarkedInv, [Next]_vars PROVE MarkedInv'
    OBVIOUS
  <2>1. IInv'
    BY NextSound DEF MarkedInv
  <2>2. RInv' /\ MarkInv'
    BY <2>1, NextRefs DEF MarkedInv
  <2>. QED
    BY <2>1, <2>2, NextLabels, NextTraces DEF MarkedInv
<1>. QED
  BY <1>1, <1>2, PTL DEF Spec

\* Between the loop of dj_mem_mark and the shifts of dj_mem_compact, the objects and arrays
\* that are not free are those that can be reached: one collection frees all garbage, also
\* cycles and whatever the colors of the last collection were.
THEOREM GarbageIsFreed == Spec => []GarbageFreed
<1>1. MarkedInv => GarbageFreed
  <2>. SUFFICES ASSUME MarkedInv, phase = "shift" PROVE Holders = ReachedHolders
    BY DEF GarbageFreed
  <2>1. /\ Reached = {l \in Labels : \A s : Bounding(s) => l \in s}
        /\ ReachedHolders = {h \in Holders : mem[h].label \in Reached}
    BY ReachedAre DEF MarkedInv, Quiet
  <2>2. \A h \in Holders : mem[h].label \in Labels
    BY HoldersAreObjects DEF MarkedInv
  <2>3. \A h \in Holders : mem[h].label \in Reached
    BY <2>1, <2>2 DEF MarkedInv, TraceInv
  <2>. QED
    BY <2>1, <2>3
<1>. QED
  BY <1>1, MarkedInvariance, PTL

-----------------------------------------------------------------------------
\* What the program sees.

Used == {d \in DOMAIN mem : InUse(d)}

\* The chunk of a frame and of an infusion, and what the i-th reference of a chunk is to.
FrameChunk(t, i) == ChunkOf(stack[t][i])
InfusionChunk(i) == ChunkOf(infusions[i])
RootChunks == {ChunkOf(p) : p \in RootPointers}
NullRef(h, i) == mem[h].refs[i] = NoRef
RefAt(h, i) == At(mem[h].refs[i], New(h))

LEMMA RootAt ==
  ASSUME IInv, NEW p \in RootPointers
  PROVE  At(p, Moving) = {ChunkOf(p)} /\ ChunkOf(p) \in Used /\ ChunkOf(p) \in Sources
<1>1. PICK c : c = ChunkOf(p)
  OBVIOUS
<1>2. HeldAt(p, c)
  BY <1>1, RootsHeld DEF IInv, Held
<1>3. c \in Used /\ Spot(c) = p
  BY <1>2 DEF HeldAt, Used
<1>4. CASE phase # "move"
  BY <1>1, <1>3, <1>4 DEF At, Moving, Spot, Used, Sources
<1>5. CASE phase = "move"
  <2>1. \A d \in DOMAIN mem : InUse(d) /\ Spot(d) = p => d = c
    BY <1>1, <1>5, HeldIsRoot DEF HeldAt, IInv
  <2>2. At(p, Moving) = {d \in DOMAIN mem : InUse(d) /\ Spot(d) = p}
    BY <1>5 DEF At, Moving, Place, Spot
  <2>. QED
    BY <1>1, <1>3, <2>1, <2>2 DEF Used, Sources
<1>. QED
  BY <1>4, <1>5

\* The view, chunk by chunk.
RootsSeen ==
  IInv =>
    /\ \A t \in Threads : /\ StackView(t) = [i \in DOMAIN stack[t] |-> StackView(t)[i]]
                          /\ \A i \in DOMAIN stack[t] : \A f :
                               f = FrameChunk(t, i) => StackView(t)[i] = {FrameView(f)}
    /\ \A i \in DOMAIN infusions : \A a :
         a = InfusionChunk(i) => StaticsView(i) = {<<mem[a].name, RefsMean(a)>>}
    /\ RootLabels = UNION {MeantBy(c) : c \in RootChunks}
    /\ \A c : c \in RootChunks <=> \/ \E t \in Threads : \E i \in DOMAIN stack[t] : c = FrameChunk(t, i)
                                   \/ \E i \in DOMAIN infusions : c = InfusionChunk(i)
LEMMA RootsAreSeen == RootsSeen
<1>. SUFFICES ASSUME IInv
              PROVE  /\ \A t \in Threads :
                          /\ StackView(t) = [i \in DOMAIN stack[t] |-> StackView(t)[i]]
                          /\ \A i \in DOMAIN stack[t] : \A f :
                               f = FrameChunk(t, i) => StackView(t)[i] = {FrameView(f)}
                     /\ \A i \in DOMAIN infusions : \A a :
                          a = InfusionChunk(i) => StaticsView(i) = {<<mem[a].name, RefsMean(a)>>}
                     /\ RootLabels = UNION {MeantBy(c) : c \in RootChunks}
                     /\ \A c : c \in RootChunks <=>
                          \/ \E t \in Threads : \E i \in DOMAIN stack[t] : c = FrameChunk(t, i)
                          \/ \E i \in DOMAIN infusions : c = InfusionChunk(i)
  BY DEF RootsSeen
<1>1. \A t \in Threads : StackView(t) = [i \in DOMAIN stack[t] |-> StackView(t)[i]]
  BY DEF StackView
<1>2. ASSUME NEW t \in Threads, NEW i \in DOMAIN stack[t], NEW f, f = FrameChunk(t, i)
      PROVE  StackView(t)[i] = {FrameView(f)}
  <2>1. At(stack[t][i], Moving) = {f}
    BY <1>2, RootsAre, RootAt DEF FrameChunk
  <2>2. StackView(t)[i] = {FrameView(x) : x \in At(stack[t][i], Moving)}
    BY DEF StackView
  <2>. QED
    BY <2>1, <2>2
<1>3. ASSUME NEW i \in DOMAIN infusions, NEW a, a = InfusionChunk(i)
      PROVE  StaticsView(i) = {<<mem[a].name, RefsMean(a)>>}
  <2>1. At(infusions[i], Moving) = {a}
    BY <1>3, RootsAre, RootAt DEF InfusionChunk
  <2>. QED
    BY <2>1 DEF StaticsView
<1>4. RootLabels = UNION {MeantBy(c) : c \in RootChunks}
  <2>1. UNION {At(p, Moving) : p \in Frames \cup Members(infusions)} = RootChunks
    BY RootAt DEF RootPointers, RootChunks
  <2>. QED
    BY <2>1 DEF RootLabels
<1>5. ASSUME NEW c
      PROVE  c \in RootChunks <=> \/ \E t \in Threads : \E i \in DOMAIN stack[t] : c = FrameChunk(t, i)
                                  \/ \E i \in DOMAIN infusions : c = InfusionChunk(i)
  BY DEF RootChunks, RootPointers, Frames, Members, FrameChunk, InfusionChunk
<1>. QED
  BY <1>1, <1>2, <1>3, <1>4, <1>5

LEMMA RootsSeenNext == RootsSeen'
BY RootsAreSeen, PTL

\* A step that takes each chunk d of U to b[d]: it stays what it is, and what it refers to.
SameChunk(d, e) ==
  /\ e \in DOMAIN mem' /\ mem'[e].label = mem[d].label /\ mem'[e].id = mem[d].id
  /\ mem'[e].name = mem[d].name /\ DOMAIN mem'[e].refs = DOMAIN mem[d].refs
SameRefs(U, b, d, e) ==
  \A i \in DOMAIN mem[d].refs :
    /\ NullRef(e, i)' <=> NullRef(d, i)
    /\ ~NullRef(d, i) => RefAt(d, i) \subseteq U /\ RefAt(e, i)' = {b[x] : x \in RefAt(d, i)}
Carries(U, b) ==
  /\ U \subseteq Used
  /\ \A d \in U : SameChunk(d, b[d]) /\ (d \in Sources => SameRefs(U, b, d, b[d]))
  /\ DOMAIN infusions' = DOMAIN infusions
  /\ \A i \in DOMAIN infusions :
       InfusionChunk(i) \in U /\ InfusionChunk(i)' = b[InfusionChunk(i)]
  /\ \A t \in Threads :
       /\ DOMAIN stack'[t] = DOMAIN stack[t]
       /\ \A i \in DOMAIN stack[t] :
            FrameChunk(t, i) \in U /\ FrameChunk(t, i)' = b[FrameChunk(t, i)]

LEMMA RefsCarried ==
  ASSUME NEW U, NEW b, Carries(U, b), NEW d \in U, d \in Sources, NEW e, e = b[d]
  PROVE  RefsMean(e)' = RefsMean(d) /\ MeantBy(e)' = MeantBy(d)
<1>1. SameChunk(d, e) /\ SameRefs(U, b, d, e)
  BY DEF Carries
<1>2. ASSUME NEW i \in DOMAIN mem[d].refs
      PROVE  RefsMean(e)'[i] = RefsMean(d)[i]
  <2>1. RefsMean(d)[i] = IF NullRef(d, i) THEN {NoLabel} ELSE {mem[x].label : x \in RefAt(d, i)}
    BY DEF RefsMean, Means, NullRef, RefAt
  <2>2. RefsMean(e)'[i] = IF NullRef(e, i)' THEN {NoLabel} ELSE {mem'[x].label : x \in RefAt(e, i)'}
    BY <1>1 DEF RefsMean, Means, NullRef, RefAt, SameChunk
  <2>3. CASE NullRef(d, i)
    BY <1>1, <2>1, <2>2, <2>3 DEF SameRefs
  <2>4. CASE ~NullRef(d, i)
    <3>1. /\ ~NullRef(e, i)' /\ RefAt(d, i) \subseteq U
          /\ RefAt(e, i)' = {b[x] : x \in RefAt(d, i)}
      BY <1>1, <2>4 DEF SameRefs
    <3>2. \A x \in RefAt(d, i) : mem'[b[x]].label = mem[x].label
      BY <3>1 DEF Carries, SameChunk
    <3>. QED
      BY <2>1, <2>2, <2>4, <3>1, <3>2
  <2>. QED
    BY <2>3, <2>4
<1>3. /\ RefsMean(d) = [i \in DOMAIN mem[d].refs |-> RefsMean(d)[i]]
      /\ RefsMean(e)' = [i \in DOMAIN mem'[e].refs |-> RefsMean(e)'[i]]
  BY DEF RefsMean
<1>4. RefsMean(e)' = RefsMean(d)
  BY <1>1, <1>2, <1>3 DEF SameChunk
<1>. QED
  BY <1>4 DEF MeantBy

LEMMA RootsCarried ==
  ASSUME IInv, IInv', NEW U, NEW b, Carries(U, b)
  PROVE  /\ RootLabels' = RootLabels
         /\ \A t \in Threads : StackView(t)' = StackView(t)
         /\ \A i \in DOMAIN infusions : StaticsView(i)' = StaticsView(i)
<1>1. \A c \in RootChunks : c \in U /\ c \in Sources
  BY RootsAreSeen DEF RootsSeen, Carries, Sources, RootChunks
<1>2. RootChunks' = {b[c] : c \in RootChunks}
  <2>1. \A c : c \in RootChunks' =>
          \/ \E t \in Threads : \E i \in DOMAIN stack'[t] : c = FrameChunk(t, i)'
          \/ \E i \in DOMAIN infusions' : c = InfusionChunk(i)'
    BY RootsSeenNext DEF RootsSeen
  <2>2. \A c : \/ \E t \in Threads : \E i \in DOMAIN stack'[t] : c = FrameChunk(t, i)'
               \/ \E i \in DOMAIN infusions' : c = InfusionChunk(i)'
          => c \in RootChunks'
    BY RootsSeenNext DEF RootsSeen
  <2>3. \A c \in RootChunks' : \E x \in RootChunks : c = b[x]
    BY <2>1, RootsAreSeen DEF RootsSeen, Carries
  <2>4. \A x \in RootChunks : \A c : c = b[x] => c \in RootChunks'
    BY <2>2, RootsAreSeen DEF RootsSeen, Carries
  <2>. QED
    BY <2>3, <2>4
<1>3. \A c \in RootChunks : \A e : e = b[c] => MeantBy(e)' = MeantBy(c) /\ RefsMean(e)' = RefsMean(c)
  BY <1>1, RefsCarried
<1>4. RootLabels' = RootLabels
  <2>1. RootLabels' = UNION {MeantBy(c)' : c \in RootChunks'}
    BY RootsSeenNext DEF RootsSeen
  <2>2. RootLabels = UNION {MeantBy(c) : c \in RootChunks}
    BY RootsAreSeen DEF RootsSeen
  <2>. QED
    BY <1>2, <1>3, <2>1, <2>2
<1>5. ASSUME NEW t \in Threads PROVE StackView(t)' = StackView(t)
  <2>1. DOMAIN stack'[t] = DOMAIN stack[t]
    BY DEF Carries
  <2>2. ASSUME NEW i \in DOMAIN stack[t] PROVE StackView(t)'[i] = StackView(t)[i]
    <3>1. PICK f, g : f = FrameChunk(t, i) /\ g = b[f]
      OBVIOUS
    <3>2. FrameChunk(t, i)' = g /\ f \in U /\ f \in RootChunks
      BY <3>1, RootsAreSeen DEF Carries, RootsSeen
    <3>3. StackView(t)[i] = {FrameView(f)} /\ StackView(t)'[i] = {FrameView(g)'}
      BY <2>1, <3>1, <3>2, RootsAreSeen, RootsSeenNext DEF RootsSeen
    <3>4. mem'[g].name = mem[f].name /\ RefsMean(g)' = RefsMean(f)
      BY <1>3, <3>1, <3>2 DEF Carries, SameChunk
    <3>5. FrameView(g)' = FrameView(f)
      BY <3>4 DEF FrameView
    <3>. QED
      BY <3>3, <3>5
  <2>3. /\ StackView(t) = [i \in DOMAIN stack[t] |-> StackView(t)[i]]
        /\ StackView(t)' = [i \in DOMAIN stack'[t] |-> StackView(t)'[i]]
    BY RootsAreSeen, RootsSeenNext DEF RootsSeen
  <2>. QED
    BY <2>1, <2>2, <2>3
<1>6. ASSUME NEW i \in DOMAIN infusions PROVE StaticsView(i)' = StaticsView(i)
  <2>1. PICK f, g : f = InfusionChunk(i) /\ g = b[f]
    OBVIOUS
  <2>2. InfusionChunk(i)' = g /\ f \in U /\ f \in RootChunks /\ i \in DOMAIN infusions'
    BY <2>1, RootsAreSeen DEF Carries, RootsSeen
  <2>3. /\ StaticsView(i) = {<<mem[f].name, RefsMean(f)>>}
        /\ StaticsView(i)' = {<<mem'[g].name, RefsMean(g)'>>}
    BY <2>1, <2>2, RootsAreSeen, RootsSeenNext DEF RootsSeen
  <2>4. mem'[g].name = mem[f].name /\ RefsMean(g)' = RefsMean(f)
    BY <1>3, <2>1, <2>2 DEF Carries, SameChunk
  <2>. QED
    BY <2>3, <2>4
<1>. QED
  BY <1>4, <1>5, <1>6

\* If it takes all objects that can be reached along, and nothing else becomes reachable, the
\* program sees no difference.
LEMMA ViewCarried ==
  ASSUME IInv, IInv', NEW U, NEW b, Carries(U, b), Reached' = Reached, ReachedHolders \subseteq U,
         Holders' = {b[h] : h \in Holders \cap U}
  PROVE  View' = View
<1>1. /\ ReachedHolders = {h \in Holders : mem[h].label \in Reached}
      /\ ReachedHolders' = {h \in Holders' : mem'[h].label \in Reached'}
  BY DEF ReachedHolders
<1>2. ASSUME NEW h \in Holders \cap U, NEW e, e = b[h]
      PROVE  mem'[e].label = mem[h].label /\ mem'[e].id = mem[h].id /\ RefsMean(e)' = RefsMean(h)
  <2>1. h \in Sources
    BY DEF Holders, Sources
  <2>. QED
    BY <1>2, <2>1, RefsCarried DEF Carries, SameChunk
<1>3. ReachedHolders' = {b[h] : h \in ReachedHolders}
  BY <1>1, <1>2
<1>4. ReachedHolders \subseteq Holders \cap U
  BY <1>1
<1>5. {<<mem[h].label, mem[h].id, RefsMean(h)>> : h \in ReachedHolders}'
        = {<<mem[h].label, mem[h].id, RefsMean(h)>> : h \in ReachedHolders}
  <2>1. \A h \in ReachedHolders : \A e : e = b[h] =>
          mem'[e].label = mem[h].label /\ mem'[e].id = mem[h].id /\ RefsMean(e)' = RefsMean(h)
    BY <1>2, <1>4
  <2>2. {<<mem'[e].label, mem'[e].id, RefsMean(e)'>> : e \in ReachedHolders'}
          = {<<mem[h].label, mem[h].id, RefsMean(h)>> : h \in ReachedHolders}
    BY <1>3, <2>1
  <2>. QED
    BY <2>2
<1>6. [t \in Threads |-> StackView(t)]' = [t \in Threads |-> StackView(t)]
  BY RootsCarried
<1>7. [i \in DOMAIN infusions |-> StaticsView(i)]' = [i \in DOMAIN infusions |-> StaticsView(i)]
  <2>1. DOMAIN infusions' = DOMAIN infusions
    BY DEF Carries
  <2>2. \A i \in DOMAIN infusions : StaticsView(i)' = StaticsView(i)
    BY RootsCarried
  <2>. QED
    BY <2>1, <2>2
<1>. QED
  BY <1>5, <1>6, <1>7 DEF View

\* A step that takes all chunks along.
LEMMA AllCarried ==
  ASSUME IInv, IInv', RInv, NEW b, Carries(Used, b), Used' = {b[d] : d \in Used}
  PROVE  View' = View
<1>1. /\ \A h \in Holders : h \in Used /\ h \in Sources
      /\ \A h : h \in Holders <=> h \in Used /\ HasRefs(mem[h])
  BY HoldersAreObjects DEF Holders, Used, Sources
<1>2. \A h : h \in Holders' <=> h \in Used' /\ HasRefs(mem'[h])
  BY DEF Holders, Used, InUse, HasRefs, IsJava, FREE, REFARRAY, JAVA_START
<1>3. \A d \in Used : HasRefs(mem'[b[d]]) <=> HasRefs(mem[d])
  BY DEF Carries, SameChunk, HasRefs, IsJava
<1>4. Holders' = {b[h] : h \in Holders}
  BY <1>1, <1>2, <1>3
<1>5. ASSUME NEW h \in Holders, NEW e, e = b[h]
      PROVE  mem'[e].label = mem[h].label /\ MeantBy(e)' = MeantBy(h)
  BY <1>1, <1>5, RefsCarried DEF Carries, SameChunk
<1>6. References' = References
  <2>1. References' = {<<mem'[e].label, MeantBy(e)'>> : e \in Holders'}
    BY DEF References
  <2>2. References = {<<mem[h].label, MeantBy(h)>> : h \in Holders}
    BY DEF References
  <2>. QED
    BY <1>4, <1>5, <2>1, <2>2
<1>7. Reached' = Reached
  BY <1>6, RootsCarried DEF Reached
<1>8. ReachedHolders \subseteq Used /\ Holders \cap Used = Holders
  BY <1>1 DEF ReachedHolders
<1>. QED
  BY <1>4, <1>7, <1>8, ViewCarried

\* A step that moves no chunk.
StillRoots ==
  /\ DOMAIN infusions' = DOMAIN infusions
  /\ \A i \in DOMAIN infusions : InfusionChunk(i)' = InfusionChunk(i)
  /\ \A t \in Threads : /\ DOMAIN stack'[t] = DOMAIN stack[t]
                        /\ \A i \in DOMAIN stack[t] : FrameChunk(t, i)' = FrameChunk(t, i)
LEMMA StillCarried ==
  ASSUME IInv, IInv', RInv, Used' = Used, StillRoots,
         \A d \in Used : SameChunk(d, d),
         \A d \in Used : d \in Sources => \A i \in DOMAIN mem[d].refs :
           /\ NullRef(d, i)' <=> NullRef(d, i)
           /\ ~NullRef(d, i) => RefAt(d, i)' = RefAt(d, i)
  PROVE  View' = View
<1>1. PICK b : b = [d \in Used |-> d]
  OBVIOUS
<1>2. \A d, i : RefAt(d, i) \subseteq Used
  BY DEF RefAt, At, Used
<1>3. \A d, i : RefAt(d, i) = {b[x] : x \in RefAt(d, i)}
  BY <1>1, <1>2
<1>4. /\ \A i \in DOMAIN infusions : InfusionChunk(i) \in Used
      /\ \A t \in Threads : \A i \in DOMAIN stack[t] : FrameChunk(t, i) \in Used
  BY RootsAre, RootAt DEF InfusionChunk, FrameChunk
<1>5. \A d \in Used : b[d] = d
  BY <1>1
<1>6. \A d \in Used : d \in Sources => SameRefs(Used, b, d, d)
  BY <1>2, <1>3 DEF SameRefs
<1>7. Carries(Used, b)
  BY <1>4, <1>5, <1>6 DEF Carries, StillRoots
<1>8. Used' = {b[d] : d \in Used}
  BY <1>5
<1>. QED
  BY <1>7, <1>8, AllCarried

\* Outside compaction each root is its own chunk.
LEMMA RootsStill ==
  ASSUME IInv, IInv', phase # "move", phase' # "move", infusions' = infusions, stack' = stack
  PROVE  StillRoots
<1>1. RootPointers' = RootPointers
  BY DEF RootPointers, Frames
<1>2. \A p \in RootPointers : ChunkOf(p) = p /\ ChunkOf(p)' = p
  BY <1>1, RootPlacesHold, RootPlacesNext DEF RootPlaces
<1>3. ASSUME NEW t \in Threads, NEW i \in DOMAIN stack[t] PROVE FrameChunk(t, i)' = FrameChunk(t, i)
  <2>1. PICK p : p = stack[t][i]
    OBVIOUS
  <2>2. p \in RootPointers /\ stack'[t][i] = p
    BY <2>1, RootsAre
  <2>. QED
    BY <1>2, <2>1, <2>2 DEF FrameChunk
<1>4. ASSUME NEW i \in DOMAIN infusions PROVE InfusionChunk(i)' = InfusionChunk(i)
  <2>1. PICK p : p = infusions[i]
    OBVIOUS
  <2>2. p \in RootPointers /\ infusions'[i] = p
    BY <2>1, RootsAre
  <2>. QED
    BY <1>2, <2>1, <2>2 DEF InfusionChunk
<1>. QED
  BY <1>3, <1>4 DEF StillRoots

\* Steps that write colors and shifts only.
LEMMA QuietCarried ==
  ASSUME IInv, IInv', RInv, Quiet, Quiet', infusions' = infusions, stack' = stack,
         DOMAIN mem' = DOMAIN mem,
         \A a \in DOMAIN mem :
           /\ mem'[a].refs = mem[a].refs /\ mem'[a].label = mem[a].label
           /\ mem'[a].id = mem[a].id /\ mem'[a].name = mem[a].name
  PROVE  View' = View
<1>1. Used' = Used
  BY DEF Used, InUse
<1>2. StillRoots
  BY RootsStill DEF Quiet
<1>3. \A d \in Used : SameChunk(d, d)
  BY DEF Used, SameChunk
<1>4. ASSUME NEW d \in Used, NEW i \in DOMAIN mem[d].refs
      PROVE  (NullRef(d, i)' <=> NullRef(d, i)) /\ RefAt(d, i)' = RefAt(d, i)
  <2>1. mem'[d].refs = mem[d].refs
    BY DEF Used
  <2>2. PICK r : r = mem[d].refs[i]
    OBVIOUS
  <2>3. RefAt(d, i) = {r} \cap Used
    BY <2>2 DEF RefAt, At, New, Quiet, Used
  <2>4. RefAt(d, i)' = {r} \cap Used'
    BY <2>1, <2>2 DEF RefAt, At, New, Quiet, Used
  <2>. QED
    BY <1>1, <2>1, <2>2, <2>3, <2>4 DEF NullRef
<1>. QED
  BY <1>1, <1>2, <1>3, <1>4, StillCarried

LEMMA MarkUnseen == ASSUME IInv, IInv', RInv, Mark PROVE View' = View
<1>1. /\ \E a : mem' = mem \/ mem' = Visited(a)
      /\ Quiet /\ Quiet' /\ infusions' = infusions /\ stack' = stack
  BY DEF Mark, Collecting, Quiet
<1>2. \A x \in DOMAIN mem : DOMAIN mem[x] = Fields
  BY DEF IInv, HeapInv, Shaped
<1>3. /\ DOMAIN mem' = DOMAIN mem
      /\ \A x \in DOMAIN mem :
           /\ mem'[x].refs = mem[x].refs /\ mem'[x].label = mem[x].label
           /\ mem'[x].id = mem[x].id /\ mem'[x].name = mem[x].name
  BY <1>1, <1>2 DEF Visited, Fields
<1>. QED
  BY <1>1, <1>3, QuietCarried

LEMMA ShiftUnseen == ASSUME IInv, IInv', RInv, Shift PROVE View' = View
<1>1. /\ mem' = [a \in DOMAIN mem |-> [mem[a] EXCEPT !.shift = ShiftOf(a)]]
      /\ Quiet /\ Quiet' /\ infusions' = infusions /\ stack' = stack
  BY DEF Shift, Collecting, Quiet
<1>2. \A x \in DOMAIN mem : DOMAIN mem[x] = Fields
  BY DEF IInv, HeapInv, Shaped
<1>3. /\ DOMAIN mem' = DOMAIN mem
      /\ \A x \in DOMAIN mem :
           /\ mem'[x].refs = mem[x].refs /\ mem'[x].label = mem[x].label
           /\ mem'[x].id = mem[x].id /\ mem'[x].name = mem[x].name
  BY <1>1, <1>2 DEF Fields
<1>. QED
  BY <1>1, <1>3, QuietCarried

\* Finalising.

LEMMA AllLabelsBound == ASSUME IInv, RInv, Quiet PROVE Bounding(Labels)
<1>1. \A h \in Holders : LabelsOf(RefsOf(h)) \subseteq Labels
  BY HolderRefs DEF Holders, Sources
<1>2. \A p \in RootPointers : LabelsOf(RefsOf(p)) \subseteq Labels
  BY HolderRefs, RootsInPlace DEF Sources, Quiet
<1>3. LabelsOf(FrameRefs \cup StaticRefs) \subseteq Labels
  BY <1>2 DEF LabelsOf, FrameRefs, StaticRefs, RootPointers, RefsOf
<1>. QED
  BY <1>1, <1>3 DEF Bounding

BoundedReach ==
  IInv /\ RInv /\ Quiet =>
    Bounding(Labels) /\ Reached = {l \in Labels : \A s : Bounding(s) => l \in s}
LEMMA BoundedReachHolds == BoundedReach
BY AllLabelsBound, ReachedAre DEF BoundedReach
LEMMA BoundedReachNext == BoundedReach'
BY BoundedReachHolds, PTL

LEMMA SweepUnbounds ==
  ASSUME IInv, RInv, MarkInv, MarkAgain, ~gray, NEW s, Bounding(s)
  PROVE  Bounding(s)'
<1>1. ASSUME NEW h \in Holders', mem'[h].label \in s
      PROVE  LabelsOf(RefsOf(h))' \subseteq s
  <2>1. h \in Holders /\ h \in Sources /\ mem[h].color # "white" /\ mem[h].label \in s
    BY <1>1, SweepFrees DEF Holders, Sources
  <2>2. LabelsOf(RefsOf(h))' = LabelsOf(RefsOf(h))
    BY <2>1, SweepKeeps
  <2>. QED
    BY <2>1, <2>2 DEF Bounding
<1>2. ASSUME NEW l \in LabelsOf(FrameRefs \cup StaticRefs)' PROVE l \in s
  <2>1. PICK r \in (FrameRefs \cup StaticRefs)' : r # NoRef /\ l = mem'[r].label
    BY <1>2 DEF LabelsOf
  <2>2. PICK p \in RootPointers : r \in Members(mem'[p].refs)
    BY <2>1, SweepFrees DEF FrameRefs, StaticRefs, RootPointers, Frames
  <2>3. p \in Sources /\ mem[p].color # "white" /\ p \in DOMAIN mem
    <3>1. Held(p) /\ ChunkOf(p) = p /\ p \in DOMAIN mem
      BY SweepFrees, RootsHeld, RootsInPlace DEF IInv
    <3>. QED
      BY <3>1, SweepFrees DEF Held, HeldAt, Sources
  <2>4. r \in RefsOf(p)
    BY <2>2, <2>3, SweepFrees DEF RefsOf
  <2>5. r \in DOMAIN mem
    BY <2>1, <2>3, <2>4, SweepKeeps
  <2>6. l = mem[r].label
    BY <2>1, <2>5, SweepFrees
  <2>7. r \in FrameRefs \cup StaticRefs
    BY <2>4 DEF RefsOf, FrameRefs, StaticRefs, RootPointers
  <2>8. l \in LabelsOf(FrameRefs \cup StaticRefs)
    BY <2>1, <2>6, <2>7 DEF LabelsOf
  <2>. QED
    BY <2>8 DEF Bounding
<1>3. s \subseteq Labels
  BY DEF Bounding
<1>. QED
  BY <1>1, <1>2, <1>3 DEF Bounding

LEMMA SweepReaches ==
  ASSUME IInv, IInv', RInv, RInv', MarkInv, LabelsInv, MarkAgain, ~gray
  PROVE  /\ Reached' = Reached
         /\ \A h \in ReachedHolders : mem[h].color # "white"
<1>1. /\ Reached = {l \in Labels : \A s : Bounding(s) => l \in s}
      /\ Reached' = {l \in Labels : \A s : Bounding(s)' => l \in s}
      /\ Bounding(Labels)'
  BY SweepFrees, BoundedReachHolds, BoundedReachNext DEF BoundedReach
<1>2. ASSUME NEW l \in Reached, NEW s, Bounding(s)' PROVE l \in s
  BY <1>1, <1>2, SweepBounds
<1>3. ASSUME NEW l \in Reached', NEW s, Bounding(s) PROVE l \in s
  BY <1>1, <1>3, SweepUnbounds
<1>4. ASSUME NEW h \in ReachedHolders PROVE mem[h].color # "white"
  <2>1. h \in Holders /\ mem[h].label \in Reached
    BY SweepFrees, ReachedAre
  <2>2. mem[h].label \in Labels \cap Marked
    BY <1>1, <2>1, SweepBounds
  <2>3. PICK d \in DOMAIN mem : /\ InUse(d) /\ mem[d].kind = "object" /\ mem[d].color # "white"
                                /\ mem[d].label = mem[h].label
    BY <2>2 DEF Marked
  <2>. QED
    BY <2>1, <2>3, HoldersAreObjects DEF LabelsInv
<1>. QED
  BY <1>1, <1>2, <1>3, <1>4

LEMMA SweepUnseen ==
  ASSUME IInv, IInv', RInv, RInv', MarkInv, LabelsInv, MarkAgain, ~gray
  PROVE  View' = View
<1>1. PICK U, b : U = {d \in Used : mem[d].color # "white"} /\ b = [d \in U |-> d]
  OBVIOUS
<1>2. U \subseteq DOMAIN mem /\ U \subseteq Used /\ \A d \in U : b[d] = d /\ mem[d].color # "white"
  BY <1>1 DEF Used
<1>3. Used' = U
  BY <1>1, SweepFrees DEF Used, InUse
<1>4. \A d \in U : SameChunk(d, d)
  BY <1>2, SweepFrees DEF SameChunk
<1>5. ASSUME NEW d \in U, d \in Sources PROVE SameRefs(U, b, d, d)
  <2>1. mem'[d].refs = mem[d].refs
    BY <1>2, SweepFrees
  <2>2. ASSUME NEW i \in DOMAIN mem[d].refs, ~NullRef(d, i)
        PROVE  RefAt(d, i) \subseteq U /\ RefAt(d, i)' = {b[x] : x \in RefAt(d, i)}
    <3>1. PICK r : r = mem[d].refs[i]
      OBVIOUS
    <3>2. r \in RefsOf(d) /\ r # NoRef
      BY <2>2, <3>1 DEF RefsOf, Members, NullRef
    <3>3. r \in U
      BY <1>1, <1>2, <1>5, <3>2, SweepKeeps DEF Used
    <3>4. RefAt(d, i) = {r} \cap Used
      BY <3>1, SweepFrees DEF RefAt, At, New, Quiet, Used
    <3>5. RefAt(d, i)' = {r} \cap Used'
      BY <2>1, <3>1, SweepFrees DEF RefAt, At, New, Quiet, Used
    <3>6. RefAt(d, i) = {r} /\ RefAt(d, i)' = {r}
      BY <1>2, <1>3, <3>3, <3>4, <3>5
    <3>. QED
      BY <1>2, <3>3, <3>6
  <2>. QED
    BY <2>1, <2>2 DEF SameRefs, NullRef
<1>6. ASSUME NEW p \in RootPointers PROVE ChunkOf(p) \in U
  <2>1. Held(p)
    BY RootsHeld DEF IInv
  <2>. QED
    BY <1>1, <2>1, SweepFrees DEF Held, HeldAt, Used
<1>7. StillRoots
  BY SweepFrees, RootsStill DEF Quiet
<1>8. /\ \A i \in DOMAIN infusions : InfusionChunk(i) \in U
      /\ \A t \in Threads : \A i \in DOMAIN stack[t] : FrameChunk(t, i) \in U
  BY <1>6, RootsAre DEF InfusionChunk, FrameChunk
<1>9. Carries(U, b)
  BY <1>2, <1>4, <1>5, <1>7, <1>8 DEF Carries, StillRoots
<1>10. Holders' = {b[h] : h \in Holders \cap U}
  <2>1. \A h : h \in Holders' <=> h \in Holders /\ mem[h].color # "white"
    BY SweepFrees DEF Holders
  <2>2. \A h \in Holders : h \in Used
    BY HoldersAreObjects DEF Used
  <2>. QED
    BY <1>1, <1>2, <2>1, <2>2
<1>11. ReachedHolders \subseteq U
  BY <1>1, SweepReaches, HoldersAreObjects DEF ReachedHolders, Used
<1>. QED
  BY <1>9, <1>10, <1>11, SweepReaches, ViewCarried

LEMMA MarkAgainUnseen ==
  ASSUME IInv, IInv', RInv, RInv', MarkInv, LabelsInv, MarkAgain PROVE View' = View
<1>1. CASE gray
  <2>1. mem' = mem /\ Quiet /\ Quiet' /\ infusions' = infusions /\ stack' = stack
    BY <1>1 DEF MarkAgain, Collecting, Quiet
  <2>. QED
    BY <2>1, QuietCarried
<1>. QED
  BY <1>1, SweepUnseen

\* The two passes over the references.

\* No two chunks move to the same place, and nullref is none.
LEMMA TargetsApart ==
  ASSUME IInv, phase \in {"managed", "system"}, NEW r \in Used
  PROVE  /\ Updated(r) = r - mem[r].shift /\ Updated(r) # NoRef
         /\ {e \in Used : e - mem[e].shift = Updated(r)} = {r}
<1>1. Shaped /\ Tiled /\ \A a \in DOMAIN mem : mem[a].shift = ShiftOf(a)
  BY DEF IInv, HeapInv, ShiftsSet
<1>2. \A a \in DOMAIN mem : a \in Nat /\ mem[a].size \in Nat \ {0}
  BY <1>1 DEF Shaped
<1>3. \A a \in Used : Target(a) \in Nat
  BY <1>1, CompactionFits DEF Used
<1>4. \A a, e \in Used : a < e => Target(a) + mem[a].size <= Target(e)
  BY <1>1, CompactionFits DEF Used
<1>5. \A a, e \in Used : Target(a) = Target(e) => a = e
  <2>. SUFFICES ASSUME NEW a \in Used, NEW e \in Used, Target(a) = Target(e) PROVE a = e
    OBVIOUS
  <2>1. a \in Nat /\ e \in Nat /\ mem[a].size \in Nat \ {0} /\ mem[e].size \in Nat \ {0}
    BY <1>2 DEF Used
  <2>2. ~(a < e) /\ ~(e < a)
    BY <1>3, <1>4, <2>1
  <2>. QED
    BY <2>1, <2>2
<1>6. \A a \in Used : Target(a) = a - mem[a].shift
  BY <1>1 DEF Target, Used
<1>7. Updated(r) = r - mem[r].shift
  BY DEF Updated, Used
<1>8. Updated(r) # NoRef
  BY <1>3, <1>6, <1>7, HeapAssumption
<1>. QED
  BY <1>5, <1>6, <1>7, <1>8

LEMMA UpdateManagedUnseen == ASSUME IInv, IInv', RInv, UpdateManaged PROVE View' = View
<1>1. phase = "managed" /\ Quiet /\ infusions' = infusions /\ stack' = stack
  BY DEF UpdateManaged, Collecting, Quiet
<1>2. CASE \E a \in DOMAIN mem : ClassMissing(mem[a])
  <2>1. mem' = mem /\ Quiet'
    BY <1>1, <1>2 DEF UpdateManaged, Quiet
  <2>. QED
    BY <1>1, <2>1, QuietCarried
<1>3. CASE ~\E a \in DOMAIN mem : ClassMissing(mem[a])
  <2>1. mem' = ManagedUpdated /\ phase' = "system"
    BY <1>3 DEF UpdateManaged
  <2>2. DOMAIN mem' = DOMAIN mem
    BY <2>1 DEF ManagedUpdated
  <2>3. ASSUME NEW a \in DOMAIN mem
        PROVE  /\ mem'[a].id = mem[a].id /\ mem'[a].name = mem[a].name
               /\ mem'[a].label = mem[a].label /\ mem'[a].shift = mem[a].shift
               /\ mem'[a].refs = IF HasRefs(mem[a]) THEN UpdatedAll(mem[a].refs) ELSE mem[a].refs
    <3>1. DOMAIN mem[a] = Fields
      BY DEF IInv, HeapInv, Shaped
    <3>2. PICK s : s = UpdatedAll(mem[a].refs)
      OBVIOUS
    <3>3. mem'[a] = IF HasRefs(mem[a]) THEN [mem[a] EXCEPT !.refs = s] ELSE mem[a]
      BY <2>1, <3>2 DEF ManagedUpdated
    <3>. QED
      BY <3>1, <3>2, <3>3 DEF Fields
  <2>4. Used' = Used
    BY <2>2, <2>3 DEF Used, InUse
  <2>5. StillRoots
    BY <1>1, <2>1, RootsStill
  <2>6. \A d \in Used : SameChunk(d, d)
    BY <2>2, <2>3 DEF Used, SameChunk, UpdatedAll
  <2>7. ASSUME NEW d \in Used, d \in Sources, NEW i \in DOMAIN mem[d].refs
        PROVE  (NullRef(d, i)' <=> NullRef(d, i)) /\ (~NullRef(d, i) => RefAt(d, i)' = RefAt(d, i))
    <3>1. PICK r, q : r = mem[d].refs[i] /\ q = mem'[d].refs[i]
      OBVIOUS
    <3>2. r \in RefsOf(d)
      BY <3>1 DEF RefsOf, Members
    <3>3. r = NoRef \/ r \in Used
      BY <1>1, <2>7, <3>2, HolderRefs DEF Live, Used
    <3>4. RefAt(d, i) = {r} \cap Used
      BY <1>1, <3>1 DEF RefAt, At, New, Used
    <3>5. d \in DOMAIN mem
      BY DEF Used
    <3>6. CASE ~HasRefs(mem[d])
      <4>1. q = r
        BY <2>3, <3>1, <3>5, <3>6
      <4>2. ~HasRefs(mem'[d])
        BY <2>3, <3>5, <3>6 DEF HasRefs, IsJava
      <4>3. RefAt(d, i)' = {q} \cap Used'
        BY <2>1, <3>1, <4>2 DEF RefAt, At, New, Used
      <4>. QED
        BY <2>4, <3>1, <3>4, <4>1, <4>3 DEF NullRef
    <3>7. CASE HasRefs(mem[d])
      <4>1. q = Updated(r)
        BY <2>3, <3>1, <3>5, <3>7 DEF UpdatedAll
      <4>2. HasRefs(mem'[d])
        BY <2>3, <3>5, <3>7 DEF HasRefs, IsJava
      <4>3. RefAt(d, i)' = {e \in Used' : e - mem'[e].shift = q}
        BY <2>1, <3>1, <4>2 DEF RefAt, At, New, Used, Place
      <4>4. RefAt(d, i)' = {e \in Used : e - mem[e].shift = q}
        BY <2>3, <2>4, <4>3 DEF Used
      <4>5. CASE r = NoRef
        <5>1. q = NoRef
          BY <1>1, <4>1, <4>5, UpdatedSeqs
        <5>. QED
          BY <3>1, <4>5, <5>1 DEF NullRef
      <4>6. CASE r # NoRef
        <5>1. r \in Used /\ q # NoRef /\ RefAt(d, i)' = {r}
          BY <1>1, <3>3, <4>1, <4>4, <4>6, TargetsApart
        <5>. QED
          BY <3>1, <3>4, <4>6, <5>1 DEF NullRef
      <4>. QED
        BY <4>5, <4>6
    <3>. QED
      BY <3>6, <3>7
  <2>. QED
    BY <2>4, <2>5, <2>6, <2>7, StillCarried
<1>. QED
  BY <1>2, <1>3

LEMMA StaleUnseen ==
  ASSUME IInv, IInv', RInv, UpdateSystem, StaleFrames # {} PROVE View' = View
<1>1. /\ mem' = mem /\ phase' = phase /\ phase = "system" /\ loc' = loc
      /\ infusions' = infusions /\ stack' = stack
  BY DEF UpdateSystem, Collecting
<1>2. Used' = Used /\ \A d \in Used : SameChunk(d, d)
  BY <1>1 DEF Used, InUse, SameChunk
<1>3. StillRoots
  BY <1>1, RootsStill
<1>4. \A d, i : (NullRef(d, i)' <=> NullRef(d, i)) /\ RefAt(d, i)' = RefAt(d, i)
  BY <1>1 DEF NullRef, RefAt, At, New, Place, InUse
<1>. QED
  BY <1>2, <1>3, <1>4, StillCarried

\* Each pointer outside the heap becomes the place its chunk moves to.
LEMMA UpdatedRoots ==
  ASSUME IInv, IInv', RInv, UpdateSystem, StaleFrames = {}
  PROVE  /\ \A q \in RootPointers : q \in DOMAIN mem /\ \A p : p = Updated(q) => ChunkOf(p)' = q
         /\ StillRoots
<1>1. /\ phase = "system" /\ phase' = "move" /\ loc = 0 /\ loc' = 0
      /\ mem' = SystemUpdated /\ infusions' = UpdatedAll(infusions)
      /\ stack' = [t \in Threads |-> UpdatedAll(stack[t])]
  BY DEF UpdateSystem, Collecting, IInv, HeapInv
<1>2. DOMAIN mem' = DOMAIN mem
  BY <1>1 DEF SystemUpdated
<1>3. ASSUME NEW a \in DOMAIN mem
      PROVE  mem'[a].id = mem[a].id /\ mem'[a].shift = mem[a].shift /\ a \in Nat
  <2>1. DOMAIN mem[a] = Fields /\ a \in Nat
    BY DEF IInv, HeapInv, Shaped
  <2>2. PICK s, link : s = UpdatedAll(mem[a].refs) /\ link = Updated(mem[a].infusion)
    OBVIOUS
  <2>3. mem'[a] = IF mem[a].id \in {FRAME, INFUSION}
                  THEN [mem[a] EXCEPT !.refs = s, !.infusion = link] ELSE mem[a]
    BY <1>1, <2>2 DEF SystemUpdated
  <2>. QED
    BY <2>1, <2>3 DEF Fields
<1>4. ASSUME NEW q \in RootPointers, NEW p, p = Updated(q)
      PROVE  ChunkOf(p)' = q /\ q \in DOMAIN mem /\ ChunkOf(q) = q
  <2>1. q \in DOMAIN mem /\ InUse(q) /\ ChunkOf(q) = q
    BY <1>1, RootsInPlace
  <2>2. HeldAt(p, q)'
    BY <1>1, <1>2, <1>3, <1>4, <2>1 DEF HeldAt, InUse, Updated, Spot
  <2>3. HeapInv'
    BY DEF IInv
  <2>. QED
    BY <2>1, <2>2, <2>3, HeldIsRootNext DEF RootsAreHeld
<1>5. ASSUME NEW t \in Threads
      PROVE  /\ DOMAIN stack'[t] = DOMAIN stack[t]
             /\ \A i \in DOMAIN stack[t] : FrameChunk(t, i)' = FrameChunk(t, i)
  <2>1. stack'[t] = UpdatedAll(stack[t])
    BY <1>1
  <2>2. ASSUME NEW i \in DOMAIN stack[t] PROVE FrameChunk(t, i)' = FrameChunk(t, i)
    <3>1. PICK q, p : q = stack[t][i] /\ p = Updated(q)
      OBVIOUS
    <3>2. q \in RootPointers /\ stack'[t][i] = p
      BY <2>1, <3>1, RootsAre DEF UpdatedAll
    <3>. QED
      BY <1>4, <3>1, <3>2 DEF FrameChunk
  <2>. QED
    BY <2>1, <2>2 DEF UpdatedAll
<1>6. ASSUME NEW i \in DOMAIN infusions PROVE InfusionChunk(i)' = InfusionChunk(i)
  <2>1. PICK q, p : q = infusions[i] /\ p = Updated(q)
    OBVIOUS
  <2>2. q \in RootPointers /\ infusions'[i] = p
    BY <1>1, <2>1, RootsAre DEF UpdatedAll
  <2>. QED
    BY <1>4, <2>1, <2>2 DEF InfusionChunk
<1>7. StillRoots
  BY <1>1, <1>5, <1>6 DEF StillRoots, UpdatedAll
<1>. QED
  BY <1>4, <1>7

LEMMA UpdateSystemUnseen == ASSUME IInv, IInv', RInv, UpdateSystem PROVE View' = View
<1>. SUFFICES ASSUME StaleFrames = {} PROVE View' = View
  BY StaleUnseen
<1>1. /\ phase = "system" /\ phase' = "move" /\ loc' = 0 /\ mem' = SystemUpdated
  BY DEF UpdateSystem, Collecting, IInv, HeapInv
<1>2. DOMAIN mem' = DOMAIN mem
  BY <1>1 DEF SystemUpdated
<1>3. ASSUME NEW a \in DOMAIN mem
      PROVE  /\ mem'[a].id = mem[a].id /\ mem'[a].name = mem[a].name /\ a \in Nat
             /\ mem'[a].label = mem[a].label /\ mem'[a].shift = mem[a].shift
             /\ mem'[a].refs = IF mem[a].id \in {FRAME, INFUSION} THEN UpdatedAll(mem[a].refs)
                               ELSE mem[a].refs
  <2>1. DOMAIN mem[a] = Fields /\ a \in Nat
    BY DEF IInv, HeapInv, Shaped
  <2>2. PICK s, link : s = UpdatedAll(mem[a].refs) /\ link = Updated(mem[a].infusion)
    OBVIOUS
  <2>3. mem'[a] = IF mem[a].id \in {FRAME, INFUSION}
                  THEN [mem[a] EXCEPT !.refs = s, !.infusion = link] ELSE mem[a]
    BY <1>1, <2>2 DEF SystemUpdated
  <2>. QED
    BY <2>1, <2>2, <2>3 DEF Fields
<1>4. Used' = Used
  BY <1>2, <1>3 DEF Used, InUse
<1>5. StillRoots
  BY UpdatedRoots
<1>6. \A d \in Used : SameChunk(d, d)
  BY <1>2, <1>3 DEF Used, SameChunk, UpdatedAll
<1>7. ASSUME NEW d \in Used, d \in Sources, NEW i \in DOMAIN mem[d].refs
      PROVE  (NullRef(d, i)' <=> NullRef(d, i)) /\ (~NullRef(d, i) => RefAt(d, i)' = RefAt(d, i))
  <2>1. PICK r, q : r = mem[d].refs[i] /\ q = mem'[d].refs[i]
    OBVIOUS
  <2>2. r \in Members(mem[d].refs) /\ d \in DOMAIN mem
    BY <2>1 DEF Members, Used
  <2>3. \A e \in Used' : Place(e)' = e - mem'[e].shift
    BY <1>1, <1>2, <1>3 DEF Used, Place
  <2>4. RefAt(d, i)' = {e \in Used' : e - mem'[e].shift = q}
    BY <1>1, <2>1, <2>3 DEF RefAt, At, New, Used
  <2>5. RefAt(d, i)' = {e \in Used : e - mem[e].shift = q}
    BY <1>3, <1>4, <2>4 DEF Used
  <2>6. CASE HasRefs(mem[d])
    <3>1. q = r
      BY <1>3, <2>1, <2>2, <2>6 DEF HasRefs, IsJava, FRAME, INFUSION, REFARRAY, JAVA_START
    <3>2. RefAt(d, i) = {e \in Used : e - mem[e].shift = r}
      BY <1>1, <2>1, <2>6 DEF RefAt, At, New, Used, Place
    <3>. QED
      BY <2>1, <2>5, <3>1, <3>2 DEF NullRef
  <2>7. CASE ~HasRefs(mem[d])
    <3>1. d \in RootPointers /\ mem[d].id \in {FRAME, INFUSION}
      BY <1>1, <1>7, <2>7, SourcesAreInPlace, RootsInPlace DEF SourcesInPlace
    <3>2. q = Updated(r)
      BY <1>3, <2>1, <2>2, <3>1 DEF UpdatedAll
    <3>3. r = NoRef \/ r \in Used
      BY <1>1, <2>2, <3>1, SystemRefsHold DEF SystemRefs, RInv, Live, Used
    <3>4. RefAt(d, i) = {r} \cap Used
      BY <1>1, <2>1, <2>7 DEF RefAt, At, New, Used
    <3>5. CASE r = NoRef
      <4>1. q = NoRef
        BY <1>1, <3>2, <3>5, UpdatedSeqs
      <4>. QED
        BY <2>1, <3>5, <4>1 DEF NullRef
    <3>6. CASE r # NoRef
      <4>1. r \in Used /\ q # NoRef /\ RefAt(d, i)' = {r}
        BY <1>1, <2>5, <3>2, <3>3, <3>6, TargetsApart
      <4>. QED
        BY <2>1, <3>4, <3>6, <4>1 DEF NullRef
    <3>. QED
      BY <3>5, <3>6
  <2>. QED
    BY <2>6, <2>7
<1>. QED
  BY <1>4, <1>5, <1>6, <1>7, StillCarried

\* The moves.
LEMMA MoveUnseen == ASSUME IInv, IInv', RInv, Move PROVE View' = View
<1>1. PICK a \in DOMAIN mem :
        NextInUse(a) /\ mem' = MovedTo(a, a - mem[a].shift) /\ loc' = a + mem[a].size
  BY DEF Move
<1>2. phase = "move" /\ phase' = "move" /\ infusions' = infusions /\ stack' = stack
  BY DEF Move, Collecting
<1>3. PICK to, b : to = Spot(a) /\ b = [d \in Used |-> IF d = a THEN to ELSE d]
  OBVIOUS
<1>4. MovedAlone(a, to)
  BY <1>1, <1>2, <1>3, MoveMoves DEF IInv
<1>5. /\ to \in DOMAIN mem' /\ Spot(to)' = to /\ a \in Used
      /\ mem'[to].id = mem[a].id /\ mem'[to].name = mem[a].name
      /\ mem'[to].refs = mem[a].refs /\ mem'[to].label = mem[a].label
  <2>1. mem'[to] = [mem[a] EXCEPT !.color = "white", !.shift = 0]
    BY <1>4 DEF MovedAlone
  <2>2. DOMAIN mem[a] = Fields
    BY DEF IInv, HeapInv, Shaped
  <2>3. a \in Used
    BY <1>1 DEF NextInUse, Used
  <2>. QED
    BY <1>4, <2>1, <2>2, <2>3 DEF MovedAlone, Fields
<1>6. ASSUME NEW d \in Used, NEW e, e = b[d]
      PROVE  /\ e \in Used' /\ Spot(e)' = Spot(d) /\ SameChunk(d, e) /\ mem'[e].refs = mem[d].refs
             /\ mem'[e].id = mem[d].id
  <2>1. CASE d = a
    <3>1. e = to
      BY <1>3, <1>6, <2>1
    <3>. QED
      BY <1>3, <1>5, <2>1, <3>1 DEF Used, InUse, SameChunk
  <2>2. CASE d # a
    <3>1. e = d /\ d \in DOMAIN mem /\ InUse(d)
      BY <1>3, <1>6, <2>2 DEF Used
    <3>2. d \in DOMAIN mem' /\ mem'[d] = mem[d] /\ Spot(d)' = Spot(d)
      BY <1>4, <2>2, <3>1 DEF MovedAlone
    <3>. QED
      BY <3>1, <3>2 DEF Used, InUse, SameChunk
  <2>. QED
    BY <2>1, <2>2
<1>7. ASSUME NEW e \in Used' PROVE \E d \in Used : e = b[d]
  <2>1. CASE e = to
    BY <1>3, <1>5, <2>1
  <2>2. CASE e # to
    <3>1. e \in DOMAIN mem /\ e # a /\ mem'[e] = mem[e]
      BY <1>4, <2>2 DEF MovedAlone, Used
    <3>2. e \in Used
      BY <3>1 DEF Used, InUse
    <3>. QED
      BY <1>3, <3>1, <3>2
  <2>. QED
    BY <2>1, <2>2
<1>8. Used' = {b[d] : d \in Used}
  BY <1>6, <1>7
<1>9. ASSUME NEW d \in Used, NEW e, e = b[d], NEW i \in DOMAIN mem[d].refs
      PROVE  /\ NullRef(e, i)' <=> NullRef(d, i)
             /\ RefAt(d, i) \subseteq Used /\ RefAt(e, i)' = {b[x] : x \in RefAt(d, i)}
  <2>1. PICK r : r = mem[d].refs[i]
    OBVIOUS
  <2>2. mem'[e].refs[i] = r
    BY <1>6, <1>9, <2>1
  <2>3. RefAt(d, i) = {x \in Used : Spot(x) = r}
    BY <1>2, <2>1 DEF RefAt, At, New, Used, Place, Spot
  <2>4. RefAt(e, i)' = {x \in Used' : Spot(x)' = r}
    BY <1>2, <2>2 DEF RefAt, At, New, Used, Place, Spot
  <2>5. \A x \in Used : \A y : y = b[x] => y \in Used' /\ Spot(y)' = Spot(x)
    BY <1>6
  <2>6. RefAt(e, i)' = {b[x] : x \in RefAt(d, i)}
    BY <1>7, <2>3, <2>4, <2>5
  <2>. QED
    BY <2>1, <2>2, <2>3, <2>6 DEF NullRef
<1>10. ASSUME NEW p \in RootPointers PROVE ChunkOf(p)' = b[ChunkOf(p)] /\ ChunkOf(p) \in Used
  <2>1. PICK d, e : d = ChunkOf(p) /\ e = b[d]
    OBVIOUS
  <2>2. HeldAt(p, d)
    BY <2>1, RootsHeld DEF IInv, Held
  <2>3. d \in Used /\ Spot(d) = p
    BY <2>2 DEF HeldAt, Used
  <2>4. e \in Used' /\ Spot(e)' = p
    BY <1>6, <2>1, <2>3
  <2>5. HeldAt(p, e)'
    BY <1>2, <2>4 DEF HeldAt, Used
  <2>. QED
    BY <2>1, <2>3, <2>5, HeldIsRootNext DEF RootsAreHeld, IInv
<1>11. ASSUME NEW t \in Threads, NEW i \in DOMAIN stack[t]
       PROVE  FrameChunk(t, i) \in Used /\ FrameChunk(t, i)' = b[FrameChunk(t, i)]
  <2>1. PICK p : p = stack[t][i]
    OBVIOUS
  <2>2. p \in RootPointers /\ stack'[t][i] = p
    BY <1>2, <2>1, RootsAre
  <2>. QED
    BY <1>10, <2>1, <2>2 DEF FrameChunk
<1>12. ASSUME NEW i \in DOMAIN infusions
       PROVE  InfusionChunk(i) \in Used /\ InfusionChunk(i)' = b[InfusionChunk(i)]
  <2>1. PICK p : p = infusions[i]
    OBVIOUS
  <2>2. p \in RootPointers /\ infusions'[i] = p
    BY <1>2, <2>1, RootsAre
  <2>. QED
    BY <1>10, <2>1, <2>2 DEF InfusionChunk
<1>13. \A d \in Used : SameChunk(d, b[d]) /\ SameRefs(Used, b, d, b[d])
  BY <1>6, <1>9 DEF SameRefs
<1>14. Carries(Used, b)
  BY <1>2, <1>11, <1>12, <1>13 DEF Carries
<1>. QED
  BY <1>8, <1>14, AllCarried

LEMMA EndMoveUnseen == ASSUME IInv, IInv', RInv, EndMove PROVE View' = View
<1>1. /\ phase = "move" /\ phase' = "alloc" /\ infusions' = infusions /\ stack' = stack
      /\ mem' = [a \in {x \in DOMAIN mem : InUse(x)} |-> mem[a]]
      /\ \A a \in DOMAIN mem : a >= loc => ~InUse(a)
  BY DEF EndMove, Collecting
<1>2. \A d \in Used : Spot(d) = d /\ Place(d) = d
  BY <1>1 DEF Spot, Place, Used
<1>3. DOMAIN mem' = Used /\ \A d \in Used : mem'[d] = mem[d]
  BY <1>1 DEF Used
<1>4. Used' = Used
  BY <1>3 DEF Used, InUse
<1>5. ASSUME NEW p \in RootPointers PROVE ChunkOf(p) = p /\ ChunkOf(p)' = p
  <2>1. PICK d : d = ChunkOf(p)
    OBVIOUS
  <2>2. HeldAt(p, d)
    BY <2>1, RootsHeld DEF IInv, Held
  <2>3. d = p
    BY <1>2, <2>2 DEF HeldAt, Used
  <2>4. p \in RootPointers'
    BY <1>1 DEF RootPointers, Frames
  <2>5. ChunkOf(p)' = p
    BY <1>1, <2>4, RootPlacesNext DEF RootPlaces
  <2>. QED
    BY <2>1, <2>3, <2>5
<1>6. ASSUME NEW t \in Threads, NEW i \in DOMAIN stack[t]
      PROVE  FrameChunk(t, i)' = FrameChunk(t, i)
  <2>1. PICK p : p = stack[t][i]
    OBVIOUS
  <2>2. p \in RootPointers /\ stack'[t][i] = p
    BY <1>1, <2>1, RootsAre
  <2>. QED
    BY <1>5, <2>1, <2>2 DEF FrameChunk
<1>7. ASSUME NEW i \in DOMAIN infusions PROVE InfusionChunk(i)' = InfusionChunk(i)
  <2>1. PICK p : p = infusions[i]
    OBVIOUS
  <2>2. p \in RootPointers /\ infusions'[i] = p
    BY <1>1, <2>1, RootsAre
  <2>. QED
    BY <1>5, <2>1, <2>2 DEF InfusionChunk
<1>8. StillRoots
  BY <1>1, <1>6, <1>7 DEF StillRoots
<1>9. \A d \in Used : SameChunk(d, d)
  BY <1>3 DEF SameChunk
<1>10. ASSUME NEW d \in Used, NEW i \in DOMAIN mem[d].refs
       PROVE  (NullRef(d, i)' <=> NullRef(d, i)) /\ RefAt(d, i)' = RefAt(d, i)
  <2>1. PICK r : r = mem[d].refs[i]
    OBVIOUS
  <2>2. mem'[d].refs[i] = r
    BY <1>3, <2>1
  <2>3. RefAt(d, i) = {x \in Used : x = r}
    BY <1>1, <1>2, <2>1 DEF RefAt, At, New, Used
  <2>4. RefAt(d, i)' = {r} \cap Used'
    BY <1>1, <2>2 DEF RefAt, At, New, Used
  <2>. QED
    BY <1>4, <2>1, <2>2, <2>3, <2>4 DEF NullRef
<1>. QED
  BY <1>4, <1>8, <1>9, <1>10, StillCarried

\* Only the collector runs in a collection.
LEMMA CollectionSteps == ASSUME InCollection, Next PROVE Collect
<1>1. phase \notin {"run", "alloc", "unwind"}
  BY DEF InCollection
<1>2. ASSUME NEW t \in Threads PROVE ~Instruction(t)
  <2>1. ~Running(t)
    BY <1>1 DEF Running
  <2>. QED
    BY <2>1 DEF Instruction, GETSTATIC_A, PUTSTATIC_A, GETFIELD_A, PUTFIELD_A, POP, NEWOBJECT,
                ANEWARRAY, INVOKE, START, THROW, LOAD, RETURN, ARETURN, UNLOAD
<1>3. ~Resume /\ ~SCHEDULE
  BY <1>1 DEF Resume, SCHEDULE, GotObject, GotFrame, GotInfusion, GotException, OutOfMemory, Panic,
              CATCH, UNWIND, Granted, Refused, Unwinding
<1>. QED
  BY <1>2, <1>3 DEF Next

LEMMA CollectUnseen == ASSUME MarkedInv, MarkedInv', Collect PROVE View' = View
BY MarkUnseen, MarkAgainUnseen, ShiftUnseen, UpdateManagedUnseen, UpdateSystemUnseen, MoveUnseen,
   EndMoveUnseen DEF Collect, MarkedInv

\* A collection is invisible: no step of dj_mem_gc, from marking to the last memmove, changes
\* what the Java program can see of its threads, its statics and the objects it can reach.
THEOREM CollectionUnseen == Spec => ViewKept
<1>1. MarkedInv /\ MarkedInv' /\ [Next]_vars => [InCollection => View' = View]_vars
  BY CollectionSteps, CollectUnseen
<1>. QED
  BY <1>1, MarkedInvariance, PTL DEF Spec, ViewKept

-----------------------------------------------------------------------------
\* A collection comes to its end.

Advances ==
  \/ halted' # "no"
  \/ Loop[phase'] > Loop[phase]
  \/ phase = "mark" /\ phase' = "mark" /\ Shrinks(NotBlack, NotBlack')
  \/ phase = "mark" /\ phase' = "mark" /\ NotBlack' = NotBlack /\ gray /\ ~gray'
  \/ phase = "move" /\ phase' = "move" /\ Shrinks(Unmoved, Unmoved')

LEMMA MarkAdvances == ASSUME IInv, Mark \/ MarkAgain PROVE Advances
<1>1. CASE Mark
  <2>1. phase = "mark" /\ phase' = "mark"
    BY <1>1 DEF Mark, Collecting
  <2>2. CASE halted' = "class"
    BY <2>2 DEF Advances
  <2>3. CASE halted' # "class"
    <3>1. PICK a \in DOMAIN mem : NextGray(a) /\ mem' = Visited(a)
      BY <1>1, <2>3 DEF Mark
    <3>2. \A x \in DOMAIN mem : DOMAIN mem[x] = Fields
      BY DEF IInv, HeapInv, Shaped
    <3>3. mem[a].color = "gray"
      BY <3>1 DEF NextGray, IsGray
    <3>4. DOMAIN mem' = DOMAIN mem
      BY <3>1 DEF Visited
    <3>5. ASSUME NEW x \in DOMAIN mem
          PROVE  mem'[x].color = "black" <=> x = a \/ mem[x].color = "black"
      <4>1. mem'[x] = IF x = a THEN [mem[x] EXCEPT !.color = "black"]
                      ELSE IF x \in Scanned(mem[a]) /\ mem[x].color = "white"
                      THEN [mem[x] EXCEPT !.color = "gray"] ELSE mem[x]
        BY <3>1 DEF Visited
      <4>. QED
        BY <3>2, <4>1 DEF Fields
    <3>6. a \in NotBlack /\ NotBlack' = NotBlack \ {a}
      BY <3>3, <3>4, <3>5 DEF NotBlack
    <3>. QED
      BY <2>1, <3>6 DEF Advances, Shrinks
  <2>. QED
    BY <2>2, <2>3
<1>2. CASE MarkAgain /\ gray
  <2>1. phase = "mark" /\ phase' = "mark" /\ mem' = mem /\ gray' = FALSE
    BY <1>2 DEF MarkAgain, Collecting
  <2>. QED
    BY <1>2, <2>1 DEF Advances, NotBlack
<1>3. CASE MarkAgain /\ ~gray
  <2>1. phase = "mark" /\ phase' = "shift"
    BY <1>3 DEF MarkAgain, Collecting
  <2>. QED
    BY <2>1 DEF Advances, Loop
<1>. QED
  BY <1>1, <1>2, <1>3

LEMMA MoveAdvances == ASSUME IInv, Move PROVE Advances
<1>1. PICK a \in DOMAIN mem :
        NextInUse(a) /\ mem' = MovedTo(a, a - mem[a].shift) /\ loc' = a + mem[a].size
  BY DEF Move
<1>2. phase = "move" /\ phase' = "move"
  BY DEF Move, Collecting
<1>3. PICK to : to = Spot(a)
  OBVIOUS
<1>4. MovedAlone(a, to)
  BY <1>1, <1>2, <1>3, MoveMoves DEF IInv
<1>5. /\ a >= loc /\ InUse(a) /\ loc \in Nat /\ mem[a].size \in Nat \ {0}
      /\ \A d \in DOMAIN mem : d \in Nat
  BY <1>1 DEF NextInUse, IInv, HeapInv, Shaped
<1>6. a \in Unmoved
  BY <1>5 DEF Unmoved
<1>7. to \in Nat /\ to < loc'
  BY <1>2, <1>3, <1>4, <1>5 DEF MovedAlone, IInv, HeapInv, Sliding
<1>8. ASSUME NEW d \in Unmoved' PROVE d \in Unmoved /\ d # a
  <2>1. d \in DOMAIN mem' /\ d >= loc' /\ InUse(d)'
    BY DEF Unmoved
  <2>2. d # to
    BY <1>1, <1>5, <1>7, <2>1
  <2>3. d \in DOMAIN mem /\ d # a /\ mem'[d] = mem[d]
    BY <1>4, <2>1, <2>2 DEF MovedAlone
  <2>4. d >= loc
    BY <1>1, <1>5, <2>1, <2>3
  <2>. QED
    BY <2>1, <2>3, <2>4 DEF Unmoved, InUse
<1>. QED
  BY <1>2, <1>6, <1>8 DEF Advances, Shrinks

LEMMA CollectAdvances == ASSUME IInv, Collect PROVE Advances
<1>1. CASE Shift
  BY <1>1 DEF Shift, Collecting, Advances, Loop
<1>2. CASE UpdateManaged
  BY <1>2 DEF UpdateManaged, Collecting, Advances, Loop
<1>3. CASE UpdateSystem
  BY <1>3 DEF UpdateSystem, Collecting, Advances, Loop
<1>4. CASE EndMove
  BY <1>4 DEF EndMove, Collecting, Advances, Loop
<1>. QED
  BY <1>1, <1>2, <1>3, <1>4, MarkAdvances, MoveAdvances DEF Collect

\* A collection ends: however objects refer to each other, the marking loop of dj_mem_mark
\* blackens a chunk or makes its last round, and the loop of the moves passes a chunk.
THEOREM CollectionComesToEnd == Spec => CollectionAdvances
<1>1. IInv /\ [Next]_vars => [InCollection => Advances]_vars
  BY CollectionSteps, CollectAdvances
<1>2. [InCollection => Advances]_vars =>
        [InCollection =>
           \/ halted' # "no"
           \/ Loop[phase'] > Loop[phase]
           \/ phase = "mark" /\ phase' = "mark" /\ Shrinks(NotBlack, NotBlack')
           \/ phase = "mark" /\ phase' = "mark" /\ NotBlack' = NotBlack /\ gray /\ ~gray'
           \/ phase = "move" /\ phase' = "move" /\ Shrinks(Unmoved, Unmoved')]_vars
  BY DEF Advances
<1>. QED
  BY <1>1, <1>2, Invariance, PTL DEF Spec, CollectionAdvances

=============================================================================
