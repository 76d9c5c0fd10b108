----------------------------- MODULE Heap_proofs ------------------------------
(***************************************************************************)
(* Proofs about Heap, for any heap size, any sizes of chunks and any         *)
(* contents: where the chunks lie, and where compaction puts them.           *)
(***************************************************************************)
EXTENDS Heap, FiniteSetTheorems, TLAPS

Fields == {"kind", "id", "size", "color", "shift", "refs", "infusion", "base",
           "name", "class", "label"}

\* The chunks are records, and addresses and sizes are numbers.
Shaped ==
  /\ DOMAIN mem \subseteq Nat /\ left \in Nat /\ loc \in Nat
  /\ \A a \in DOMAIN mem : DOMAIN mem[a] = Fields /\ mem[a].size \in Nat \ {0}

End(a) == a + mem[a].size

\* HeapTiled of Infusions without induction: no two chunks overlap, and there is a chunk at
\* every address below left_pointer.
Tiled ==
  /\ \A a \in DOMAIN mem : End(a) <= left
  /\ \A a, b \in DOMAIN mem : a < b => End(a) <= b
  /\ \A u \in 0 .. left - 1 : \E a \in DOMAIN mem : a <= u /\ u < End(a)

\* Chunks that do not overlap and leave no hole lie side by side.
LEMMA TilesAdjoin ==
  ASSUME Shaped, Tiled
  PROVE  /\ left > 0 => 0 \in DOMAIN mem
         /\ \A a \in DOMAIN mem : End(a) \in DOMAIN mem \cup {left}
<1>1. ASSUME left > 0 PROVE 0 \in DOMAIN mem
  <2>1. PICK a \in DOMAIN mem : a <= 0 /\ 0 < End(a)
    BY <1>1 DEF Tiled, Shaped
  <2>. QED
    BY <2>1 DEF Shaped
<1>2. ASSUME NEW a \in DOMAIN mem, End(a) # left PROVE End(a) \in DOMAIN mem
  <2>1. a \in Nat /\ End(a) \in Nat /\ a < End(a) /\ End(a) <= left /\ left \in Nat
    BY DEF Tiled, Shaped, End
  <2>2. End(a) \in 0 .. left - 1
    BY <1>2, <2>1
  <2>3. PICK b \in DOMAIN mem : b <= End(a) /\ End(a) < End(b)
    BY <2>2 DEF Tiled
  <2>4. b \in Nat
    BY DEF Shaped
  <2>5. b < a => End(b) <= a
    BY DEF Tiled
  <2>6. a < b => End(a) <= b
    BY DEF Tiled
  <2>7. End(b) \in Nat
    BY <2>4 DEF Shaped, End
  <2>. QED
    BY <2>1, <2>3, <2>4, <2>5, <2>6, <2>7
<1>. QED
  BY <1>1, <1>2

-----------------------------------------------------------------------------
\* Compaction: how far the chunks move.

LEMMA FreeIsFinite ==
  ASSUME Shaped
  PROVE  /\ FreeMemory \subseteq 0 .. left - 1 /\ IsFiniteSet(FreeMemory)
         /\ Cardinality(FreeMemory) \in Nat /\ Cardinality(FreeMemory) <= left
<1>1. FreeMemory \subseteq 0 .. left - 1
  BY DEF FreeMemory
<1>2. IsFiniteSet(0 .. left - 1) /\ Cardinality(0 .. left - 1) = left
  BY FS_Interval DEF Shaped
<1>. QED
  BY <1>1, <1>2, FS_Subset, FS_CardinalityType

\* The free memory below v and the one from v on make up the free memory below w.
Below(v) == {u \in FreeMemory : u < v}
Between(v, w) == {u \in FreeMemory : v <= u /\ u < w}

LEMMA FreeAdds ==
  ASSUME Shaped, NEW v \in Nat, NEW w \in Nat, v <= w
  PROVE  /\ Cardinality(Below(v)) \in Nat /\ Cardinality(Between(v, w)) \in Nat
         /\ Cardinality(Below(w)) = Cardinality(Below(v)) + Cardinality(Between(v, w))
         /\ Cardinality(Between(v, w)) <= w - v
         /\ Cardinality(Below(v)) <= v
<1>1. FreeMemory \subseteq Nat /\ IsFiniteSet(FreeMemory)
  BY FreeIsFinite DEF Shaped
<1>2. /\ IsFiniteSet(Below(v)) /\ IsFiniteSet(Between(v, w))
      /\ Cardinality(Below(v)) \in Nat /\ Cardinality(Between(v, w)) \in Nat
  BY <1>1, FS_Subset, FS_CardinalityType DEF Below, Between
<1>3. Below(w) = Below(v) \cup Between(v, w) /\ Below(v) \cap Between(v, w) = {}
  <2>1. \A u \in FreeMemory : u \in Nat
    BY <1>1
  <2>2. \A u \in FreeMemory : u < w <=> (u < v \/ (v <= u /\ u < w))
    BY <2>1
  <2>3. \A u \in FreeMemory : ~(u < v /\ v <= u)
    BY <2>1
  <2>. QED
    BY <2>2, <2>3 DEF Below, Between
<1>4. Cardinality(Below(w)) = Cardinality(Below(v)) + Cardinality(Between(v, w))
  BY <1>2, <1>3, FS_Union, FS_EmptySet
<1>5. Cardinality(Between(v, w)) <= w - v
  <2>1. \A u \in Between(v, w) : u \in Nat /\ v <= u /\ u < w
    BY <1>1 DEF Between
  <2>3. Between(v, w) \subseteq v .. w - 1
    BY <2>1
  <2>2. IsFiniteSet(v .. w - 1) /\ Cardinality(v .. w - 1) = w - v
    <3>1. v \in Int /\ w - 1 \in Int
      OBVIOUS
    <3>2. /\ IsFiniteSet(v .. w - 1)
          /\ Cardinality(v .. w - 1) = IF v > w - 1 THEN 0 ELSE (w - 1) - v + 1
      BY <3>1, FS_Interval
    <3>. QED
      BY <3>2
  <2>. QED
    BY <2>3, <2>2, FS_Subset
<1>6. Cardinality(Below(v)) <= v
  <2>1. \A u \in Below(v) : u \in Nat /\ u < v
    BY <1>1 DEF Below
  <2>3. Below(v) \subseteq 0 .. v - 1
    BY <2>1
  <2>2. IsFiniteSet(0 .. v - 1) /\ Cardinality(0 .. v - 1) = v
    BY FS_Interval
  <2>. QED
    BY <2>3, <2>2, FS_Subset
<1>. QED
  BY <1>2, <1>4, <1>5, <1>6

LEMMA ShiftIsBelow == ASSUME NEW a PROVE ShiftOf(a) = Cardinality(Below(End(a)))
BY DEF ShiftOf, Below, End

\* No free memory lies in a chunk in use, so below its end is as much as below its start.
LEMMA ShiftInUse ==
  ASSUME Shaped, Tiled, NEW a \in DOMAIN mem, InUse(a)
  PROVE  ShiftOf(a) = Cardinality(Below(a))
<1>1. \A u \in FreeMemory : ~(a <= u /\ u < End(a))
  <2>. SUFFICES ASSUME NEW u \in FreeMemory, a <= u, u < End(a) PROVE FALSE
    OBVIOUS
  <2>1. PICK b \in DOMAIN mem : mem[b].id = FREE /\ b <= u /\ u < End(b)
    BY DEF FreeMemory, End
  <2>2. u \in Nat /\ a \in Nat /\ b \in Nat
    BY FreeIsFinite DEF Shaped
  <2>3. End(a) \in Nat /\ End(b) \in Nat
    BY DEF Shaped, End
  <2>4. a # b
    BY <2>1 DEF InUse
  <2>5. (a < b => End(a) <= b) /\ (b < a => End(b) <= a)
    BY DEF Tiled
  <2>. QED
    BY <2>1, <2>2, <2>3, <2>4, <2>5
<1>2. Below(End(a)) = Below(a)
  <2>1. FreeMemory \subseteq Nat /\ a \in Nat /\ End(a) \in Nat /\ a <= End(a)
    BY FreeIsFinite DEF Shaped, End
  <2>2. ASSUME NEW u \in FreeMemory PROVE u < End(a) <=> u < a
    <3>1. u \in Nat /\ a \in Nat /\ End(a) \in Nat /\ a <= End(a)
      BY <2>1
    <3>2. ~(a <= u /\ u < End(a))
      BY <1>1
    <3>. QED
      BY <3>1, <3>2
  <2>. QED
    BY <2>2 DEF Below
<1>. QED
  BY <1>2, ShiftIsBelow

Target(a) == a - ShiftOf(a)

\* Where the shifts of dj_mem_compact take the chunks in use: not below heap_base, not up,
\* not over another one, and not beyond what left_pointer becomes.
THEOREM CompactionFits ==
  ASSUME Shaped, Tiled
  PROVE  /\ \A a \in DOMAIN mem : ShiftOf(a) \in Nat
         /\ \A a \in DOMAIN mem : InUse(a) =>
              /\ Target(a) \in Nat /\ Target(a) <= a
              /\ Target(a) + mem[a].size <= left - Cardinality(FreeMemory)
         /\ \A a, b \in DOMAIN mem : InUse(a) /\ InUse(b) /\ a < b =>
              Target(a) + mem[a].size <= Target(b)
<1>0. \A a \in DOMAIN mem : a \in Nat /\ End(a) \in Nat /\ a <= End(a) /\ End(a) <= left
  BY DEF Shaped, Tiled, End
<1>1. \A a \in DOMAIN mem : ShiftOf(a) \in Nat
  BY <1>0, ShiftIsBelow, FreeAdds
<1>2. ASSUME NEW a \in DOMAIN mem, InUse(a)
      PROVE  /\ Target(a) \in Nat /\ Target(a) <= a
             /\ Target(a) + mem[a].size <= left - Cardinality(FreeMemory)
  <2>1. ShiftOf(a) \in Nat /\ ShiftOf(a) <= a
    BY <1>0, <1>1, <1>2, ShiftInUse, FreeAdds
  <2>2. left \in Nat /\ FreeMemory = Below(left)
    <3>1. FreeMemory \subseteq 0 .. left - 1
      BY FreeIsFinite
    <3>2. \A u \in FreeMemory : u < left
      BY <3>1 DEF Shaped
    <3>. QED
      BY <3>2 DEF Below, Shaped
  <2>3. /\ Cardinality(FreeMemory) = ShiftOf(a) + Cardinality(Between(End(a), left))
        /\ Cardinality(Between(End(a), left)) \in Nat
        /\ Cardinality(Between(End(a), left)) <= left - End(a)
    BY <1>0, <2>2, ShiftIsBelow, FreeAdds
  <2>4. a \in Nat /\ mem[a].size \in Nat
    BY DEF Shaped
  <2>. QED
    BY <2>1, <2>2, <2>3, <2>4 DEF Target, End
<1>3. ASSUME NEW a \in DOMAIN mem, NEW b \in DOMAIN mem, InUse(a), InUse(b), a < b
      PROVE  Target(a) + mem[a].size <= Target(b)
  <2>1. End(a) <= b
    BY <1>3 DEF Tiled
  <2>2. ShiftOf(b) = Cardinality(Below(b)) /\ ShiftOf(a) = Cardinality(Below(End(a)))
    BY <1>3, ShiftInUse, ShiftIsBelow
  <2>3. /\ Cardinality(Below(b)) = Cardinality(Below(End(a))) + Cardinality(Between(End(a), b))
        /\ Cardinality(Between(End(a), b)) <= b - End(a)
        /\ Cardinality(Between(End(a), b)) \in Nat
    BY <1>0, <2>1, FreeAdds
  <2>4. a \in Nat /\ b \in Nat /\ mem[a].size \in Nat /\ ShiftOf(a) \in Nat /\ ShiftOf(b) \in Nat
    BY <1>1 DEF Shaped
  <2>. QED
    BY <2>2, <2>3, <2>4 DEF Target, End
<1>. QED
  BY <1>1, <1>2, <1>3

\* An address in use: of those behind it, one more is in use than the free ones leave.
LEMMA UsedGap ==
  ASSUME Shaped, NEW u \in Nat, NEW w \in Nat, u \notin FreeMemory, u < w
  PROVE  Cardinality(Between(u, w)) <= w - u - 1
<1>1. \A x \in FreeMemory : x \in Nat /\ x # u
  BY FreeIsFinite DEF Shaped
<1>2. \A x \in FreeMemory : u <= x <=> u + 1 <= x
  BY <1>1
<1>3. Between(u, w) = Between(u + 1, w)
  BY <1>2 DEF Between
<1>4. Cardinality(Between(u + 1, w)) <= w - (u + 1)
  BY FreeAdds
<1>. QED
  BY <1>3, <1>4

\* Every address below what left_pointer becomes gets a unit of some chunk in use: there
\* are as many units in use as such addresses, and no two get to the same one.
LEMMA CompactionFills ==
  ASSUME Shaped, Tiled, NEW v \in 0 .. left - Cardinality(FreeMemory) - 1
  PROVE  \E a \in DOMAIN mem : InUse(a) /\ Target(a) <= v /\ v < Target(a) + mem[a].size
<1>. DEFINE All == 0 .. left - 1
            Used == All \ FreeMemory
            N == left - Cardinality(FreeMemory)
            New == 0 .. N - 1
            f == [u \in Used |-> u - Cardinality(Below(u))]
<1>1. /\ left \in Nat /\ N \in Nat /\ Cardinality(FreeMemory) \in Nat
      /\ FreeMemory \subseteq All /\ IsFiniteSet(FreeMemory)
  BY FreeIsFinite DEF Shaped
<1>2. IsFiniteSet(All) /\ Cardinality(All) = left
  <2>1. 0 \in Int /\ left - 1 \in Int
    BY <1>1
  <2>2. IsFiniteSet(All) /\ Cardinality(All) = IF 0 > left - 1 THEN 0 ELSE (left - 1) - 0 + 1
    BY <2>1, FS_Interval
  <2>. QED
    BY <1>1, <2>2
<1>3. IsFiniteSet(New) /\ Cardinality(New) = N
  <2>1. 0 \in Int /\ N - 1 \in Int
    BY <1>1
  <2>2. IsFiniteSet(New) /\ Cardinality(New) = IF 0 > N - 1 THEN 0 ELSE (N - 1) - 0 + 1
    BY <2>1, FS_Interval
  <2>. QED
    BY <1>1, <2>2
<1>4. IsFiniteSet(Used) /\ Cardinality(Used) = N
  <2>1. All \cap FreeMemory = FreeMemory
    BY <1>1
  <2>2. /\ IsFiniteSet(Used)
        /\ Cardinality(Used) = Cardinality(All) - Cardinality(All \cap FreeMemory)
    BY <1>2, FS_Difference
  <2>. QED
    BY <1>2, <2>1, <2>2
<1>5. FreeMemory = Below(left)
  <2>1. \A u \in FreeMemory : u < left
    BY <1>1
  <2>. QED
    BY <2>1 DEF Below
<1>6. ASSUME NEW u \in Used
      PROVE  u \in Nat /\ u < left /\ u \notin FreeMemory /\ Cardinality(Below(u)) \in Nat
             /\ f[u] = u - Cardinality(Below(u)) /\ f[u] \in New
  <2>1. u \in Nat /\ u < left /\ u \notin FreeMemory
    BY <1>1
  <2>2. /\ Cardinality(Below(u)) \in Nat /\ Cardinality(Below(u)) <= u
        /\ Cardinality(Between(u, left)) \in Nat
        /\ Cardinality(FreeMemory) = Cardinality(Below(u)) + Cardinality(Between(u, left))
    BY <1>1, <1>5, <2>1, FreeAdds
  <2>3. Cardinality(Between(u, left)) <= left - u - 1
    BY <1>1, <2>1, UsedGap
  <2>4. f[u] = u - Cardinality(Below(u))
    OBVIOUS
  <2>5. f[u] \in Nat /\ f[u] <= N - 1
    BY <1>1, <2>1, <2>2, <2>3, <2>4
  <2>. QED
    BY <1>1, <2>1, <2>2, <2>4, <2>5
<1>7. ASSUME NEW u \in Used, NEW w \in Used, u < w PROVE f[u] < f[w]
  <2>1. /\ Cardinality(Below(w)) = Cardinality(Below(u)) + Cardinality(Between(u, w))
        /\ Cardinality(Between(u, w)) \in Nat /\ Cardinality(Between(u, w)) <= w - u - 1
    BY <1>6, <1>7, FreeAdds, UsedGap
  <2>. QED
    BY <1>6, <2>1
<1>8. f \in Injection(Used, New)
  <2>1. f \in [Used -> New]
    BY <1>6
  <2>2. \A u, w \in Used : f[u] = f[w] => u = w
    <3>1. \A u, w \in Used : f[u] \in Int /\ f[w] \in Int /\ u \in Nat /\ w \in Nat
      BY <1>6
    <3>. QED
      BY <1>7, <3>1
  <2>. QED
    BY <2>1, <2>2 DEF Injection, IsInjective
<1>9. f \in Surjection(Used, New)
  BY <1>3, <1>4, <1>8, FS_Injection
<1>10. PICK u \in Used : f[u] = v
  BY <1>9 DEF Surjection
<1>11. PICK a \in DOMAIN mem : a <= u /\ u < End(a)
  BY DEF Tiled
<1>12. InUse(a)
  BY <1>6, <1>11 DEF InUse, FreeMemory, End
<1>13. a \in Nat /\ End(a) \in Nat /\ mem[a].size \in Nat /\ u \in Nat
  BY <1>6 DEF Shaped, End
<1>14. Cardinality(Below(u)) = ShiftOf(a)
  <2>1. /\ Cardinality(Below(u)) = Cardinality(Below(a)) + Cardinality(Between(a, u))
        /\ Cardinality(Below(End(a))) = Cardinality(Below(u)) + Cardinality(Between(u, End(a)))
        /\ Cardinality(Below(a)) \in Nat /\ Cardinality(Below(u)) \in Nat
        /\ Cardinality(Between(a, u)) \in Nat /\ Cardinality(Between(u, End(a))) \in Nat
    BY <1>11, <1>13, FreeAdds
  <2>2. Cardinality(Below(a)) = Cardinality(Below(End(a))) /\ ShiftOf(a) = Cardinality(Below(a))
    BY <1>12, ShiftInUse, ShiftIsBelow
  <2>. QED
    BY <2>1, <2>2
<1>15. v = u - ShiftOf(a) /\ ShiftOf(a) \in Nat
  BY <1>6, <1>10, <1>14
<1>. QED
  BY <1>11, <1>12, <1>13, <1>15 DEF Target, End

-----------------------------------------------------------------------------
\* The collector keeps the heap in order.

\* Where a chunk is, or, with compaction under way, where it will be.
Spot(d) == IF phase = "move" /\ d >= loc THEN d - mem[d].shift ELSE d

ShiftsSet ==
  /\ \A a \in DOMAIN mem : mem[a].shift = ShiftOf(a)
  /\ shift = Cardinality(FreeMemory)

\* Tiled, of the chunks in use and the places they get.
Sliding ==
  /\ shift \in Nat /\ left - shift \in Nat
  /\ \A d \in DOMAIN mem : InUse(d) =>
       Spot(d) \in Nat /\ Spot(d) <= d /\ Spot(d) + mem[d].size <= left - shift
  /\ \A d, e \in DOMAIN mem : InUse(d) /\ InUse(e) /\ d < e =>
       End(d) <= e /\ Spot(d) + mem[d].size <= Spot(e)
  /\ \A u \in 0 .. left - shift - 1 :
       \E d \in DOMAIN mem : InUse(d) /\ Spot(d) <= u /\ u < Spot(d) + mem[d].size

HeapInv ==
  /\ Shaped
  /\ phase # "move" => Tiled
  /\ phase \in {"managed", "system"} => ShiftsSet
  /\ phase = "move" => Sliding
  /\ phase \notin {"mark", "move"} => loc = 0

\* A step that leaves addresses and sizes alone.
SameTiles ==
  /\ DOMAIN mem' = DOMAIN mem
  /\ \A a \in DOMAIN mem : DOMAIN mem'[a] = Fields /\ mem'[a].size = mem[a].size

LEMMA TilesStay ==
  ASSUME Shaped, Tiled, SameTiles, left' = left, loc' \in Nat
  PROVE  Shaped' /\ Tiled'
<1>1. Shaped'
  BY DEF Shaped, SameTiles
<1>2. \A a \in DOMAIN mem : End(a)' = End(a)
  BY DEF SameTiles, End
<1>. QED
  BY <1>1, <1>2 DEF Tiled, SameTiles

\* What the shifts depend on.
LEMMA ShiftsStay ==
  ASSUME SameTiles, left' = left, \A a \in DOMAIN mem : mem'[a].id = mem[a].id
  PROVE  FreeMemory' = FreeMemory /\ \A a \in DOMAIN mem : ShiftOf(a)' = ShiftOf(a)
<1>1. FreeMemory' = FreeMemory
  BY DEF SameTiles, FreeMemory
<1>. QED
  BY <1>1 DEF ShiftOf, SameTiles

LEMMA MarkKeeps == ASSUME HeapInv, Mark PROVE HeapInv'
<1>1. phase = "mark" /\ phase' = "mark" /\ left' = left
  BY DEF Mark, Collecting
<1>2. SameTiles /\ loc' \in Nat
  <2>1. PICK a \in DOMAIN mem :
          IF ClassMissing(mem[a])
          THEN halted' = "class" /\ UNCHANGED <<mem, loc, gray>>
          ELSE mem' = Visited(a) /\ gray' = TRUE /\ loc' = a + mem[a].size /\ UNCHANGED halted
    BY DEF Mark
  <2>. QED
    BY <2>1 DEF HeapInv, Shaped, SameTiles, Visited, Fields
<1>. QED
  BY <1>1, <1>2, TilesStay DEF HeapInv

LEMMA MarkAgainKeeps == ASSUME HeapInv, MarkAgain PROVE HeapInv'
<1>1. phase = "mark" /\ phase' \in {"mark", "shift"} /\ left' = left /\ loc' = 0
  BY DEF MarkAgain, Collecting
<1>2. SameTiles
  BY DEF MarkAgain, Finalised, HeapInv, Shaped, SameTiles, Fields
<1>. QED
  BY <1>1, <1>2, TilesStay DEF HeapInv

LEMMA ShiftKeeps == ASSUME HeapInv, Shift PROVE HeapInv'
<1>1. phase = "shift" /\ phase' = "managed" /\ left' = left /\ loc' = loc /\ loc = 0
  BY DEF Shift, Collecting, HeapInv
<1>2. /\ SameTiles
      /\ \A a \in DOMAIN mem : mem'[a].id = mem[a].id /\ mem'[a].shift = ShiftOf(a)
      /\ shift' = Cardinality(FreeMemory)
  BY DEF Shift, HeapInv, Shaped, SameTiles, Fields
<1>3. Shaped' /\ Tiled'
  BY <1>1, <1>2, TilesStay DEF HeapInv
<1>4. ShiftsSet'
  BY <1>1, <1>2, ShiftsStay DEF ShiftsSet, SameTiles
<1>. QED
  BY <1>1, <1>3, <1>4 DEF HeapInv

LEMMA UpdateManagedKeeps == ASSUME HeapInv, UpdateManaged PROVE HeapInv'
<1>1. /\ phase = "managed" /\ phase' \in {"managed", "system"} /\ left' = left
      /\ loc' = loc /\ loc = 0 /\ shift' = shift
  BY DEF UpdateManaged, Collecting, HeapInv
<1>2. /\ SameTiles
      /\ \A a \in DOMAIN mem : mem'[a].id = mem[a].id /\ mem'[a].shift = mem[a].shift
  BY DEF UpdateManaged, ManagedUpdated, HeapInv, Shaped, SameTiles, Fields
<1>3. Shaped' /\ Tiled'
  BY <1>1, <1>2, TilesStay DEF HeapInv
<1>4. ShiftsSet'
  BY <1>1, <1>2, ShiftsStay DEF HeapInv, ShiftsSet, SameTiles
<1>. QED
  BY <1>1, <1>3, <1>4 DEF HeapInv

\* The moves begin: CompactionFits and CompactionFills are Sliding.
LEMMA UpdateSystemKeeps == ASSUME HeapInv, UpdateSystem PROVE HeapInv'
<1>1. /\ phase = "system" /\ phase' \in {"system", "move"} /\ left' = left
      /\ loc' = loc /\ loc = 0 /\ shift' = shift
  BY DEF UpdateSystem, Collecting, HeapInv
<1>2. /\ SameTiles
      /\ \A a \in DOMAIN mem : mem'[a].id = mem[a].id /\ mem'[a].shift = mem[a].shift
  BY DEF UpdateSystem, SystemUpdated, HeapInv, Shaped, SameTiles, Fields
<1>3. Shaped' /\ Tiled'
  BY <1>1, <1>2, TilesStay DEF HeapInv
<1>4. ShiftsSet'
  BY <1>1, <1>2, ShiftsStay DEF HeapInv, ShiftsSet, SameTiles
<1>5. ASSUME phase' = "move" PROVE Sliding'
  <2>1. Shaped /\ Tiled /\ ShiftsSet
    BY <1>1 DEF HeapInv
  <2>2. \A a \in DOMAIN mem : Spot(a)' = Target(a)
    BY <1>1, <1>2, <1>5, <2>1 DEF Spot, Target, ShiftsSet, SameTiles, Shaped
  <2>3. \A a \in DOMAIN mem : InUse(a)' = InUse(a) /\ End(a)' = End(a) /\ mem'[a].size = mem[a].size
    BY <1>2 DEF InUse, End, SameTiles
  <2>4. shift' = Cardinality(FreeMemory) /\ left' = left /\ DOMAIN mem' = DOMAIN mem
    BY <1>1, <1>2, <2>1 DEF ShiftsSet, SameTiles
  <2>5. shift' \in Nat /\ left' - shift' \in Nat
    BY <2>1, <2>4, FreeIsFinite DEF Shaped
  <2>6. \A a \in DOMAIN mem : InUse(a) =>
          Target(a) \in Nat /\ Target(a) <= a
          /\ Target(a) + mem[a].size <= left - Cardinality(FreeMemory)
    BY <2>1, CompactionFits
  <2>7. \A a, b \in DOMAIN mem : InUse(a) /\ InUse(b) /\ a < b =>
          End(a) <= b /\ Target(a) + mem[a].size <= Target(b)
    BY <2>1, CompactionFits DEF Tiled
  <2>8. \A v \in 0 .. left - Cardinality(FreeMemory) - 1 :
          \E a \in DOMAIN mem : InUse(a) /\ Target(a) <= v /\ v < Target(a) + mem[a].size
    BY <2>1, CompactionFills
  <2>. QED
    BY <2>2, <2>3, <2>4, <2>5, <2>6, <2>7, <2>8 DEF Sliding
<1>. QED
  BY <1>1, <1>3, <1>4, <1>5 DEF HeapInv

\* What one move does to the chunks in use: the one at a goes to its spot, the others stay,
\* and all spots are as before.
MovedAlone(a, to) ==
  /\ to \in DOMAIN mem' /\ Spot(to)' = to /\ to < loc'
  /\ mem'[to] = [mem[a] EXCEPT !.color = "white", !.shift = 0]
  /\ \A d \in DOMAIN mem : InUse(d) /\ d # a =>
       d \in DOMAIN mem' /\ mem'[d] = mem[d] /\ Spot(d)' = Spot(d) /\ d # to
  /\ \A d \in DOMAIN mem' : d # to => d \in DOMAIN mem /\ d # a /\ mem'[d] = mem[d]

LEMMA MoveMoves ==
  ASSUME HeapInv, phase = "move", phase' = "move", NEW a \in DOMAIN mem, NextInUse(a),
         mem' = MovedTo(a, a - mem[a].shift), loc' = a + mem[a].size,
         NEW to, to = Spot(a)
  PROVE  MovedAlone(a, to)
<1>1. Shaped /\ Sliding /\ InUse(a) /\ a >= loc /\ loc \in Nat
  BY DEF HeapInv, NextInUse, Shaped
<1>2. /\ a \in Nat /\ mem[a].size \in Nat \ {0} /\ to = a - mem[a].shift
      /\ to \in Nat /\ to <= a
  BY <1>1 DEF Shaped, Sliding, Spot
<1>3. DOMAIN mem' = {y \in DOMAIN mem \ {a} : ~Overlaps(y, to, mem[a].size)} \cup {to}
  BY <1>2 DEF MovedTo
<1>4. \A x \in DOMAIN mem' :
        mem'[x] = IF x = to THEN [mem[a] EXCEPT !.color = "white", !.shift = 0] ELSE mem[x]
  BY <1>2, <1>3 DEF MovedTo
<1>5. to \in DOMAIN mem' /\ to < loc' /\ loc' \in Nat
  BY <1>2, <1>3
<1>6. Spot(to)' = to
  BY <1>2, <1>5 DEF Spot
<1>7. ASSUME NEW d \in DOMAIN mem, InUse(d), d # a
      PROVE  d \in DOMAIN mem' /\ mem'[d] = mem[d] /\ Spot(d)' = Spot(d) /\ d # to
  <2>1. d \in Nat /\ mem[d].size \in Nat \ {0} /\ Spot(d) \in Nat /\ Spot(d) <= d
    BY <1>1, <1>7 DEF Shaped, Sliding
  <2>2. CASE d < a
    <3>1. d < loc
      BY <1>1, <1>7, <2>1, <2>2 DEF NextInUse
    <3>2. Spot(d) = d
      BY <1>1, <2>1, <3>1 DEF Spot
    <3>3. d + mem[d].size <= to
      BY <1>1, <1>7, <2>2, <3>2 DEF Sliding
    <3>4. ~Overlaps(d, to, mem[a].size) /\ d # to
      BY <1>2, <2>1, <3>3 DEF Overlaps
    <3>5. d \in DOMAIN mem' /\ mem'[d] = mem[d]
      BY <1>3, <1>4, <1>7, <3>4
    <3>6. ~(d >= loc')
      BY <1>2, <1>5, <2>1, <2>2
    <3>. QED
      BY <3>2, <3>4, <3>5, <3>6 DEF Spot
  <2>3. CASE a < d
    <3>1. a + mem[a].size <= d
      BY <1>1, <1>7, <2>3 DEF Sliding, End
    <3>2. ~Overlaps(d, to, mem[a].size) /\ d # to
      BY <1>2, <2>1, <3>1 DEF Overlaps
    <3>3. d \in DOMAIN mem' /\ mem'[d] = mem[d]
      BY <1>3, <1>4, <1>7, <3>2
    <3>4. d >= loc' /\ d >= loc
      BY <1>1, <1>2, <2>1, <3>1
    <3>. QED
      BY <3>2, <3>3, <3>4 DEF Spot
  <2>. QED
    BY <1>2, <1>7, <2>1, <2>2, <2>3
<1>8. \A d \in DOMAIN mem' : d # to => d \in DOMAIN mem /\ d # a /\ mem'[d] = mem[d]
  BY <1>3, <1>4
<1>. QED
  BY <1>1, <1>4, <1>5, <1>6, <1>7, <1>8 DEF MovedAlone

LEMMA MoveKeeps == ASSUME HeapInv, Move PROVE HeapInv'
<1>1. phase = "move" /\ phase' = "move" /\ left' = left /\ shift' = shift
  BY DEF Move, Collecting
<1>2. PICK a \in DOMAIN mem :
        /\ NextInUse(a)
        /\ mem' = MovedTo(a, a - mem[a].shift)
        /\ loc' = a + mem[a].size
  BY DEF Move
<1>0. PICK to : to = Spot(a)
  OBVIOUS
<1>3. MovedAlone(a, to)
  BY <1>0, <1>1, <1>2, MoveMoves
<1>4. Shaped /\ Sliding /\ InUse(a)
  BY <1>1, <1>2 DEF HeapInv, NextInUse
<1>5. mem'[to].size = mem[a].size /\ mem'[to].id = mem[a].id /\ DOMAIN mem'[to] = Fields
  BY <1>3, <1>4 DEF Shaped, Fields, MovedAlone
<1>6. /\ to \in Nat /\ to <= a /\ to + mem[a].size <= left - shift
      /\ a \in Nat /\ mem[a].size \in Nat \ {0}
  BY <1>0, <1>4 DEF Sliding, Shaped
<1>7. Shaped'
  <2>1. loc' \in Nat /\ left' \in Nat
    BY <1>1, <1>2, <1>4, <1>6 DEF Shaped
  <2>2. \A d \in DOMAIN mem' : d \in Nat /\ DOMAIN mem'[d] = Fields /\ mem'[d].size \in Nat \ {0}
    BY <1>3, <1>4, <1>5, <1>6 DEF Shaped, MovedAlone
  <2>. QED
    BY <2>1, <2>2 DEF Shaped
<1>8. \A d \in DOMAIN mem' : InUse(d)' /\ d # to =>
        d \in DOMAIN mem /\ d # a /\ InUse(d) /\ mem'[d] = mem[d] /\ Spot(d)' = Spot(d)
  BY <1>3 DEF InUse, MovedAlone
<1>9. Sliding'
  <2>1. ASSUME NEW d \in DOMAIN mem', InUse(d)'
        PROVE  Spot(d)' \in Nat /\ Spot(d)' <= d /\ Spot(d)' + mem'[d].size <= left - shift
    <3>1. CASE d = to
      <4>1. Spot(d)' = to /\ mem'[d].size = mem[a].size
        BY <1>3, <1>5, <3>1 DEF MovedAlone
      <4>. QED
        BY <1>6, <3>1, <4>1
    <3>2. CASE d # to
      BY <1>4, <1>8, <2>1, <3>2 DEF Sliding
    <3>. QED
      BY <3>1, <3>2
  <2>2. ASSUME NEW d \in DOMAIN mem', NEW e \in DOMAIN mem', InUse(d)', InUse(e)', d < e
        PROVE  End(d)' <= e /\ Spot(d)' + mem'[d].size <= Spot(e)'
    <3>1. CASE d # to /\ e # to
      BY <1>4, <1>8, <2>2, <3>1 DEF Sliding, End
    <3>2. CASE d = to
      <4>1. e \in DOMAIN mem /\ e # a /\ InUse(e) /\ Spot(e)' = Spot(e) /\ mem'[e] = mem[e]
        BY <1>6, <1>8, <2>2, <3>2
      <4>2. e \in Nat /\ Spot(e) <= e /\ Spot(e) \in Nat /\ mem[e].size \in Nat \ {0}
        BY <1>4, <4>1 DEF Sliding, Shaped
      <4>3. CASE a < e
        <5>1. to + mem[a].size <= Spot(e)
          BY <1>0, <1>4, <4>1, <4>3 DEF Sliding
        <5>. QED
          <6>1. Spot(d)' = to /\ mem'[d].size = mem[a].size
            BY <1>3, <1>5, <3>2 DEF MovedAlone
          <6>2. to + mem[a].size <= e
            BY <1>6, <4>2, <5>1
          <6>. QED
            BY <3>2, <4>1, <5>1, <6>1, <6>2 DEF End
      <4>4. CASE e < a
        <5>1. e < loc
          BY <1>2, <1>4, <4>1, <4>2, <4>4 DEF NextInUse, Shaped
        <5>2. Spot(e) = e
          BY <1>4, <4>2, <5>1 DEF Spot, Shaped
        <5>3. Spot(e) + mem[e].size <= to
          BY <1>0, <1>4, <4>1, <4>4 DEF Sliding
        <5>. QED
          BY <1>6, <2>2, <3>2, <4>2, <5>2, <5>3
      <4>. QED
        BY <1>6, <4>1, <4>2, <4>3, <4>4
    <3>3. CASE e = to
      <4>1. d \in DOMAIN mem /\ d # a /\ InUse(d) /\ Spot(d)' = Spot(d) /\ mem'[d] = mem[d]
        BY <1>6, <1>8, <2>2, <3>3
      <4>2. d \in Nat /\ d < a
        BY <1>4, <1>6, <2>2, <3>3, <4>1 DEF Shaped
      <4>3. d < loc
        BY <1>2, <1>4, <4>1, <4>2 DEF NextInUse, Shaped
      <4>4. Spot(d) = d
        BY <1>4, <4>2, <4>3 DEF Spot, Shaped
      <4>5. Spot(d) + mem[d].size <= to
        BY <1>0, <1>4, <4>1, <4>2 DEF Sliding
      <4>. QED
        BY <1>3, <3>3, <4>1, <4>4, <4>5 DEF End, MovedAlone
    <3>. QED
      BY <3>1, <3>2, <3>3
  <2>3. ASSUME NEW u \in 0 .. left - shift - 1
        PROVE  \E d \in DOMAIN mem' : InUse(d)' /\ Spot(d)' <= u /\ u < Spot(d)' + mem'[d].size
    <3>1. PICK d \in DOMAIN mem : InUse(d) /\ Spot(d) <= u /\ u < Spot(d) + mem[d].size
      BY <1>4 DEF Sliding
    <3>2. CASE d = a
      BY <1>0, <1>3, <1>5, <3>1, <3>2 DEF InUse, MovedAlone
    <3>3. CASE d # a
      BY <1>3, <3>1, <3>3 DEF InUse, MovedAlone
    <3>. QED
      BY <3>2, <3>3
  <2>. QED
    BY <1>1, <1>4, <2>1, <2>2, <2>3 DEF Sliding
<1>. QED
  BY <1>1, <1>7, <1>9 DEF HeapInv

LEMMA EndMoveKeeps == ASSUME HeapInv, EndMove PROVE HeapInv'
<1>1. /\ phase = "move" /\ phase' = "alloc" /\ left' = left - shift /\ loc' = 0
      /\ \A d \in DOMAIN mem : d >= loc => ~InUse(d)
      /\ mem' = [d \in {x \in DOMAIN mem : InUse(x)} |-> mem[d]]
  BY DEF EndMove, Collecting
<1>2. Shaped /\ Sliding
  BY <1>1 DEF HeapInv
<1>3. /\ DOMAIN mem' = {x \in DOMAIN mem : InUse(x)}
      /\ \A d \in DOMAIN mem' : mem'[d] = mem[d] /\ InUse(d) /\ d \in DOMAIN mem
  BY <1>1
<1>4. \A d \in DOMAIN mem : InUse(d) => Spot(d) = d
  BY <1>1 DEF Spot
<1>5. left' \in Nat
  BY <1>1, <1>2 DEF Sliding
<1>6. Shaped'
  BY <1>1, <1>2, <1>3, <1>5 DEF Shaped
<1>7. Tiled'
  <2>1. \A d \in DOMAIN mem' : End(d)' <= left'
    BY <1>1, <1>2, <1>3, <1>4 DEF Sliding, End
  <2>2. \A d, e \in DOMAIN mem' : d < e => End(d)' <= e
    BY <1>2, <1>3 DEF Sliding, End
  <2>3. \A u \in 0 .. left' - 1 : \E d \in DOMAIN mem' : d <= u /\ u < End(d)'
    <3>. SUFFICES ASSUME NEW u \in 0 .. left' - 1
                  PROVE  \E d \in DOMAIN mem' : d <= u /\ u < End(d)'
      OBVIOUS
    <3>1. PICK d \in DOMAIN mem : InUse(d) /\ Spot(d) <= u /\ u < Spot(d) + mem[d].size
      BY <1>1, <1>2 DEF Sliding
    <3>. QED
      BY <1>3, <1>4, <3>1 DEF End
  <2>. QED
    BY <2>1, <2>2, <2>3 DEF Tiled
<1>. QED
  BY <1>1, <1>6, <1>7 DEF HeapInv

\* dj_mem_gc, one loop or one memmove at a time: it starts and ends with a heap whose chunks
\* lie side by side, and in between no memmove runs into a chunk that is still to come.
THEOREM CollectorKeepsHeap == ASSUME HeapInv, Collect PROVE HeapInv'
BY MarkKeeps, MarkAgainKeeps, ShiftKeeps, UpdateManagedKeeps, UpdateSystemKeeps, MoveKeeps,
   EndMoveKeeps DEF Collect

-----------------------------------------------------------------------------
\* The collector keeps what the pointers outside the heap point to.

\* The chunk a pointer stands for, and that the collector keeps it.
ChunkOf(r) == CHOOSE d \in DOMAIN mem : InUse(d) /\ Spot(d) = r
Root(r) == mem[ChunkOf(r)]
HeldAt(r, d) ==
  /\ d \in DOMAIN mem /\ InUse(d) /\ Spot(d) = r
  /\ phase = "mark" => mem[d].color # "white"
Held(r) == HeldAt(r, ChunkOf(r))

\* No two chunks in use get the same place.
LEMMA HeldIsRoot ==
  ASSUME HeapInv, NEW r, NEW d, HeldAt(r, d)
  PROVE  ChunkOf(r) = d /\ Held(r) /\ Root(r) = mem[d]
<1>1. d \in DOMAIN mem /\ InUse(d) /\ Spot(d) = r
  BY DEF HeldAt
<1>2. ASSUME NEW e \in DOMAIN mem, InUse(e), Spot(e) = r PROVE e = d
  <2>1. CASE phase # "move"
    BY <1>1, <1>2, <2>1 DEF Spot
  <2>2. CASE phase = "move"
    <3>1. Sliding /\ Shaped
      BY <2>2 DEF HeapInv
    <3>2. e \in Nat /\ d \in Nat /\ Spot(d) \in Nat /\ Spot(e) = Spot(d)
          /\ mem[d].size \in Nat \ {0} /\ mem[e].size \in Nat \ {0}
      BY <1>1, <1>2, <3>1 DEF Shaped, Sliding
    <3>3. (d < e => Spot(d) + mem[d].size <= Spot(e)) /\ (e < d => Spot(e) + mem[e].size <= Spot(d))
      BY <1>1, <1>2, <3>1 DEF Sliding
    <3>. QED
      BY <3>2, <3>3
  <2>. QED
    BY <2>1, <2>2
<1>3. ChunkOf(r) \in DOMAIN mem /\ InUse(ChunkOf(r)) /\ Spot(ChunkOf(r)) = r
  BY <1>1 DEF ChunkOf
<1>4. ChunkOf(r) = d
  BY <1>2, <1>3
<1>. QED
  BY <1>4 DEF Held, Root

\* The same of the next state.
RootsAreHeld ==
  \A r, d : HeapInv /\ HeldAt(r, d) => ChunkOf(r) = d /\ Held(r) /\ Root(r) = mem[d]
LEMMA RootsAlwaysHeld == RootsAreHeld
BY HeldIsRoot DEF RootsAreHeld
LEMMA HeldIsRootNext == RootsAreHeld'
BY RootsAlwaysHeld, PTL

\* The pointer becomes s, and what it stands for is the same infusion or frame, its place
\* and its color apart.
FollowedTo(r, s) ==
  /\ Held(s)'
  /\ Root(s)'.id = Root(r).id /\ Root(s)'.base = Root(r).base /\ Root(s)'.name = Root(r).name
Linked(r, s, link) == FollowedTo(r, s) /\ Root(s)'.infusion = link

LEMMA Follows ==
  ASSUME HeapInv, HeapInv', NEW r, NEW d, HeldAt(r, d), NEW s, NEW e, HeldAt(s, e)',
         mem'[e].id = mem[d].id, mem'[e].base = mem[d].base, mem'[e].name = mem[d].name
  PROVE  Linked(r, s, mem'[e].infusion)
<1>1. Root(r) = mem[d]
  BY HeldIsRoot
<1>2. Held(s)' /\ Root(s)' = mem'[e]
  BY HeldIsRootNext DEF RootsAreHeld
<1>. QED
  BY <1>1, <1>2 DEF Linked, FollowedTo

\* With the last update of references the pointers get their new values, and the links of
\* infusions and frames with them.
Repointed == phase = "system" /\ phase' = "move"

\* The chunk at e is the one that was at d.
Carried(d, e) ==
  /\ mem'[e].id = mem[d].id /\ mem'[e].base = mem[d].base /\ mem'[e].name = mem[d].name
  /\ mem'[e].infusion = mem[d].infusion
Stays(d) ==
  /\ d \in DOMAIN mem' /\ Carried(d, d)
  /\ phase' = "mark" => mem'[d].color # "white"

LEMMA StaysHeld ==
  ASSUME HeapInv, HeapInv', phase # "move", phase' # "move", NEW r, Held(r), Stays(r)
  PROVE  Linked(r, r, Root(r).infusion)
<1>1. HeldAt(r, r)
  BY DEF Held, HeldAt, Spot
<1>2. Root(r) = mem[r]
  BY <1>1, HeldIsRoot
<1>3. HeldAt(r, r)'
  BY <1>1 DEF HeldAt, Spot, Stays, Carried, InUse
<1>4. Linked(r, r, mem'[r].infusion)
  BY <1>1, <1>3, Follows DEF Stays, Carried
<1>. QED
  BY <1>2, <1>4 DEF Stays, Carried

\* No step of the collector but that one touches a pointer, and none loses what it points to.
LEMMA CollectFollows ==
  ASSUME HeapInv, Collect, NEW r, Held(r), ~Repointed
  PROVE  Linked(r, r, Root(r).infusion)
<1>0. HeapInv' /\ Shaped
  BY CollectorKeepsHeap DEF HeapInv
<1>1. PICK d : d = ChunkOf(r)
  OBVIOUS
<1>2. HeldAt(r, d) /\ Root(r) = mem[d]
  BY <1>1 DEF Held, Root
<1>3. d \in DOMAIN mem /\ InUse(d) /\ DOMAIN mem[d] = Fields /\ Spot(d) = r
  BY <1>0, <1>2 DEF HeldAt, Shaped
<1>4. phase # "move" => d = r
  BY <1>3 DEF Spot
<1>5. CASE Mark
  <2>1. phase = "mark" /\ phase' = "mark" /\ mem[r].color # "white"
    BY <1>2, <1>4, <1>5 DEF Mark, Collecting, HeldAt
  <2>2. PICK a \in DOMAIN mem :
          IF ClassMissing(mem[a])
          THEN halted' = "class" /\ UNCHANGED <<mem, loc, gray>>
          ELSE mem' = Visited(a) /\ gray' = TRUE /\ loc' = a + mem[a].size /\ UNCHANGED halted
    BY <1>5 DEF Mark
  <2>3. Stays(r)
    BY <1>3, <1>4, <2>1, <2>2 DEF Stays, Carried, Visited, Fields
  <2>. QED
    BY <1>0, <2>1, <2>3, StaysHeld
<1>6. CASE MarkAgain
  <2>1. phase = "mark" /\ phase' \in {"mark", "shift"} /\ mem[r].color # "white"
    BY <1>2, <1>4, <1>6 DEF MarkAgain, Collecting, HeldAt
  <2>2. Stays(r)
    BY <1>3, <1>4, <1>6, <2>1 DEF Stays, Carried, MarkAgain, Finalised
  <2>. QED
    BY <1>0, <2>1, <2>2, StaysHeld
<1>7. CASE Shift
  <2>1. phase = "shift" /\ phase' = "managed"
    BY <1>7 DEF Shift, Collecting
  <2>2. Stays(r)
    BY <1>3, <1>4, <1>7, <2>1 DEF Stays, Carried, Shift, Fields
  <2>. QED
    BY <1>0, <2>1, <2>2, StaysHeld
<1>8. CASE UpdateManaged
  <2>1. phase = "managed" /\ phase' \in {"managed", "system"}
    BY <1>8 DEF UpdateManaged, Collecting
  <2>2. Stays(r)
    BY <1>3, <1>4, <1>8, <2>1 DEF Stays, Carried, UpdateManaged, ManagedUpdated, Fields
  <2>. QED
    BY <1>0, <2>1, <2>2, StaysHeld
<1>9. CASE UpdateSystem
  <2>1. phase = "system" /\ phase' = "system" /\ mem' = mem
    BY <1>9 DEF UpdateSystem, Collecting, Repointed
  <2>2. Stays(r)
    BY <1>3, <1>4, <2>1 DEF Stays, Carried
  <2>. QED
    BY <1>0, <2>1, <2>2, StaysHeld
<1>10. CASE Move
  <2>1. phase = "move" /\ phase' = "move"
    BY <1>10 DEF Move, Collecting
  <2>2. PICK a \in DOMAIN mem :
          /\ NextInUse(a)
          /\ mem' = MovedTo(a, a - mem[a].shift)
          /\ loc' = a + mem[a].size
    BY <1>10 DEF Move
  <2>3. PICK to : to = Spot(a)
    OBVIOUS
  <2>4. MovedAlone(a, to)
    BY <2>1, <2>2, <2>3, MoveMoves
  <2>5. CASE d = a
    <3>1. /\ mem'[to].id = mem[d].id /\ mem'[to].base = mem[d].base
          /\ mem'[to].name = mem[d].name /\ mem'[to].infusion = mem[d].infusion
      BY <1>3, <2>4, <2>5 DEF MovedAlone, Fields
    <3>2. HeldAt(r, to)'
      BY <1>3, <2>1, <2>3, <2>4, <2>5, <3>1 DEF MovedAlone, HeldAt, InUse
    <3>. QED
      BY <1>0, <1>2, <3>1, <3>2, Follows
  <2>6. CASE d # a
    <3>1. HeldAt(r, d)' /\ mem'[d] = mem[d]
      BY <1>3, <2>1, <2>4, <2>6 DEF MovedAlone, HeldAt, InUse
    <3>. QED
      BY <1>0, <1>2, <3>1, Follows
  <2>. QED
    BY <2>5, <2>6
<1>11. CASE EndMove
  <2>1. /\ phase = "move" /\ phase' = "alloc" /\ loc' = 0
        /\ \A x \in DOMAIN mem : x >= loc => ~InUse(x)
        /\ mem' = [x \in {y \in DOMAIN mem : InUse(y)} |-> mem[x]]
    BY <1>11 DEF EndMove, Collecting
  <2>2. HeldAt(r, d)' /\ mem'[d] = mem[d]
    BY <1>3, <2>1 DEF HeldAt, Spot, InUse
  <2>. QED
    BY <1>0, <1>2, <2>2, Follows
<1>. QED
  BY <1>5, <1>6, <1>7, <1>8, <1>9, <1>10, <1>11 DEF Collect

\* That step takes each pointer to where its frame or infusion will be.
LEMMA UpdateFollows ==
  ASSUME HeapInv, UpdateSystem, Repointed, NEW r, Held(r), Root(r).id \in {FRAME, INFUSION},
         NEW s, s = Updated(r)
  PROVE  Linked(r, s, Updated(Root(r).infusion))
<1>0. HeapInv' /\ Shaped /\ phase = "system" /\ phase' = "move" /\ loc' = 0 /\ loc = 0
  BY UpdateSystemKeeps DEF HeapInv, Repointed, UpdateSystem
<1>1. HeldAt(r, r) /\ Root(r) = mem[r]
  BY <1>0, HeldIsRoot DEF Held, HeldAt, Spot
<1>2. r \in DOMAIN mem /\ r \in Nat /\ InUse(r) /\ DOMAIN mem[r] = Fields
  BY <1>0, <1>1 DEF HeldAt, Shaped
<1>3. mem' = SystemUpdated
  BY <1>0 DEF UpdateSystem
<1>4. /\ r \in DOMAIN mem'
      /\ mem'[r].id = mem[r].id /\ mem'[r].base = mem[r].base /\ mem'[r].name = mem[r].name
      /\ mem'[r].shift = mem[r].shift /\ mem'[r].infusion = Updated(mem[r].infusion)
  BY <1>1, <1>2, <1>3 DEF SystemUpdated, Fields
<1>6. HeldAt(s, r)'
  BY <1>0, <1>2, <1>4 DEF HeldAt, Spot, InUse, Updated
<1>7. Linked(r, s, mem'[r].infusion)
  BY <1>0, <1>1, <1>4, <1>6, Follows
<1>. QED
  BY <1>1, <1>4, <1>7

==============================================================================
