------------------------- MODULE MonitorTable_proofs -------------------------
(***************************************************************************)
(* Proofs about MonitorTable, for every block size and any objects.  The    *)
(* table is first shown to behave as an array of monitors (find, change,    *)
(* append, remove by moving the last); the rest follows from the array.     *)
(***************************************************************************)
EXTENDS MonitorTable, TLAPS

-----------------------------------------------------------------------------
\* Positions.

\* Block and slot of a position are its quotient and remainder.
LEMMA PositionIs ==
  ASSUME NEW q \in Nat, NEW r \in Slots, NEW i \in Nat, i = BlockSize * q + r
  PROVE  BlockOf(i) = q + 1 /\ SlotOf(i) = r
<1>1. BlockSize \in Nat /\ BlockSize > 0 /\ r \in 0 .. BlockSize - 1
  BY TableAssumption DEF Slots
<1>2. i \div BlockSize = q /\ i % BlockSize = r
  BY <1>1
<1>. QED
  BY <1>2 DEF BlockOf, SlotOf

LEMMA PositionExists ==
  ASSUME NEW i \in Nat
  PROVE  /\ BlockOf(i) \in Nat \ {0} /\ SlotOf(i) \in Slots
         /\ i = BlockSize * (BlockOf(i) - 1) + SlotOf(i)
<1>1. BlockSize \in Nat /\ BlockSize > 0
  BY TableAssumption
<1>. DEFINE q == i \div BlockSize
            r == i - q * BlockSize
<1>2. q \in Nat
  BY <1>1
<1>3. q * BlockSize <= i /\ i < (q + 1) * BlockSize
  BY <1>1
<1>4. r \in Slots
  BY <1>1, <1>2, <1>3 DEF Slots
<1>5. i = BlockSize * q + r
  BY <1>1, <1>2
<1>. HIDE DEF q, r
<1>6. BlockOf(i) = q + 1 /\ SlotOf(i) = r
  BY <1>2, <1>4, <1>5, PositionIs
<1>. QED
  BY <1>2, <1>4, <1>5, <1>6

\* Two positions are different, in their block or in their slot.
LEMMA PositionsDiffer ==
  ASSUME NEW i \in Nat, NEW j \in Nat, BlockOf(i) = BlockOf(j), SlotOf(i) = SlotOf(j)
  PROVE  i = j
BY PositionExists

\* A position before the first of block l + 1 is in one of the l blocks.
LEMMA PositionBefore ==
  ASSUME NEW l \in Nat, NEW i \in Nat, i < BlockSize * l
  PROVE  BlockOf(i) \in 1 .. l
<1>1. /\ BlockSize \in Nat /\ BlockSize > 0 /\ BlockOf(i) \in Nat \ {0}
      /\ SlotOf(i) \in 0 .. BlockSize - 1
      /\ i = BlockSize * (BlockOf(i) - 1) + SlotOf(i)
  BY PositionExists, TableAssumption DEF Slots
<1>. DEFINE q == BlockOf(i) - 1
<1>2. q \in Nat /\ BlockSize * q <= i
  BY <1>1
<1>. HIDE DEF q
<1>3. ~ (l <= q)
  BY <1>1, <1>2
<1>. QED
  BY <1>1, <1>2, <1>3 DEF q

-----------------------------------------------------------------------------
\* Tables.

\* A table of n monitors whose list and counters agree: BlocksAreFull of any table.
Full(bs, n) ==
  /\ bs \in Seq(Block) /\ n \in Nat
  /\ n = 0 <=> bs = <<>>
  /\ \A b \in 1 .. Len(bs) - 1 : bs[b].count = BlockSize
  /\ bs # <<>> =>
       /\ bs[Len(bs)].count > 0
       /\ n = BlockSize * (Len(bs) - 1) + bs[Len(bs)].count

LEMMA FullIs == Full(blocks, numMonitors) <=> TypeOK /\ BlocksAreFull
BY DEF Full, TypeOK, BlocksAreFull

\* The monitor at a position of any table.
At(bs, i) == bs[BlockOf(i)].monitors[SlotOf(i)]

\* The last block of a table that is not empty.
LEMMA LastBlock ==
  ASSUME NEW bs, NEW n, Full(bs, n), n # 0
  PROVE  /\ Len(bs) \in Nat \ {0} /\ bs[Len(bs)] \in Block
         /\ bs[Len(bs)].count \in 1 .. BlockSize
         /\ n = BlockSize * (Len(bs) - 1) + bs[Len(bs)].count
         /\ n <= BlockSize * Len(bs)
<1>1. bs \in Seq(Block) /\ bs # <<>> /\ n \in Nat
  BY DEF Full
<1>2. Len(bs) \in Nat \ {0} /\ bs[Len(bs)] \in Block
  BY <1>1
<1>3. bs[Len(bs)].count \in 1 .. BlockSize
  BY <1>1, <1>2, TableAssumption DEF Full, Block
<1>4. n = BlockSize * (Len(bs) - 1) + bs[Len(bs)].count
  BY <1>1 DEF Full
<1>. DEFINE l == Len(bs)
            c == bs[Len(bs)].count
<1>5. n <= BlockSize * l
  <2>1. BlockSize * (l - 1) + c <= BlockSize * l
    <3>1. l \in Nat \ {0} /\ c \in 1 .. BlockSize /\ BlockSize \in Nat
      BY <1>2, <1>3, TableAssumption
    <3>. HIDE DEF l, c
    <3>. QED
      BY <3>1
  <2>. QED
    BY <1>4, <2>1
<1>. QED
  BY <1>2, <1>3, <1>4, <1>5

\* The search stays inside the list.
LEMMA Inside ==
  ASSUME NEW bs, NEW n, Full(bs, n), NEW i \in 0 .. n - 1
  PROVE  /\ BlockOf(i) \in 1 .. Len(bs) /\ SlotOf(i) \in Slots
         /\ bs[BlockOf(i)] \in Block /\ At(bs, i) \in Monitor
<1>1. n \in Nat /\ n # 0 /\ i \in Nat /\ bs \in Seq(Block)
  BY DEF Full
<1>2. Len(bs) \in Nat /\ n <= BlockSize * Len(bs) /\ BlockSize \in Nat
  BY <1>1, LastBlock, TableAssumption
<1>3. i < BlockSize * Len(bs)
  BY <1>1, <1>2
<1>4. BlockOf(i) \in 1 .. Len(bs)
  BY <1>1, <1>2, <1>3, PositionBefore
<1>5. SlotOf(i) \in Slots
  BY <1>1, PositionExists
<1>6. bs[BlockOf(i)] \in Block
  BY <1>1, <1>4
<1>. QED
  BY <1>4, <1>5, <1>6 DEF At, Block

\* Writing a monitor.
LEMMA PutWrites ==
  ASSUME NEW bs, NEW n \in Nat, Full(bs, n), NEW i \in 0 .. n - 1, NEW m \in Monitor
  PROVE  /\ Full(Put(bs, BlockOf(i), SlotOf(i), m), n)
         /\ Len(Put(bs, BlockOf(i), SlotOf(i), m)) = Len(bs)
         /\ \A j \in 0 .. n - 1 :
              At(Put(bs, BlockOf(i), SlotOf(i), m), j) = IF j = i THEN m ELSE At(bs, j)
<1>. DEFINE b == BlockOf(i)
            k == SlotOf(i)
            new == Put(bs, b, k, m)
<1>0. bs \in Seq(Block) /\ n \in Nat /\ bs # <<>>
  BY DEF Full
<1>1. b \in 1 .. Len(bs) /\ k \in Slots /\ bs[b] \in Block
  BY Inside
<1>. HIDE DEF b, k
<1>2. new = [bs EXCEPT ![b] = [bs[b] EXCEPT !.monitors = [bs[b].monitors EXCEPT ![k] = m]]]
  BY DEF Put
<1>3. [bs[b] EXCEPT !.monitors = [bs[b].monitors EXCEPT ![k] = m]] \in Block
  BY <1>1 DEF Block
<1>4. new \in Seq(Block) /\ Len(new) = Len(bs) /\ new # <<>>
  BY <1>0, <1>1, <1>2, <1>3
<1>5. \A c \in 1 .. Len(bs) : new[c].count = bs[c].count
  BY <1>0, <1>1, <1>2 DEF Block
<1>6. Full(new, n)
  BY <1>0, <1>1, <1>4, <1>5 DEF Full
<1>7. ASSUME NEW j \in 0 .. n - 1
      PROVE  At(new, j) = IF j = i THEN m ELSE At(bs, j)
  <2>1. BlockOf(j) \in 1 .. Len(bs) /\ SlotOf(j) \in Slots /\ bs[BlockOf(j)] \in Block
    BY Inside
  <2>2. CASE j = i
    BY <1>0, <1>1, <1>2, <2>1, <2>2 DEF At, Block, b, k
  <2>3. CASE BlockOf(j) # b
    BY <1>0, <1>1, <1>2, <2>1, <2>3 DEF At, b
  <2>4. CASE j # i /\ BlockOf(j) = b
    <3>1. SlotOf(j) # k
      BY <1>0, <1>1, <2>4, PositionsDiffer DEF b, k
    <3>. QED
      BY <1>0, <1>1, <1>2, <2>1, <2>4, <3>1 DEF At, Block
  <2>. QED
    BY <2>2, <2>3, <2>4 DEF b
<1>. QED
  BY <1>4, <1>6, <1>7 DEF b, k

\* The list, with a block more if the last one is full.
LEMMA GrownIs ==
  ASSUME Full(blocks, numMonitors)
  PROVE  /\ Grown \in Seq(Block) /\ Len(Grown) \in Nat \ {0}
         /\ Len(Grown) = BlockOf(numMonitors) /\ SlotOf(numMonitors) \in Slots
         /\ numMonitors = BlockSize * (Len(Grown) - 1) + SlotOf(numMonitors)
         /\ \A b \in 1 .. Len(Grown) - 1 : Grown[b].count = BlockSize
         /\ Grown[Len(Grown)].count = SlotOf(numMonitors)
         /\ \A j \in 0 .. numMonitors - 1 : Grown[BlockOf(j)] = blocks[BlockOf(j)]
<1>0. /\ blocks \in Seq(Block) /\ numMonitors \in Nat /\ Len(blocks) \in Nat
      /\ BlockSize \in Nat \ {0} /\ SlotOf(numMonitors) \in Slots
  <2>1. blocks \in Seq(Block) /\ numMonitors \in Nat
    BY DEF Full
  <2>2. SlotOf(numMonitors) \in Slots
    BY <2>1, PositionExists
  <2>. QED
    BY <2>1, <2>2, TableAssumption
<1>1. EmptyBlock \in Block
  BY TableAssumption DEF EmptyBlock, Block, Monitor, Slots
<1>2. \A j \in 0 .. numMonitors - 1 : BlockOf(j) \in 1 .. Len(blocks)
  BY Inside
<1>3. CASE numMonitors = 0
  <2>1. 0 \in Slots /\ 0 = BlockSize * 0 + 0
    BY <1>0 DEF Slots
  <2>2. BlockOf(0) = 1 /\ SlotOf(0) = 0
    BY <2>1, PositionIs
  <2>3. Grown = <<EmptyBlock>>
    BY <1>3, <2>2 DEF Grown, NeedsBlock, Full
  <2>4. EmptyBlock.count = 0
    BY DEF EmptyBlock
  <2>. QED
    BY <1>0, <1>1, <1>3, <2>1, <2>2, <2>3, <2>4
<1>4. CASE numMonitors # 0
  <2>. DEFINE l == Len(blocks)
              c == blocks[Len(blocks)].count
  <2>1. /\ l \in Nat \ {0} /\ c \in 1 .. BlockSize
        /\ numMonitors = BlockSize * (l - 1) + c
    BY <1>4, LastBlock
  <2>2. \A b \in 1 .. l - 1 : blocks[b].count = BlockSize
    BY DEF Full
  <2>. HIDE DEF l, c
  <2>3. CASE c = BlockSize
    <3>1. 0 \in Slots /\ l \in Nat /\ numMonitors = BlockSize * l + 0
      BY <1>0, <2>1, <2>3 DEF Slots
    <3>2. BlockOf(numMonitors) = l + 1 /\ SlotOf(numMonitors) = 0
      BY <1>0, <3>1, PositionIs
    <3>3. Grown = Append(blocks, EmptyBlock)
      BY <3>2 DEF Grown, NeedsBlock
    <3>4. /\ Grown \in Seq(Block) /\ Len(Grown) = l + 1 /\ Grown[l + 1] = EmptyBlock
          /\ \A b \in 1 .. l : Grown[b] = blocks[b]
      BY <1>0, <1>1, <3>3 DEF l
    <3>5. EmptyBlock.count = 0
      BY DEF EmptyBlock
    <3>6. \A b \in 1 .. l : blocks[b].count = BlockSize
      BY <2>1, <2>2, <2>3 DEF l, c
    <3>7. \A j \in 0 .. numMonitors - 1 : Grown[BlockOf(j)] = blocks[BlockOf(j)]
      BY <1>2, <3>4 DEF l
    <3>8. Len(Grown) - 1 = l /\ l + 1 \in Nat \ {0}
      BY <3>1, <3>4
    <3>9. /\ \A b \in 1 .. Len(Grown) - 1 : Grown[b].count = BlockSize
          /\ Grown[Len(Grown)].count = SlotOf(numMonitors)
      BY <3>2, <3>4, <3>5, <3>6, <3>8
    <3>. QED
      BY <1>0, <3>1, <3>2, <3>4, <3>7, <3>8, <3>9
  <2>4. CASE c # BlockSize
    <3>1. c \in Slots /\ l - 1 \in Nat /\ c # 0
      BY <1>0, <2>1, <2>4 DEF Slots
    <3>2. BlockOf(numMonitors) = l /\ SlotOf(numMonitors) = c
      <4>1. BlockOf(numMonitors) = (l - 1) + 1 /\ SlotOf(numMonitors) = c
        BY <1>0, <2>1, <3>1, PositionIs
      <4>. QED
        BY <2>1, <4>1
    <3>3. Grown = blocks
      BY <3>1, <3>2 DEF Grown, NeedsBlock
    <3>. QED
      BY <1>0, <2>1, <2>2, <3>2, <3>3 DEF l, c
  <2>. QED
    BY <2>3, <2>4
<1>. QED
  BY <1>3, <1>4

\* A new monitor is reset and stands behind the others.
LEMMA AppendedIs ==
  ASSUME Full(blocks, numMonitors), NEW o \in Objects
  PROVE  /\ Full(Appended(o), numMonitors + 1)
         /\ At(Appended(o), numMonitors) = [object |-> o, count |-> 0, waiting |-> 0]
         /\ \A j \in 0 .. numMonitors - 1 : At(Appended(o), j) = At(blocks, j)
<1>. DEFINE l == Len(Grown)
            k == SlotOf(numMonitors)
            m == [object |-> o, count |-> 0, waiting |-> 0]
            new == Appended(o)
<1>1. /\ Grown \in Seq(Block) /\ l \in Nat \ {0} /\ l = BlockOf(numMonitors) /\ k \in Slots
      /\ numMonitors = BlockSize * (l - 1) + k
      /\ \A b \in 1 .. l - 1 : Grown[b].count = BlockSize
      /\ Grown[l].count = k
      /\ \A j \in 0 .. numMonitors - 1 : Grown[BlockOf(j)] = blocks[BlockOf(j)]
  BY GrownIs
<1>2. /\ numMonitors \in Nat /\ BlockSize \in Nat \ {0} /\ m \in Monitor /\ Grown[l] \in Block
  BY <1>1, TableAssumption DEF Full, Monitor
<1>. DEFINE blk == [monitors |-> [Grown[l].monitors EXCEPT ![k] = m], count |-> Grown[l].count + 1]
<1>3. new = [Grown EXCEPT ![l] = blk]
  BY DEF Appended, Reset
<1>. HIDE DEF l, k, m, new
<1>4. blk \in Block
  <2>1. Grown[l].count + 1 \in 0 .. BlockSize
    BY <1>1, <1>2 DEF Slots
  <2>2. [Grown[l].monitors EXCEPT ![k] = m] \in [Slots -> Monitor]
    BY <1>1, <1>2 DEF Block
  <2>. QED
    BY <2>1, <2>2 DEF Block
<1>5. /\ new \in Seq(Block) /\ Len(new) = l /\ new # <<>>
      /\ new[l].count = k + 1 /\ new[l].monitors = [Grown[l].monitors EXCEPT ![k] = m]
      /\ \A b \in 1 .. l - 1 : new[b] = Grown[b]
  <2>1. l = Len(Grown)
    BY DEF l
  <2>2. blk.count = k + 1 /\ blk.monitors = [Grown[l].monitors EXCEPT ![k] = m]
    BY <1>1
  <2>. HIDE DEF blk
  <2>3. /\ new \in Seq(Block) /\ Len(new) = l /\ new # <<>> /\ new[l] = blk
        /\ \A b \in 1 .. l - 1 : new[b] = Grown[b]
    BY <1>1, <1>3, <1>4, <2>1
  <2>. QED
    BY <2>2, <2>3
<1>6. Full(new, numMonitors + 1)
  <2>1. k + 1 > 0 /\ numMonitors + 1 = BlockSize * (l - 1) + (k + 1)
    BY <1>1, <1>2 DEF Slots
  <2>2. numMonitors + 1 \in Nat /\ numMonitors + 1 # 0
    BY <1>2
  <2>3. \A b \in 1 .. l - 1 : new[b].count = BlockSize
    BY <1>1, <1>5
  <2>. QED
    BY <1>5, <2>1, <2>2, <2>3 DEF Full
<1>7. At(new, numMonitors) = m
  BY <1>1, <1>2, <1>5 DEF At, Block, k
<1>8. ASSUME NEW j \in 0 .. numMonitors - 1 PROVE At(new, j) = At(blocks, j)
  <2>1. BlockOf(j) \in 1 .. l /\ SlotOf(j) \in Slots
    BY <1>2, <1>5, <1>6, Inside
  <2>2. CASE BlockOf(j) # l
    BY <1>1, <1>5, <2>1, <2>2 DEF At
  <2>3. CASE BlockOf(j) = l
    <3>1. SlotOf(j) # k
      BY <1>1, <1>2, <2>3, PositionsDiffer DEF k
    <3>2. Grown[l].monitors \in [Slots -> Monitor]
      BY <1>2 DEF Block
    <3>3. new[l].monitors[SlotOf(j)] = Grown[l].monitors[SlotOf(j)]
      BY <1>5, <2>1, <3>1, <3>2
    <3>. QED
      BY <1>1, <2>3, <3>3 DEF At
  <2>. QED
    BY <2>2, <2>3
<1>. QED
  BY <1>6, <1>7, <1>8 DEF m, new

\* Counting the last monitor out, and freeing its block if it was alone there.
Shrunk(bs) == IF EmptyAfter THEN SubSeq(CountedOutLast(bs, 0), 1, Len(bs) - 1)
                            ELSE CountedOutLast(bs, 0)

LEMMA ShrunkIs ==
  ASSUME NEW bs, Full(bs, numMonitors), numMonitors # 0
  PROVE  /\ Full(Shrunk(bs), numMonitors - 1)
         /\ \A j \in 0 .. numMonitors - 2 : At(Shrunk(bs), j) = At(bs, j)
<1>. DEFINE l == Len(bs)
            c == bs[Len(bs)].count
            n == numMonitors - 1
            less == CountedOutLast(bs, 0)
<1>1. /\ l \in Nat \ {0} /\ bs[l] \in Block /\ c \in 1 .. BlockSize
      /\ numMonitors = BlockSize * (l - 1) + c /\ bs \in Seq(Block)
      /\ \A b \in 1 .. l - 1 : bs[b].count = BlockSize
      /\ BlockSize \in Nat \ {0} /\ numMonitors \in Nat \ {0}
      /\ l = Len(bs) /\ c = bs[l].count
  BY LastBlock, TableAssumption DEF Full
<1>2. less = [bs EXCEPT ![l] = [bs[l] EXCEPT !.count = c - 1]]
  BY <1>1 DEF CountedOutLast
<1>3. \A j \in 0 .. n - 1 : BlockOf(j) \in 1 .. l
  <2>1. \A j \in 0 .. n - 1 : j \in 0 .. numMonitors - 1
    BY <1>1
  <2>. QED
    BY <2>1, Inside
<1>4. n \in Nat /\ 0 .. n - 1 = 0 .. numMonitors - 2
  BY <1>1
<1>5. n = BlockSize * (l - 1) + (c - 1)
  BY <1>1
<1>6. c - 1 \in Slots /\ l - 1 \in Nat /\ c - 1 \in 0 .. BlockSize
  BY <1>1 DEF Slots
<1>. HIDE DEF l, c, n, less
<1>7. BlockOf(n) = l /\ SlotOf(n) = c - 1
  <2>1. BlockOf(n) = (l - 1) + 1 /\ SlotOf(n) = c - 1
    BY <1>4, <1>5, <1>6, PositionIs
  <2>. QED
    BY <1>1, <2>1
<1>8. [bs[l] EXCEPT !.count = c - 1] \in Block
  BY <1>1, <1>6 DEF Block
<1>9. /\ less \in Seq(Block) /\ Len(less) = l /\ DOMAIN less = 1 .. l
      /\ less[l] = [bs[l] EXCEPT !.count = c - 1]
      /\ \A b \in 1 .. l - 1 : less[b] = bs[b]
  BY <1>1, <1>2, <1>8
<1>10. less[l].count = c - 1 /\ less[l].monitors = bs[l].monitors
  BY <1>1, <1>9 DEF Block
<1>11. Full(Shrunk(bs), n) /\ \A j \in 0 .. n - 1 : At(Shrunk(bs), j) = At(bs, j)
  <2>1. CASE c = 1
    <3>1. Shrunk(bs) = SubSeq(less, 1, l - 1)
      BY <1>7, <2>1 DEF Shrunk, EmptyAfter, less, l, n
    <3>2. /\ Shrunk(bs) \in Seq(Block) /\ Len(Shrunk(bs)) = l - 1
          /\ \A b \in 1 .. l - 1 : Shrunk(bs)[b] = bs[b]
      BY <1>1, <1>6, <1>9, <3>1
    <3>3. n = BlockSize * (l - 1)
      BY <1>1, <1>5, <2>1
    <3>4. Full(Shrunk(bs), n)
      <4>1. CASE l = 1
        <5>1. n = 0 /\ Shrunk(bs) = <<>>
          BY <1>1, <3>2, <3>3, <4>1
        <5>. QED
          BY <1>4, <5>1 DEF Full
      <4>2. CASE l # 1
        <5>. DEFINE p == l - 1
        <5>1. p \in Nat \ {0} /\ Shrunk(bs) # <<>>
          BY <1>1, <3>2, <4>2
        <5>2. \A b \in 1 .. p : Shrunk(bs)[b].count = BlockSize
          BY <1>1, <3>2
        <5>3. n = BlockSize * p /\ Len(Shrunk(bs)) = p
          BY <3>2, <3>3
        <5>. HIDE DEF p
        <5>4. n = BlockSize * (p - 1) + BlockSize /\ n # 0
          BY <1>1, <5>1, <5>3
        <5>5. /\ \A b \in 1 .. p - 1 : Shrunk(bs)[b].count = BlockSize
              /\ Shrunk(bs)[p].count = BlockSize
          BY <5>1, <5>2
        <5>6. BlockSize > 0
          BY <1>1
        <5>. QED
          BY <1>4, <3>2, <5>1, <5>3, <5>4, <5>5, <5>6 DEF Full
      <4>. QED
        BY <4>1, <4>2
    <3>5. ASSUME NEW j \in 0 .. n - 1 PROVE At(Shrunk(bs), j) = At(bs, j)
      <4>1. BlockOf(j) \in 1 .. Len(Shrunk(bs))
        BY <3>4, Inside
      <4>. QED
        BY <3>2, <4>1 DEF At
    <3>. QED
      BY <3>4, <3>5
  <2>2. CASE c # 1
    <3>1. Shrunk(bs) = less
      <4>1. c - 1 # 0
        BY <1>1, <2>2
      <4>. QED
        BY <1>7, <4>1 DEF Shrunk, EmptyAfter, less, n
    <3>2. Full(less, n)
      <4>1. less # <<>> /\ c - 1 > 0
        BY <1>1, <1>9, <2>2
      <4>2. \A b \in 1 .. l - 1 : less[b].count = BlockSize
        BY <1>1, <1>9
      <4>3. n # 0
        <5>1. BlockSize * (l - 1) >= 0
          BY <1>1
        <5>. QED
          BY <1>1, <1>5, <4>1, <5>1
      <4>. QED
        BY <1>4, <1>5, <1>9, <1>10, <4>1, <4>2, <4>3 DEF Full
    <3>3. ASSUME NEW j \in 0 .. n - 1 PROVE At(less, j) = At(bs, j)
      <4>1. CASE BlockOf(j) = l
        BY <1>10, <4>1 DEF At
      <4>2. CASE BlockOf(j) # l
        <5>1. BlockOf(j) \in 1 .. l - 1
          BY <1>1, <1>3, <3>3, <4>2
        <5>. QED
          BY <1>9, <5>1 DEF At
      <4>. QED
        BY <4>1, <4>2
    <3>. QED
      BY <3>1, <3>2, <3>3
  <2>. QED
    BY <2>1, <2>2
<1>. QED
  BY <1>4, <1>11 DEF n

\* Removing the monitor at i puts the last one in its place.
LEMMA RemovedIs ==
  ASSUME NEW bs, Full(bs, numMonitors), NEW i \in 0 .. numMonitors - 1
  PROVE  /\ Full(Removed(bs, i), numMonitors - 1)
         /\ \A j \in 0 .. numMonitors - 2 :
              At(Removed(bs, i), j) = IF j = i THEN At(bs, numMonitors - 1) ELSE At(bs, j)
<1>. DEFINE n == numMonitors - 1
            l == Len(bs)
            m == At(bs, n)
            filled == IF i < n THEN Put(bs, BlockOf(i), SlotOf(i), m) ELSE bs
<1>1. /\ numMonitors \in Nat \ {0} /\ n \in 0 .. numMonitors - 1 /\ bs \in Seq(Block)
      /\ l \in Nat \ {0} /\ bs[l] \in Block
  BY LastBlock DEF Full
<1>2. /\ m \in Monitor /\ BlockOf(i) \in 1 .. l /\ SlotOf(i) \in Slots
      /\ bs[BlockOf(i)] \in Block
  BY <1>1, Inside
<1>3. BlockOf(n) = l
  <2>1. /\ bs[l].count - 1 \in Slots /\ l - 1 \in Nat /\ n \in Nat
        /\ n = BlockSize * (l - 1) + (bs[l].count - 1)
    BY <1>1, LastBlock, TableAssumption DEF Slots
  <2>. QED
    BY <2>1, PositionIs
<1>4. /\ Full(filled, numMonitors) /\ Len(filled) = l
      /\ \A j \in 0 .. numMonitors - 2 :
           At(filled, j) = IF j = i THEN m ELSE At(bs, j)
  BY <1>1, <1>2, PutWrites
<1>5. CountedOutLast(bs, i)[l].monitors[SlotOf(n)] = m
  BY <1>1, <1>3 DEF CountedOutLast, At, Block
<1>6. Removed(bs, i) = Shrunk(filled)
  <2>1. ASSUME i < n
        PROVE  Put(CountedOutLast(bs, i), BlockOf(i), SlotOf(i), m) = CountedOutLast(filled, 0)
    <3>. DEFINE b == BlockOf(i)
                k == SlotOf(i)
    <3>1. filled = Put(bs, b, k, m)
      BY <2>1
    <3>. HIDE DEF b, k, m, l, filled
    <3>2. Len(Put(bs, b, k, m)) = l
      BY <1>4, <3>1
    <3>3. Put([bs EXCEPT ![l].count = @ - 1], b, k, m) = [Put(bs, b, k, m) EXCEPT ![l].count = @ - 1]
      BY <1>1, <1>2 DEF Put, Block, b, k
    <3>. QED
      BY <3>1, <3>2, <3>3 DEF CountedOutLast, b, k, l
  <2>2. ~ (i < n) => CountedOutLast(bs, i) = CountedOutLast(filled, 0)
    BY DEF CountedOutLast
  <2>. QED
    BY <1>4, <1>5, <2>1, <2>2 DEF Removed, Shrunk
<1>. QED
  BY <1>1, <1>4, <1>6, ShrunkIs
-----------------------------------------------------------------------------
\* Arrays of monitors.

\* No two monitors of the table are of one object.
Unique(bs, n) ==
  \A i, j \in 0 .. n - 1 : At(bs, i).object = At(bs, j).object => i = j

\* Every monitor of the table is of an object, and in use.
InUse(bs, n) ==
  \A i \in 0 .. n - 1 : /\ At(bs, i).object \in Objects
                        /\ At(bs, i).count > 0 \/ At(bs, i).waiting > 0

\* What a table says of an object: Uses of any table.
UsesIn(bs, n, o, f) ==
  IF \E i \in 0 .. n - 1 : At(bs, i).object = o
  THEN At(bs, CHOOSE i \in 0 .. n - 1 : At(bs, i).object = o)[f]
  ELSE 0

LEMMA FoundIs ==
  ASSUME NEW bs, NEW n, Unique(bs, n), NEW i \in 0 .. n - 1, NEW f
  PROVE  UsesIn(bs, n, At(bs, i).object, f) = At(bs, i)[f]
<1>. DEFINE o == At(bs, i).object
            c == CHOOSE j \in 0 .. n - 1 : At(bs, j).object = o
<1>1. c \in 0 .. n - 1 /\ At(bs, c).object = o
  OBVIOUS
<1>2. c = i
  BY <1>1 DEF Unique
<1>. QED
  BY <1>2 DEF UsesIn

LEMMA AbsentIs ==
  ASSUME NEW bs, NEW n, NEW o, NEW f, \A i \in 0 .. n - 1 : At(bs, i).object # o
  PROVE  UsesIn(bs, n, o, f) = 0
BY DEF UsesIn

\* The table new says of o what m says, and of other objects what bs says.
Effect(bs, n, new, k, o, m) ==
  \A p : \A f \in {"count", "waiting"} :
    UsesIn(new, k, p, f) = IF p = o THEN m[f] ELSE UsesIn(bs, n, p, f)

\* Changing a monitor.
LEMMA ChangedSays ==
  ASSUME NEW bs, NEW n \in Nat, NEW new, NEW i \in 0 .. n - 1, NEW m,
         Unique(bs, n), m.object = At(bs, i).object,
         \A j \in 0 .. n - 1 : At(new, j) = IF j = i THEN m ELSE At(bs, j)
  PROVE  Unique(new, n) /\ Effect(bs, n, new, n, m.object, m)
<1>1. \A j \in 0 .. n - 1 : At(new, j).object = At(bs, j).object
  OBVIOUS
<1>2. Unique(new, n)
  BY <1>1 DEF Unique
<1>3. ASSUME NEW p, NEW f
      PROVE  UsesIn(new, n, p, f) = IF p = m.object THEN m[f] ELSE UsesIn(bs, n, p, f)
  <2>1. CASE \E j \in 0 .. n - 1 : At(bs, j).object = p
    <3>1. PICK j \in 0 .. n - 1 : At(bs, j).object = p
      BY <2>1
    <3>2. UsesIn(new, n, p, f) = At(new, j)[f] /\ UsesIn(bs, n, p, f) = At(bs, j)[f]
      BY <1>1, <1>2, <3>1, FoundIs
    <3>3. p = m.object <=> j = i
      BY <3>1 DEF Unique
    <3>. QED
      BY <3>2, <3>3
  <2>2. CASE ~ \E j \in 0 .. n - 1 : At(bs, j).object = p
    <3>1. UsesIn(new, n, p, f) = 0 /\ UsesIn(bs, n, p, f) = 0
      BY <1>1, <2>2, AbsentIs
    <3>. QED
      BY <2>2, <3>1
  <2>. QED
    BY <2>1, <2>2
<1>. QED
  BY <1>2, <1>3 DEF Effect

\* Appending a monitor.
LEMMA AppendedSays ==
  ASSUME NEW bs, NEW n \in Nat, NEW new, NEW m, Unique(bs, n),
         \A j \in 0 .. n - 1 : At(bs, j).object # m.object,
         At(new, n) = m, \A j \in 0 .. n - 1 : At(new, j) = At(bs, j)
  PROVE  Unique(new, n + 1) /\ Effect(bs, n, new, n + 1, m.object, m)
<1>1. \A j : j \in 0 .. (n + 1) - 1 <=> j \in 0 .. n - 1 \/ j = n
  OBVIOUS
<1>2. Unique(new, n + 1)
  BY <1>1 DEF Unique
<1>3. ASSUME NEW p, NEW f
      PROVE  UsesIn(new, n + 1, p, f) = IF p = m.object THEN m[f] ELSE UsesIn(bs, n, p, f)
  <2>1. CASE \E j \in 0 .. n - 1 : At(bs, j).object = p
    <3>1. PICK j \in 0 .. n - 1 : At(bs, j).object = p
      BY <2>1
    <3>2. UsesIn(bs, n, p, f) = At(bs, j)[f]
      BY <3>1, FoundIs
    <3>3. j \in 0 .. (n + 1) - 1 /\ At(new, j).object = p
      BY <1>1, <3>1
    <3>4. UsesIn(new, n + 1, p, f) = At(new, j)[f]
      BY <1>2, <3>3, FoundIs
    <3>. QED
      BY <3>1, <3>2, <3>4
  <2>2. CASE p = m.object
    <3>1. n \in 0 .. (n + 1) - 1
      BY <1>1
    <3>. QED
      BY <1>2, <2>2, <3>1, FoundIs
  <2>3. CASE p # m.object /\ \A j \in 0 .. n - 1 : At(bs, j).object # p
    <3>1. UsesIn(bs, n, p, f) = 0
      BY <2>3, AbsentIs
    <3>2. \A j \in 0 .. (n + 1) - 1 : At(new, j).object # p
      BY <1>1, <2>3
    <3>3. UsesIn(new, n + 1, p, f) = 0
      BY <3>2, AbsentIs
    <3>. QED
      BY <2>3, <3>1, <3>3
  <2>. QED
    BY <2>1, <2>2, <2>3
<1>. QED
  BY <1>2, <1>3 DEF Effect

\* Removing a monitor.
NoUse == [count |-> 0, waiting |-> 0]

LEMMA RemovedSays ==
  ASSUME NEW bs, NEW n \in Nat, NEW new, NEW i \in 0 .. n - 1, Unique(bs, n),
         \A j \in 0 .. n - 2 : At(new, j) = IF j = i THEN At(bs, n - 1) ELSE At(bs, j)
  PROVE  Unique(new, n - 1) /\ Effect(bs, n, new, n - 1, At(bs, i).object, NoUse)
<1>. DEFINE o == At(bs, i).object
            From(j) == IF j = i THEN n - 1 ELSE j
<1>1. /\ 0 .. (n - 1) - 1 = 0 .. n - 2
      /\ \A j \in 0 .. n - 2 : /\ j \in 0 .. n - 1 /\ From(j) \in 0 .. n - 1 /\ From(j) # i
                               /\ At(new, j) = At(bs, From(j))
  OBVIOUS
<1>2. \A j \in 0 .. n - 1 : j # i => \E k \in 0 .. n - 2 : From(k) = j
  <2>1. SUFFICES ASSUME NEW j \in 0 .. n - 1, j # i PROVE \E k \in 0 .. n - 2 : From(k) = j
    OBVIOUS
  <2>2. CASE j = n - 1
    <3>1. i \in 0 .. n - 2 /\ From(i) = j
      BY <2>1, <2>2
    <3>. QED
      BY <3>1
  <2>3. CASE j # n - 1
    <3>1. j \in 0 .. n - 2 /\ From(j) = j
      BY <2>1, <2>3
    <3>. QED
      BY <3>1
  <2>. QED
    BY <2>2, <2>3
<1>3. \A j, k \in 0 .. n - 2 : From(j) = From(k) => j = k
  OBVIOUS
<1>. HIDE DEF From
<1>4. Unique(new, n - 1)
  BY <1>1, <1>3 DEF Unique
<1>5. ASSUME NEW p, NEW f \in {"count", "waiting"}
      PROVE  UsesIn(new, n - 1, p, f) = IF p = o THEN NoUse[f] ELSE UsesIn(bs, n, p, f)
  <2>1. CASE p = o
    <3>1. \A j \in 0 .. (n - 1) - 1 : At(new, j).object # p
      BY <1>1, <2>1 DEF Unique
    <3>2. UsesIn(new, n - 1, p, f) = 0
      BY <3>1, AbsentIs
    <3>. QED
      BY <2>1, <3>2 DEF NoUse
  <2>2. CASE p # o /\ \E j \in 0 .. n - 1 : At(bs, j).object = p
    <3>1. PICK j \in 0 .. n - 1 : At(bs, j).object = p
      BY <2>2
    <3>2. PICK k \in 0 .. n - 2 : From(k) = j
      BY <1>2, <2>2, <3>1
    <3>3. UsesIn(bs, n, p, f) = At(bs, j)[f]
      BY <3>1, FoundIs
    <3>4. At(new, k) = At(bs, j) /\ k \in 0 .. (n - 1) - 1
      BY <1>1, <3>2
    <3>5. UsesIn(new, n - 1, p, f) = At(new, k)[f]
      BY <1>4, <3>1, <3>4, FoundIs
    <3>. QED
      BY <2>2, <3>3, <3>4, <3>5
  <2>3. CASE p # o /\ \A j \in 0 .. n - 1 : At(bs, j).object # p
    <3>1. UsesIn(bs, n, p, f) = 0
      BY <2>3, AbsentIs
    <3>2. \A j \in 0 .. (n - 1) - 1 : At(new, j).object # p
      BY <1>1, <2>3
    <3>3. UsesIn(new, n - 1, p, f) = 0
      BY <3>2, AbsentIs
    <3>. QED
      BY <2>3, <3>1, <3>3
  <2>. QED
    BY <2>1, <2>2, <2>3
<1>. QED
  BY <1>4, <1>5 DEF Effect
-----------------------------------------------------------------------------
\* Steps.

\* The inductive invariant, of any table.
Good(bs, n) == Full(bs, n) /\ InUse(bs, n) /\ Unique(bs, n)

LEMMA GoodIs ==
  Good(blocks, numMonitors) <=> TypeOK /\ BlocksAreFull /\ OneMonitorEach
<1>1. \A i : MonitorAt(i) = At(blocks, i)
  BY DEF MonitorAt, At
<1>2. InUse(blocks, numMonitors) /\ Unique(blocks, numMonitors) <=> OneMonitorEach
  BY <1>1 DEF InUse, Unique, OneMonitorEach
<1>. QED
  BY <1>2, FullIs DEF Good

\* Writing a monitor that is in use.
LEMMA WriteStep ==
  ASSUME NEW bs, NEW n \in Nat, Good(bs, n), NEW i \in 0 .. n - 1,
         NEW m \in Monitor, m.object = At(bs, i).object, m.count > 0 \/ m.waiting > 0
  PROVE  /\ Good(Put(bs, BlockOf(i), SlotOf(i), m), n)
         /\ Effect(bs, n, Put(bs, BlockOf(i), SlotOf(i), m), n, m.object, m)
<1>. DEFINE new == Put(bs, BlockOf(i), SlotOf(i), m)
<1>1. n \in Nat /\ Full(bs, n) /\ InUse(bs, n) /\ Unique(bs, n)
  BY DEF Good, Full
<1>. HIDE DEF new
<1>2. /\ Full(new, n)
      /\ \A j \in 0 .. n - 1 : At(new, j) = IF j = i THEN m ELSE At(bs, j)
  <2>1. i \in 0 .. n - 1 /\ m \in Monitor
    OBVIOUS
  <2>. QED
    BY <1>1, <2>1, PutWrites DEF new
<1>3. Unique(new, n) /\ Effect(bs, n, new, n, m.object, m)
  BY <1>1, <1>2, ChangedSays
<1>4. InUse(new, n)
  BY <1>1, <1>2 DEF InUse
<1>. QED
  BY <1>2, <1>3, <1>4 DEF Good, new

\* Appending a monitor and writing it.
LEMMA AppendStep ==
  ASSUME Good(blocks, numMonitors), NEW o \in Objects, Absent(o),
         NEW m \in Monitor, m.object = o, m.count > 0 \/ m.waiting > 0
  PROVE  /\ Good(Put(Appended(o), Len(Grown), SlotOf(numMonitors), m), numMonitors + 1)
         /\ Effect(blocks, numMonitors,
                   Put(Appended(o), Len(Grown), SlotOf(numMonitors), m), numMonitors + 1, o, m)
<1>. DEFINE n == numMonitors
            new == Put(Appended(o), Len(Grown), SlotOf(n), m)
<1>1. n \in Nat /\ Full(blocks, n) /\ InUse(blocks, n) /\ Unique(blocks, n)
  BY DEF Good, Full
<1>2. n \in 0 .. (n + 1) - 1 /\ \A j : j \in 0 .. (n + 1) - 1 <=> j \in 0 .. n - 1 \/ j = n
  BY <1>1
<1>3. /\ Full(Appended(o), n + 1)
      /\ \A j \in 0 .. n - 1 : At(Appended(o), j) = At(blocks, j)
  BY <1>1, AppendedIs
<1>4. new = Put(Appended(o), BlockOf(n), SlotOf(n), m)
  BY <1>1, GrownIs
<1>. HIDE DEF new
<1>5. /\ Full(new, n + 1)
      /\ \A j \in 0 .. (n + 1) - 1 : At(new, j) = IF j = n THEN m ELSE At(Appended(o), j)
  BY <1>2, <1>3, <1>4, PutWrites
<1>6. At(new, n) = m /\ \A j \in 0 .. n - 1 : At(new, j) = At(blocks, j)
  <2>1. At(new, n) = m
    BY <1>2, <1>5
  <2>2. \A j \in 0 .. n - 1 : j \in 0 .. (n + 1) - 1 /\ j # n
    BY <1>1
  <2>. QED
    BY <1>3, <1>5, <2>1, <2>2
<1>7. \A j \in 0 .. n - 1 : At(blocks, j).object # m.object
  BY <1>1 DEF Absent, InTable, MonitorAt, At
<1>8. Unique(new, n + 1) /\ Effect(blocks, n, new, n + 1, m.object, m)
  BY <1>1, <1>6, <1>7, AppendedSays
<1>9. InUse(new, n + 1)
  BY <1>1, <1>2, <1>6 DEF InUse
<1>. QED
  BY <1>5, <1>8, <1>9 DEF Good, new

\* Removing a monitor, whatever was written to it last.
LEMMA RemoveStep ==
  ASSUME Good(blocks, numMonitors), NEW i \in 0 .. numMonitors - 1, NEW m \in Monitor
  PROVE  LET new == Removed(Put(blocks, BlockOf(i), SlotOf(i), m), i)
         IN /\ Good(new, numMonitors - 1)
            /\ Effect(blocks, numMonitors, new, numMonitors - 1, At(blocks, i).object, NoUse)
<1>. DEFINE n == numMonitors
            bs == Put(blocks, BlockOf(i), SlotOf(i), m)
            new == Removed(bs, i)
<1>1. n \in Nat /\ Full(blocks, n) /\ InUse(blocks, n) /\ Unique(blocks, n)
  BY DEF Good, Full
<1>2. /\ Full(bs, n)
      /\ \A j \in 0 .. n - 1 : At(bs, j) = IF j = i THEN m ELSE At(blocks, j)
  BY <1>1, PutWrites
<1>. HIDE DEF bs
<1>3. /\ Full(new, n - 1)
      /\ \A j \in 0 .. n - 2 : At(new, j) = IF j = i THEN At(bs, n - 1) ELSE At(bs, j)
  BY <1>2, RemovedIs
<1>. HIDE DEF new
<1>4. \A j \in 0 .. n - 2 : At(new, j) = IF j = i THEN At(blocks, n - 1) ELSE At(blocks, j)
  <2>1. \A j \in 0 .. n - 2 : /\ j \in 0 .. n - 1 /\ n - 1 \in 0 .. n - 1
                              /\ j = i => n - 1 # i
    BY <1>1
  <2>. QED
    BY <1>2, <1>3, <2>1
<1>5. Unique(new, n - 1) /\ Effect(blocks, n, new, n - 1, At(blocks, i).object, NoUse)
  BY <1>1, <1>4, RemovedSays
<1>6. InUse(new, n - 1)
  <2>1. \A j \in 0 .. (n - 1) - 1 : j \in 0 .. n - 2 /\ j \in 0 .. n - 1 /\ n - 1 \in 0 .. n - 1
    BY <1>1
  <2>. QED
    BY <1>1, <1>4, <2>1 DEF InUse
<1>. QED
  BY <1>3, <1>5, <1>6 DEF Good, new, bs
-----------------------------------------------------------------------------
\* The map.

counts == [o \in Objects |-> Uses(o, "count")]
waits == [o \in Objects |-> Uses(o, "waiting")]

LEMMA UsesAreIn ==
  \A o, f : Uses(o, f) = UsesIn(blocks, numMonitors, o, f)
BY DEF Uses, UsesIn, MonitorAt, At

LEMMA UsesAreInNext ==
  \A o, f : Uses(o, f)' = UsesIn(blocks', numMonitors', o, f)
BY DEF Uses, UsesIn, MonitorAt, At

\* What is known of the monitor a step finds.
LEMMA Found ==
  ASSUME Good(blocks, numMonitors), NEW o \in Objects, NEW i \in 0 .. numMonitors - 1,
         Finds(o, i)
  PROVE  /\ MonitorAt(i) = At(blocks, i) /\ MonitorAt(i) \in Monitor /\ MonitorAt(i).object = o
         /\ counts[o] = MonitorAt(i).count /\ waits[o] = MonitorAt(i).waiting
<1>1. MonitorAt(i) = At(blocks, i) /\ MonitorAt(i).object = o
  BY DEF MonitorAt, At, Finds
<1>2. Full(blocks, numMonitors) /\ Unique(blocks, numMonitors)
  BY DEF Good
<1>3. MonitorAt(i) \in Monitor
  BY <1>1, <1>2, Inside
<1>4. Uses(o, "count") = MonitorAt(i)["count"] /\ Uses(o, "waiting") = MonitorAt(i)["waiting"]
  BY <1>1, <1>2, FoundIs, UsesAreIn
<1>. QED
  BY <1>1, <1>3, <1>4 DEF counts, waits

\* An object without a monitor.
LEMMA NotFound ==
  ASSUME NEW o \in Objects, numMonitors \in Nat, Absent(o)
  PROVE  counts[o] = 0 /\ waits[o] = 0
<1>1. \A i \in 0 .. numMonitors - 1 : At(blocks, i).object # o
  BY DEF Absent, InTable, MonitorAt, At
<1>. QED
  BY <1>1, AbsentIs, UsesAreIn DEF counts, waits

\* A step that changes what the table says of o changes the map at o.
LEMMA MapStep ==
  ASSUME NEW o \in Objects, NEW m, Effect(blocks, numMonitors, blocks', numMonitors', o, m)
  PROVE  /\ counts' = [counts EXCEPT ![o] = m.count]
         /\ waits' = [waits EXCEPT ![o] = m.waiting]
         /\ m.count = counts[o] => counts' = counts
         /\ m.waiting = waits[o] => waits' = waits
<1>1. \A p \in Objects :
        /\ Uses(p, "count")' = IF p = o THEN m["count"] ELSE Uses(p, "count")
        /\ Uses(p, "waiting")' = IF p = o THEN m["waiting"] ELSE Uses(p, "waiting")
  BY UsesAreIn, UsesAreInNext DEF Effect
<1>. QED
  BY <1>1 DEF counts, waits
-----------------------------------------------------------------------------
\* One step of the table is one of the map.

LEMMA EnterStep ==
  ASSUME Good(blocks, numMonitors), NEW o \in Objects, Enter(o)
  PROVE  Good(blocks', numMonitors') /\ Map!Enter(o)
<1>. USE TableAssumption
<1>0. numMonitors \in Nat
  BY DEF Good, Full
<1>1. SUFFICES Good(blocks', numMonitors') /\
        \/ /\ counts[o] < MaxUse
           /\ counts' = [counts EXCEPT ![o] = @ + 1]
           /\ waits' = waits
        \/ /\ counts[o] > 0 /\ waits[o] < MaxUse
           /\ waits' = [waits EXCEPT ![o] = @ + 1]
           /\ counts' = counts
  BY DEF Map!Enter, counts, waits
<1>2. CASE \E i \in 0 .. numMonitors - 1 :
             /\ Finds(o, i)
             /\ \E m \in Entered(MonitorAt(i)) :
                  blocks' = Put(blocks, BlockOf(i), SlotOf(i), m)
             /\ UNCHANGED numMonitors
  <2>0. PICK i \in 0 .. numMonitors - 1 :
          /\ Finds(o, i) /\ UNCHANGED numMonitors
          /\ \E m \in Entered(MonitorAt(i)) : blocks' = Put(blocks, BlockOf(i), SlotOf(i), m)
    BY <1>2
  <2>1. PICK m \in Entered(MonitorAt(i)) : blocks' = Put(blocks, BlockOf(i), SlotOf(i), m)
    BY <2>0
  <2>. DEFINE old == MonitorAt(i)
  <2>2. /\ old = At(blocks, i) /\ old \in Monitor /\ old.object = o
        /\ counts[o] = old.count /\ waits[o] = old.waiting
    BY <2>0, Found
  <2>. HIDE DEF old
  <2>3. \/ old.count < MaxUse /\ m = [old EXCEPT !.count = @ + 1]
        \/ old.count > 0 /\ old.waiting < MaxUse /\ m = [old EXCEPT !.waiting = @ + 1]
    BY <2>1, <2>2 DEF Entered, Monitor, old
  <2>4. /\ m \in Monitor /\ m.object = o
        /\ m.count > 0 \/ m.waiting > 0
        /\ \/ old.count < MaxUse /\ m.count = old.count + 1 /\ m.waiting = old.waiting
           \/ /\ old.count > 0 /\ old.waiting < MaxUse
              /\ m.count = old.count /\ m.waiting = old.waiting + 1
    BY <2>2, <2>3 DEF Monitor
  <2>5. /\ Good(blocks', numMonitors')
        /\ Effect(blocks, numMonitors, blocks', numMonitors', o, m)
    BY <1>0, <2>0, <2>1, <2>2, <2>4, WriteStep
  <2>6. /\ counts' = [counts EXCEPT ![o] = m.count]
        /\ waits' = [waits EXCEPT ![o] = m.waiting]
        /\ m.count = counts[o] => counts' = counts
        /\ m.waiting = waits[o] => waits' = waits
    BY <2>5, MapStep
  <2>. QED
    BY <2>2, <2>4, <2>5, <2>6
<1>3. CASE /\ Absent(o)
           /\ \E m \in Entered(Appended(o)[Len(Grown)].monitors[SlotOf(numMonitors)]) :
                blocks' = Put(Appended(o), Len(Grown), SlotOf(numMonitors), m)
           /\ numMonitors' = numMonitors + 1
  <2>. DEFINE old == [object |-> o, count |-> 0, waiting |-> 0]
  <2>1. Appended(o)[Len(Grown)].monitors[SlotOf(numMonitors)] = old
    BY GrownIs, AppendedIs DEF At, Good
  <2>2. PICK m \in Entered(old) :
          blocks' = Put(Appended(o), Len(Grown), SlotOf(numMonitors), m)
    BY <1>3, <2>1
  <2>3. m = [object |-> o, count |-> 1, waiting |-> 0]
    BY <2>2 DEF Entered
  <2>4. m \in Monitor /\ m.object = o /\ m.count = 1 /\ m.waiting = 0
    BY <2>3 DEF Monitor
  <2>5. /\ Good(blocks', numMonitors')
        /\ Effect(blocks, numMonitors, blocks', numMonitors', o, m)
    BY <1>3, <2>2, <2>4, AppendStep
  <2>6. /\ counts' = [counts EXCEPT ![o] = m.count]
        /\ waits' = [waits EXCEPT ![o] = m.waiting]
        /\ m.count = counts[o] => counts' = counts
        /\ m.waiting = waits[o] => waits' = waits
    BY <2>5, MapStep
  <2>7. counts[o] = 0 /\ waits[o] = 0
    BY <1>0, <1>3, NotFound
  <2>. QED
    BY <2>4, <2>5, <2>6, <2>7
<1>. QED
  BY <1>2, <1>3 DEF Enter

LEMMA ExitStep ==
  ASSUME Good(blocks, numMonitors), NEW o \in Objects, Exit(o)
  PROVE  Good(blocks', numMonitors') /\ Map!Exit(o)
<1>. USE TableAssumption
<1>0. numMonitors \in Nat
  BY DEF Good, Full
<1>1. SUFFICES /\ Good(blocks', numMonitors') /\ counts[o] > 0
               /\ counts' = [counts EXCEPT ![o] = @ - 1] /\ waits' = waits
  BY DEF Map!Exit, counts, waits
<1>2. PICK i \in 0 .. numMonitors - 1 :
        LET m == [MonitorAt(i) EXCEPT !.count = @ - 1]
            written == Put(blocks, BlockOf(i), SlotOf(i), m)
        IN /\ Finds(o, i)
           /\ MonitorAt(i).count > 0
           /\ IF m.count = 0 /\ m.waiting = 0
              THEN blocks' = Removed(written, i) /\ numMonitors' = numMonitors - 1
              ELSE blocks' = written /\ UNCHANGED numMonitors
  BY DEF Exit
<1>. DEFINE old == MonitorAt(i)
            m == [old EXCEPT !.count = @ - 1]
            written == Put(blocks, BlockOf(i), SlotOf(i), m)
<1>3. /\ old = At(blocks, i) /\ old \in Monitor /\ old.object = o
      /\ counts[o] = old.count /\ waits[o] = old.waiting
  BY <1>2, Found
<1>4. /\ m \in Monitor /\ m.object = o /\ m.count = old.count - 1 /\ m.waiting = old.waiting
  BY <1>2, <1>3 DEF Monitor
<1>5. old.count > 0
  BY <1>2
<1>6. CASE m.count = 0 /\ m.waiting = 0
  <2>1. blocks' = Removed(written, i) /\ numMonitors' = numMonitors - 1
    BY <1>2, <1>6
  <2>. HIDE DEF m, old
  <2>2. /\ Good(blocks', numMonitors')
        /\ Effect(blocks, numMonitors, blocks', numMonitors', o, NoUse)
    BY <1>3, <1>4, <2>1, RemoveStep
  <2>3. /\ counts' = [counts EXCEPT ![o] = 0]
        /\ waits[o] = 0 => waits' = waits
    BY <2>2, MapStep DEF NoUse
  <2>. QED
    BY <1>3, <1>4, <1>5, <1>6, <2>2, <2>3
<1>7. CASE ~ (m.count = 0 /\ m.waiting = 0)
  <2>1. blocks' = written /\ UNCHANGED numMonitors
    BY <1>2, <1>7
  <2>. HIDE DEF m, old
  <2>2. m.count > 0 \/ m.waiting > 0
    <3>1. m.count \in Nat /\ m.waiting \in Nat
      BY <1>4 DEF Monitor
    <3>. QED
      BY <1>7, <3>1
  <2>3. /\ Good(blocks', numMonitors')
        /\ Effect(blocks, numMonitors, blocks', numMonitors', o, m)
    BY <1>0, <1>3, <1>4, <2>1, <2>2, WriteStep
  <2>4. /\ counts' = [counts EXCEPT ![o] = m.count]
        /\ waits' = [waits EXCEPT ![o] = m.waiting]
        /\ m.count = counts[o] => counts' = counts
        /\ m.waiting = waits[o] => waits' = waits
    BY <2>3, MapStep
  <2>. QED
    BY <1>3, <1>4, <1>5, <2>3, <2>4
<1>. QED
  BY <1>6, <1>7

LEMMA GrantStep ==
  ASSUME Good(blocks, numMonitors), NEW o \in Objects, Grant(o)
  PROVE  Good(blocks', numMonitors') /\ Map!Grant(o)
<1>. USE TableAssumption
<1>0. numMonitors \in Nat
  BY DEF Good, Full
<1>1. SUFFICES /\ Good(blocks', numMonitors') /\ counts[o] = 0 /\ waits[o] > 0
               /\ counts' = [counts EXCEPT ![o] = 1]
               /\ waits' = [waits EXCEPT ![o] = @ - 1]
  BY DEF Map!Grant, counts, waits
<1>2. PICK i \in 0 .. numMonitors - 1 :
        /\ Finds(o, i) /\ UNCHANGED numMonitors
        /\ MonitorAt(i).count = 0 /\ MonitorAt(i).waiting > 0
        /\ blocks' = Put(blocks, BlockOf(i), SlotOf(i),
                         [object |-> o, count |-> 1, waiting |-> MonitorAt(i).waiting - 1])
  BY DEF Grant
<1>. DEFINE old == MonitorAt(i)
            m == [object |-> o, count |-> 1, waiting |-> old.waiting - 1]
<1>3. /\ old = At(blocks, i) /\ old \in Monitor /\ old.object = o
      /\ counts[o] = old.count /\ waits[o] = old.waiting
  BY <1>2, Found
<1>4. old.count = 0 /\ old.waiting > 0
  BY <1>2
<1>5. /\ m \in Monitor /\ m.object = o /\ m.count = 1 /\ m.waiting = old.waiting - 1
  <2>1. old.waiting - 1 \in 0 .. MaxUse /\ 1 \in 0 .. MaxUse
    BY <1>3, <1>4 DEF Monitor
  <2>. HIDE DEF old
  <2>. QED
    BY <2>1 DEF Monitor
<1>6. blocks' = Put(blocks, BlockOf(i), SlotOf(i), m)
  BY <1>2
<1>. HIDE DEF m, old
<1>7. /\ Good(blocks', numMonitors')
      /\ Effect(blocks, numMonitors, blocks', numMonitors', o, m)
  BY <1>0, <1>2, <1>3, <1>5, <1>6, WriteStep
<1>8. counts' = [counts EXCEPT ![o] = m.count] /\ waits' = [waits EXCEPT ![o] = m.waiting]
  BY <1>7, MapStep
<1>9. m.count = 1 /\ m.waiting = waits[o] - 1 /\ counts[o] = 0 /\ waits[o] > 0
  BY <1>3, <1>4, <1>5
<1>. QED
  BY <1>7, <1>8, <1>9

-----------------------------------------------------------------------------
\* Theorems.

LEMMA InitGood == Init => Good(blocks, numMonitors)
BY DEF Init, Good, Full, InUse, Unique

LEMMA NextGood ==
  Good(blocks, numMonitors) /\ [Next]_tableVars => Good(blocks', numMonitors')
<1>1. ASSUME Good(blocks, numMonitors), Next PROVE Good(blocks', numMonitors')
  BY <1>1, EnterStep, ExitStep, GrantStep DEF Next
<1>2. ASSUME Good(blocks, numMonitors), UNCHANGED tableVars PROVE Good(blocks', numMonitors')
  BY <1>2 DEF tableVars
<1>. QED
  BY <1>1, <1>2

\* The conjunction of the invariants is inductive; this is it, as a state predicate.
TableInv == Good(blocks, numMonitors)

\* Whatever the size of the blocks and of the heap, numMonitors, the list and the counters
\* agree, and no object has two monitors (dj_vm_getMonitor, dj_vm_removeMonitor).
THEOREM TableCorrect == Spec => [](TypeOK /\ BlocksAreFull /\ OneMonitorEach)
<1>1. Init => TableInv
  BY InitGood DEF TableInv
<1>2. TableInv /\ [Next]_tableVars => TableInv'
  BY NextGood DEF TableInv
<1>3. TableInv => TypeOK /\ BlocksAreFull /\ OneMonitorEach
  BY GoodIs DEF TableInv
<1>. QED
  BY <1>1, <1>2, <1>3, PTL DEF Spec

\* The table keeps its type: the counters of the blocks stay bytes in their range.
THEOREM TableTyped == Spec => []TypeOK
  BY TableCorrect, PTL

\* All blocks but the last are full, and numMonitors counts the slots in use: what the
\* search of dj_vm_getMonitor and the move in dj_vm_removeMonitor rely on.
THEOREM BlocksFilled == Spec => []BlocksAreFull
  BY TableCorrect, PTL

\* The table implements the map from objects to monitors: what MONITORENTER, MONITOREXIT
\* and dj_vm_wakeThreads do to one monitor is all they do.
THEOREM TableImplementsMap == Spec => TableIsMap
<1>1. Init => Map!Init
  BY DEF Init, Map!Init, Uses
<1>2. Init => TableInv
  BY InitGood DEF TableInv
<1>3. TableInv /\ [Next]_tableVars => TableInv'
  BY NextGood DEF TableInv
<1>4. TableInv /\ [Next]_tableVars => [Map!Next]_(Map!mapVars)
  <2>1. ASSUME TableInv, Next PROVE Map!Next
    BY <2>1, EnterStep, ExitStep, GrantStep DEF TableInv, Next, Map!Next
  <2>2. ASSUME UNCHANGED tableVars PROVE UNCHANGED Map!mapVars
    BY <2>2 DEF tableVars, Map!mapVars, Uses, MonitorAt
  <2>. QED
    BY <2>1, <2>2
<1>. QED
  BY <1>1, <1>2, <1>3, <1>4, PTL DEF Spec, TableIsMap, Map!Spec
==============================================================================
