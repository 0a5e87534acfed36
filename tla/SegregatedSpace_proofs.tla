------------------------ MODULE SegregatedSpace_proofs ------------------------
(***************************************************************************)
(* Theorems about the small-object space, for any number of blocks, size   *)
(* steps and cell sizes.                                                   *)
(***************************************************************************)
EXTENDS SegregatedSpace, FiniteSetTheorems, WellFoundedInduction, TLAPS

\* Every cell of a block of cells of s granules lies inside the block.
LEMMA CellsInside ==
    ASSUME NEW b \in Blocks, NEW s \in 0..Granules
    PROVE  CellsOf(b, s) \subseteq Addresses
<1> SUFFICES ASSUME s # 0, NEW i \in 0..(Granules \div s - 1)
             PROVE  <<b, i * s>> \in Addresses
  BY DEF CellsOf
<1>1. Granules \in Nat /\ s \in Nat /\ s > 0 /\ i \in Nat
  BY GranulesAssumption
<1>2. Granules = s * (Granules \div s) + (Granules % s) /\ Granules % s \in 0..(s - 1)
  BY <1>1
<1>3. Granules \div s \in Nat /\ i + 1 <= Granules \div s
  BY <1>1, <1>2
<1>4. s * (i + 1) <= s * (Granules \div s)
  BY <1>1, <1>3
<1>5. i * s \in Nat /\ i * s + s <= Granules
  BY <1>1, <1>2, <1>3, <1>4
<1> QED
  BY <1>1, <1>5 DEF Addresses

\* The first component of a cell is its block.
LEMMA CellBlock ==
    ASSUME NEW b, NEW s, NEW a \in CellsOf(b, s)
    PROVE  a[1] = b /\ s # 0
BY DEF CellsOf

\* A block cut by a size step has a cell.
LEMMA CellsNonEmpty ==
    ASSUME NEW b, NEW k \in Steps
    PROVE  CellsOf(b, CellSize[k]) # {}
<1>1. CellSize[k] \in Nat /\ CellSize[k] > 0 /\ CellSize[k] <= Granules /\ Granules \in Nat
  BY CellSizeAssumption, GranulesAssumption
<1>2. Granules \div CellSize[k] >= 1
  BY <1>1
<1>3. 0 \in 0..(Granules \div CellSize[k] - 1)
  BY <1>1, <1>2
<1>4. <<b, 0 * CellSize[k]>> \in {<<b, i * CellSize[k]>> : i \in 0..(Granules \div CellSize[k] - 1)}
  BY <1>3
<1>5. CellsOf(b, CellSize[k]) = {<<b, i * CellSize[k]>> : i \in 0..(Granules \div CellSize[k] - 1)}
  BY <1>1 DEF CellsOf
<1> QED
  BY <1>4, <1>5

-----------------------------------------------------------------------------
\* The parts of the inductive invariant, as the steps use them.
Ownership ==
    /\ free_blocks \cup AllOwned = 1..(data - 1)
    /\ free_blocks \cap AllOwned = {}
    /\ \A k \in Steps : current[k] \notin available[k] \cup unavail[k]
                        /\ available[k] \cap unavail[k] = {}
    /\ \A k, l \in Steps : k # l => Owned(k) \cap Owned(l) = {}

Cut == \A k \in Steps : \A b \in Owned(k) : cell_size[b] = CellSize[k]

Lists == \A b \in AllOwned : freelist[b] = CellsOf(b, cell_size[b]) \ live

LiveOwned == \A a \in live : a[1] \in AllOwned /\ a \in CellsOf(a[1], cell_size[a[1]])

Marks == mark \subseteq live

Rooms ==
    \A k \in Steps :
        /\ \A b \in available[k] : freelist[b] # {}
        /\ current[k] = NoBlock => available[k] = {}

\* A block found full stays full until a sweep.
Fulls == \A k \in Steps : \A b \in unavail[k] : freelist[b] = {}

\* After GCOOM nothing moves any more; before it, every part holds.
IInv ==
    /\ TypeOK
    /\ Cut /\ Lists /\ LiveOwned /\ Marks
    /\ ~oom => Ownership /\ Rooms /\ Fulls
    /\ OomOnlyWhenFull

LEMMA InitInv == Init => IInv
<1> SUFFICES ASSUME Init PROVE IInv
  OBVIOUS
<1>1. TypeOK
  <2>1. data \in 1..(NumBlocks + 1) /\ 0 \in 0..Granules
    BY NumBlocksAssumption, GranulesAssumption DEF Init
  <2> QED
    BY <2>1 DEF Init, TypeOK
<1>2. \A k \in Steps : Owned(k) = {}
  BY DEF Init, Owned
<1>3. AllOwned = {}
  BY <1>2 DEF AllOwned
<1>4. Ownership
  BY <1>2, <1>3 DEF Init, Ownership
<1> QED
  BY <1>1, <1>2, <1>3, <1>4 DEF IInv, Cut, Lists, LiveOwned, Marks, Rooms, Fulls, OomOnlyWhenFull, Init

LEMMA OwnedBlocks == ASSUME TypeOK, NEW k \in Steps PROVE Owned(k) \subseteq Blocks /\ Owned(k) \subseteq AllOwned
BY DEF TypeOK, Owned, AllOwned

LEMMA AllOwnedMember == ASSUME NEW b PROVE b \in AllOwned <=> \E k \in Steps : b \in Owned(k)
BY DEF AllOwned

\* The head block hands out one of its cells.
LEMMA FromCurrentInv == ASSUME IInv, NEW k \in Steps, AllocateFromCurrent(k) PROVE IInv'
<1> USE DEF IInv, AllocateFromCurrent, HandOut
<1>1. PICK a \in freelist[current[k]] :
        freelist' = [freelist EXCEPT ![current[k]] = @ \ {a}] /\ live' = live \cup {a}
  OBVIOUS
<1> DEFINE c == current[k]
<1>2. c \in Blocks /\ c \in Owned(k) /\ c \in AllOwned
  BY OwnedBlocks DEF TypeOK, Owned
<1>3. a \in CellsOf(c, cell_size[c]) /\ a \notin live /\ a \in Addresses /\ a[1] = c
  BY <1>2, CellsInside, CellBlock DEF Lists, TypeOK
<1>4. TypeOK'
  BY <1>1, <1>2, <1>3 DEF TypeOK
<1>5. \A l \in Steps : Owned(l)' = Owned(l)
  BY DEF Owned
<1>6. AllOwned' = AllOwned
  BY <1>5 DEF AllOwned
<1>7. Cut' /\ LiveOwned' /\ Marks'
  BY <1>1, <1>2, <1>3, <1>5, <1>6 DEF Cut, LiveOwned, Marks, CellsOf
<1>8. Lists'
  <2> SUFFICES ASSUME NEW b \in AllOwned PROVE freelist'[b] = CellsOf(b, cell_size[b]) \ live'
    BY <1>6 DEF Lists, CellsOf
  <2>1. b \in Blocks /\ freelist[b] = CellsOf(b, cell_size[b]) \ live
    BY OwnedBlocks, AllOwnedMember DEF Lists
  <2>2. CASE b = c
    BY <1>1, <1>2, <2>1, <2>2 DEF TypeOK
  <2>3. CASE b # c
    <3>1. a \notin CellsOf(b, cell_size[b])
      BY <1>3, <2>3, CellBlock
    <3> QED
      BY <1>1, <1>2, <2>1, <2>3, <3>1 DEF TypeOK
  <2> QED
    BY <2>2, <2>3
<1>9. Ownership'
  BY <1>5, <1>6 DEF Ownership
<1>10. Rooms'
  <2> SUFFICES ASSUME NEW l \in Steps, NEW b \in available[l] PROVE freelist'[b] # {}
    BY DEF Rooms
  <2>1. b # c
    BY <1>2 DEF Ownership, Owned
  <2>2. b \in Blocks
    BY DEF TypeOK
  <2> QED
    BY <1>1, <2>1, <2>2 DEF Rooms, TypeOK
<1>11. Fulls' /\ OomOnlyWhenFull'
  <2> SUFFICES ASSUME NEW l \in Steps, NEW b \in unavail[l] PROVE freelist'[b] = {}
    BY DEF Fulls, OomOnlyWhenFull
  <2>1. b \in Blocks /\ freelist[b] = {}
    BY DEF Fulls, TypeOK
  <2> QED
    BY <1>1, <2>1 DEF TypeOK
<1> QED
  BY <1>4, <1>7, <1>8, <1>9, <1>10, <1>11

\* The head block is full, the next one takes over.
LEMMA FromNextInv == ASSUME IInv, NEW k \in Steps, AllocateFromNext(k) PROVE IInv'
<1> USE DEF IInv, AllocateFromNext, HandOut
<1>0. PICK c \in available[k] : \E a \in freelist[c] :
        /\ current' = [current EXCEPT ![k] = c]
        /\ available' = [available EXCEPT ![k] = @ \ {c}]
        /\ freelist' = [freelist EXCEPT ![c] = @ \ {a}]
        /\ live' = live \cup {a}
  OBVIOUS
<1>1. PICK a \in freelist[c] :
        /\ current' = [current EXCEPT ![k] = c]
        /\ available' = [available EXCEPT ![k] = @ \ {c}]
        /\ freelist' = [freelist EXCEPT ![c] = @ \ {a}]
        /\ live' = live \cup {a}
  BY <1>0
<1>2. c \in Blocks /\ c \in Owned(k) /\ c \in AllOwned
  BY OwnedBlocks DEF TypeOK, Owned
<1>3. a \in CellsOf(c, cell_size[c]) /\ a \notin live /\ a \in Addresses /\ a[1] = c
  BY <1>2, CellsInside, CellBlock DEF Lists, TypeOK
<1>4. current[k] \in Blocks /\ current[k] # NoBlock /\ c # NoBlock
  BY <1>2, NoBlockAssumption DEF Full, TypeOK, Blocks
<1>5. TypeOK'
  BY <1>1, <1>2, <1>3, <1>4 DEF TypeOK
<1>6. \A l \in Steps : Owned(l)' = Owned(l)
  <2>1. Owned(k)' = Owned(k)
    <3>1. current'[k] = c /\ available'[k] = available[k] \ {c}
          /\ unavail'[k] = unavail[k] \cup {current[k]}
      BY <1>1 DEF TypeOK
    <3> QED
      BY <3>1, <1>4 DEF Owned
  <2>2. \A l \in Steps : l # k => Owned(l)' = Owned(l)
    BY <1>1 DEF Owned, TypeOK
  <2> QED
    BY <2>1, <2>2
<1>7. AllOwned' = AllOwned
  BY <1>6 DEF AllOwned
<1>8. Cut' /\ LiveOwned' /\ Marks'
  BY <1>1, <1>2, <1>3, <1>6, <1>7 DEF Cut, LiveOwned, Marks, CellsOf
<1>9. Lists'
  <2> SUFFICES ASSUME NEW b \in AllOwned PROVE freelist'[b] = CellsOf(b, cell_size[b]) \ live'
    BY <1>7 DEF Lists, CellsOf
  <2>1. b \in Blocks /\ freelist[b] = CellsOf(b, cell_size[b]) \ live
    BY OwnedBlocks, AllOwnedMember DEF Lists
  <2>2. CASE b = c
    BY <1>1, <1>2, <2>1, <2>2 DEF TypeOK
  <2>3. CASE b # c
    <3>1. a \notin CellsOf(b, cell_size[b])
      BY <1>3, <2>3, CellBlock
    <3> QED
      BY <1>1, <1>2, <2>1, <2>3, <3>1 DEF TypeOK
  <2> QED
    BY <2>2, <2>3
<1>10. Ownership'
  <2>1. \A l \in Steps : current'[l] \notin available'[l] \cup unavail'[l]
                         /\ available'[l] \cap unavail'[l] = {}
    BY <1>1, <1>4 DEF Ownership, TypeOK, Full
  <2> QED
    BY <1>6, <1>7, <2>1 DEF Ownership
<1>11. Rooms'
  <2> SUFFICES ASSUME NEW l \in Steps
               PROVE  /\ \A b \in available'[l] : freelist'[b] # {}
                      /\ current'[l] = NoBlock => available'[l] = {}
    BY DEF Rooms
  <2>1. available'[l] \subseteq available[l] /\ c \notin available'[l]
    <3>1. CASE l = k
      BY <1>1, <3>1 DEF TypeOK
    <3>2. CASE l # k
      BY <1>1, <1>2, <3>2 DEF TypeOK, Ownership, Owned
    <3> QED
      BY <3>1, <3>2
  <2>2. \A b \in available'[l] : freelist'[b] # {}
    BY <1>1, <2>1 DEF Rooms, TypeOK
  <2>3. current'[l] = NoBlock => available'[l] = {}
    BY <1>1, <1>4 DEF Rooms, TypeOK
  <2> QED
    BY <2>2, <2>3
<1>12. Fulls' /\ OomOnlyWhenFull'
  <2> SUFFICES ASSUME NEW l \in Steps, NEW b \in unavail'[l] PROVE freelist'[b] = {}
    BY DEF Fulls, OomOnlyWhenFull
  <2>1. b \in unavail[l] \/ b = current[k]
    BY <1>1 DEF TypeOK
  <2>2. b \in Blocks /\ freelist[b] = {}
    BY <2>1, <1>4 DEF Fulls, Full, TypeOK
  <2> QED
    BY <1>1, <2>2 DEF TypeOK
<1> QED
  BY <1>5, <1>8, <1>9, <1>10, <1>11, <1>12

\* A block the block allocator hands out belongs to nobody and holds no live
\* cell, whatever it was cut into before.
LEMMA GotBlock ==
    ASSUME IInv, ~oom, NEW b \in Blocks, GetBlock(b)
    PROVE  /\ b \notin AllOwned
           /\ \A a \in live : a[1] # b
           /\ data' \in 1..(NumBlocks + 1)
           /\ free_blocks' \subseteq Blocks
           /\ free_blocks' \cup AllOwned \cup {b} = 1..(data' - 1)
           /\ free_blocks' \cap (AllOwned \cup {b}) = {}
<1> USE NumBlocksAssumption DEF IInv, Ownership, TypeOK, Blocks
<1>1. CASE b \in free_blocks /\ free_blocks' = free_blocks \ {b} /\ UNCHANGED data
  BY <1>1 DEF LiveOwned
<1>2. CASE free_blocks = {} /\ b = data /\ data <= NumBlocks /\ data' = data + 1 /\ UNCHANGED free_blocks
  <2>1. AllOwned = 1..(data - 1)
    BY <1>2
  <2>2. b \notin AllOwned /\ AllOwned \cup {b} = 1..(data' - 1)
    BY <1>2, <2>1
  <2>3. \A a \in live : a[1] # b
    BY <2>2 DEF LiveOwned
  <2> QED
    BY <1>2, <2>2, <2>3
<1> QED
  BY <1>1, <1>2 DEF GetBlock

LEMMA FromNewBlockInv == ASSUME IInv, NEW k \in Steps, AllocateFromNewBlock(k) PROVE IInv'
<1> USE DEF IInv, AllocateFromNewBlock, HandOut
<1>0. CellSize[k] \in 1..Granules /\ CellSize[k] \in 0..Granules
  BY CellSizeAssumption, GranulesAssumption
<1>c. PICK c \in Blocks : \E a \in CellsOf(c, CellSize[k]) :
        /\ GetBlock(c)
        /\ cell_size' = [cell_size EXCEPT ![c] = CellSize[k]]
        /\ freelist' = [freelist EXCEPT ![c] = CellsOf(c, CellSize[k]) \ {a}]
        /\ current' = [current EXCEPT ![k] = c]
        /\ live' = live \cup {a}
  OBVIOUS
<1>1. PICK a \in CellsOf(c, CellSize[k]) :
        /\ GetBlock(c)
        /\ cell_size' = [cell_size EXCEPT ![c] = CellSize[k]]
        /\ freelist' = [freelist EXCEPT ![c] = CellsOf(c, CellSize[k]) \ {a}]
        /\ current' = [current EXCEPT ![k] = c]
        /\ live' = live \cup {a}
  BY <1>c
<1>2. a \in Addresses /\ a[1] = c /\ CellsOf(c, CellSize[k]) \subseteq Addresses
  BY <1>0, <1>1, CellsInside, CellBlock
<1>3. /\ c \notin AllOwned
      /\ \A x \in live : x[1] # c
      /\ data' \in 1..(NumBlocks + 1)
      /\ free_blocks' \subseteq Blocks
      /\ free_blocks' \cup AllOwned \cup {c} = 1..(data' - 1)
      /\ free_blocks' \cap (AllOwned \cup {c}) = {}
  BY <1>1, GotBlock
<1>4. c # NoBlock
  BY NoBlockAssumption DEF Blocks
<1>5. TypeOK'
  <2>1. oom' \in BOOLEAN
    BY DEF TypeOK
  <2> QED
    BY <1>0, <1>1, <1>2, <1>3, <2>1 DEF TypeOK
<1>6. Owned(k)' = Owned(k) \cup {c} /\ \A l \in Steps : l # k => Owned(l)' = Owned(l)
  <2>1. Owned(k)' = Owned(k) \cup {c}
    BY <1>1, <1>4 DEF Owned, TypeOK
  <2>2. \A l \in Steps : l # k => Owned(l)' = Owned(l)
    BY <1>1 DEF Owned, TypeOK
  <2> QED
    BY <2>1, <2>2
<1>7. AllOwned' = AllOwned \cup {c}
  BY <1>6 DEF AllOwned
<1>8. \A b \in AllOwned : b \in Blocks /\ b # c /\ cell_size'[b] = cell_size[b] /\ freelist'[b] = freelist[b]
  BY <1>1, <1>3, OwnedBlocks, AllOwnedMember DEF TypeOK
<1>9. cell_size'[c] = CellSize[k] /\ freelist'[c] = CellsOf(c, CellSize[k]) \ {a}
  BY <1>1 DEF TypeOK
<1>10. Cut'
  <2> SUFFICES ASSUME NEW l \in Steps, NEW b \in Owned(l)' PROVE cell_size'[b] = CellSize[l]
    BY DEF Cut
  <2>1. CASE b = c
    <3>1. l = k
      BY <2>1, <1>3, <1>6, AllOwnedMember
    <3> QED
      BY <2>1, <3>1, <1>9
  <2>2. CASE b # c
    BY <2>2, <1>6, <1>8, AllOwnedMember DEF Cut
  <2> QED
    BY <2>1, <2>2
<1>11. Marks'
  BY <1>1 DEF Marks
<1>12. LiveOwned'
  <2> SUFFICES ASSUME NEW x \in live'
               PROVE  x[1] \in AllOwned' /\ x \in CellsOf(x[1], cell_size'[x[1]])
    BY DEF LiveOwned, CellsOf
  <2>1. CASE x = a
    BY <2>1, <1>1, <1>2, <1>7, <1>9
  <2>2. CASE x \in live
    BY <2>2, <1>7, <1>8 DEF LiveOwned
  <2> QED
    BY <2>1, <2>2, <1>1
<1>13. Lists'
  <2> SUFFICES ASSUME NEW b \in AllOwned' PROVE freelist'[b] = CellsOf(b, cell_size'[b]) \ live'
    BY DEF Lists, CellsOf
  <2>1. CASE b = c
    <3>1. \A x \in CellsOf(c, CellSize[k]) : x \notin live
      BY <1>3, CellBlock
    <3> QED
      BY <2>1, <3>1, <1>1, <1>9
  <2>2. CASE b # c
    <3>1. b \in AllOwned /\ a \notin CellsOf(b, cell_size[b])
      BY <2>2, <1>2, <1>7, CellBlock
    <3> QED
      BY <3>1, <1>1, <1>8 DEF Lists
  <2> QED
    BY <2>1, <2>2
<1>14. Ownership'
  <2>1. \A l \in Steps : current'[l] \notin available'[l] \cup unavail'[l]
                         /\ available'[l] \cap unavail'[l] = {}
    <3> SUFFICES ASSUME NEW l \in Steps
                 PROVE  current'[l] \notin available'[l] \cup unavail'[l]
                        /\ available'[l] \cap unavail'[l] = {}
      OBVIOUS
    <3>1. CASE l # k
      BY <3>1, <1>1 DEF Ownership, TypeOK
    <3>2. CASE l = k
      <4>1. available[k] = {}
        BY DEF Rooms
      <4>2. c \notin unavail[k] /\ c # current[k]
        BY <1>3, <1>4, AllOwnedMember DEF Owned
      <4> QED
        BY <3>2, <4>1, <4>2, <1>1 DEF TypeOK
    <3> QED
      BY <3>1, <3>2
  <2>2. \A l, m \in Steps : l # m => Owned(l)' \cap Owned(m)' = {}
    BY <1>3, <1>6, AllOwnedMember DEF Ownership
  <2> QED
    BY <1>3, <1>7, <2>1, <2>2 DEF Ownership
<1>15. Rooms'
  <2> SUFFICES ASSUME NEW l \in Steps
               PROVE  /\ \A b \in available[l] : freelist'[b] # {}
                      /\ current'[l] = NoBlock => available[l] = {}
    BY DEF Rooms
  <2>1. \A b \in available[l] : freelist'[b] # {}
    BY <1>8, AllOwnedMember DEF Rooms, Owned
  <2>2. current'[l] = NoBlock => available[l] = {}
    BY <1>1, <1>4 DEF Rooms, TypeOK
  <2> QED
    BY <2>1, <2>2
<1>16. Fulls' /\ OomOnlyWhenFull'
  <2> SUFFICES ASSUME NEW l \in Steps, NEW b \in unavail'[l] PROVE freelist'[b] = {}
    BY DEF Fulls, OomOnlyWhenFull
  <2>1. b \in unavail[l] \/ (l = k /\ Full(k) /\ b = current[k])
    BY <1>1 DEF TypeOK
  <2>2. freelist[b] = {} /\ b \in Owned(l)
    BY <2>1 DEF Fulls, Full, Owned
  <2> QED
    BY <1>8, <2>2, AllOwnedMember
<1> QED
  BY <1>5, <1>10, <1>11, <1>12, <1>13, <1>14, <1>15, <1>16

\* The panic leaves the full head block in unavail as well.
LEMMA OutOfMemoryInv == ASSUME IInv, NEW k \in Steps, OutOfMemory(k) PROVE IInv'
<1> USE DEF IInv, OutOfMemory
<1>1. TypeOK'
  BY DEF TypeOK
<1>2. \A l \in Steps : Owned(l)' = Owned(l)
  BY DEF Owned, TypeOK
<1>3. AllOwned' = AllOwned
  BY <1>2 DEF AllOwned
<1>4. Cut' /\ Lists' /\ LiveOwned' /\ Marks'
  BY <1>2, <1>3 DEF Cut, Lists, LiveOwned, Marks, CellsOf
<1>5. OomOnlyWhenFull'
  <2>1. free_blocks' = {} /\ data' > NumBlocks
    BY DEF NoBlockLeft
  <2>2. \A b \in Owned(k) : freelist[b] = {}
    <3>1. available[k] = {}
      BY DEF Rooms
    <3> QED
      BY <3>1 DEF Owned, Fulls, Full
  <2> QED
    BY <1>2, <2>1, <2>2 DEF OomOnlyWhenFull
<1> QED
  BY <1>1, <1>4, <1>5

LEMMA MarkCellInv == ASSUME IInv, NEW a \in live, MarkCell(a) PROVE IInv'
<1> USE DEF IInv, MarkCell
<1>1. TypeOK'
  BY DEF TypeOK
<1>2. \A l \in Steps : Owned(l)' = Owned(l)
  BY DEF Owned
<1>3. AllOwned' = AllOwned
  BY <1>2 DEF AllOwned
<1>4. Cut' /\ Lists' /\ LiveOwned' /\ Marks'
  BY <1>2, <1>3 DEF Cut, Lists, LiveOwned, Marks, CellsOf
<1>5. Ownership' /\ Rooms' /\ Fulls' /\ OomOnlyWhenFull'
  BY <1>2, <1>3 DEF Ownership, Rooms, Fulls, OomOnlyWhenFull
<1> QED
  BY <1>1, <1>4, <1>5

\* What a sweep does to the bitmaps: the cells of owned blocks are all the live
\* ones, so exactly the marked cells stay and no mark is left.
LEMMA SweepBits ==
    ASSUME IInv, Sweep
    PROVE  live' = live \cap mark /\ mark' = {}
<1> DEFINE cells == UNION {CellsOf(b, cell_size[b]) : b \in AllOwned}
<1>1. live \subseteq cells /\ mark \subseteq live
  BY DEF IInv, LiveOwned, Marks
<1>2. live' = live \ {a \in cells : a \notin mark} /\ mark' = mark \ {a \in cells : a \in live}
  BY DEF Sweep
<1> QED
  BY <1>1, <1>2

Usable(k) == {b \in Owned(k) : ~IsFull(b) /\ ~FullyFree(b)}

\* What a sweep does to the lists of a LocalAllocator.
LEMMA SweepLists ==
    ASSUME IInv, Sweep, NEW k \in Steps
    PROVE  /\ unavail'[k] = {b \in Owned(k) : IsFull(b)}
           /\ current'[k] \in Blocks \cup {NoBlock}
           /\ available'[k] = Usable(k) \ {current'[k]}
           /\ Usable(k) = {} => current'[k] = NoBlock
           /\ Usable(k) # {} => current'[k] \in Usable(k)
           /\ Owned(k)' = {b \in Owned(k) : ~FullyFree(b)}
<1>1. PICK head \in [Steps -> Blocks \cup {NoBlock}] :
        /\ \A l \in Steps : IF Usable(l) = {} THEN head[l] = NoBlock ELSE head[l] \in Usable(l)
        /\ current' = head
        /\ available' = [l \in Steps |-> Usable(l) \ {head[l]}]
  BY DEF Sweep, Usable
<1>2. unavail'[k] = {b \in Owned(k) : IsFull(b)}
  BY DEF Sweep
<1>3. /\ current'[k] \in Blocks \cup {NoBlock}
      /\ available'[k] = Usable(k) \ {current'[k]}
      /\ Usable(k) = {} => current'[k] = NoBlock
      /\ Usable(k) # {} => current'[k] \in Usable(k)
  BY <1>1
<1>4. NoBlock \notin Usable(k)
  BY OwnedBlocks, NoBlockAssumption DEF IInv, Usable, Blocks
<1>5. ({current'[k]} \ {NoBlock}) \cup available'[k] = Usable(k)
  BY <1>3, <1>4
<1>6. Owned(k)' = Usable(k) \cup {b \in Owned(k) : IsFull(b)}
  BY <1>2, <1>5 DEF Owned
<1>7. \A b \in Owned(k) : IsFull(b) => ~FullyFree(b)
  BY DEF FullyFree
<1>8. Owned(k)' = {b \in Owned(k) : ~FullyFree(b)}
  BY <1>6, <1>7 DEF Usable
<1> QED
  BY <1>2, <1>3, <1>8

LEMMA SweepInv == ASSUME IInv, Sweep PROVE IInv'
<1> USE DEF IInv
<1>1. live' = live \cap mark /\ mark' = {}
  BY SweepBits
<1>2. \A k \in Steps : Owned(k)' = {b \in Owned(k) : ~FullyFree(b)}
  BY SweepLists
<1>3. AllOwned' = {b \in AllOwned : ~FullyFree(b)}
  BY <1>2 DEF AllOwned
<1>4. ~oom /\ UNCHANGED <<data, cell_size, oom>>
      /\ free_blocks' = free_blocks \cup {b \in AllOwned : FullyFree(b)}
  BY DEF Sweep
<1>5. \A b \in AllOwned : b \in Blocks /\ freelist'[b] = SweptFreelist(b) /\ SweptFreelist(b) \subseteq Addresses
  <2>1. \A b \in AllOwned : b \in Blocks
    BY OwnedBlocks, AllOwnedMember
  <2>2. \A b \in AllOwned : freelist'[b] = SweptFreelist(b)
    BY <2>1 DEF Sweep
  <2>3. \A b \in AllOwned : SweptFreelist(b) \subseteq Addresses
    BY <2>1, CellsInside DEF SweptFreelist, TypeOK
  <2> QED
    BY <2>1, <2>2, <2>3
<1>6. TypeOK'
  <2>1. /\ current' \in [Steps -> Blocks \cup {NoBlock}]
        /\ unavail' \in [Steps -> SUBSET Blocks]
        /\ available' \in [Steps -> SUBSET Blocks]
    <3>1. \A k \in Steps : Owned(k) \subseteq Blocks
      BY OwnedBlocks
    <3> QED
      BY <3>1 DEF Sweep
  <2>2. freelist' \in [Blocks -> SUBSET Addresses]
    BY <1>5 DEF Sweep, TypeOK
  <2>3. free_blocks' \in SUBSET Blocks /\ live' \in SUBSET Addresses /\ mark' \in SUBSET Addresses
    BY <1>1, <1>4, <1>5 DEF TypeOK
  <2>4. oom' \in BOOLEAN
    BY <1>4 DEF TypeOK
  <2>5. data' \in 1..(NumBlocks + 1) /\ cell_size' \in [Blocks -> 0..Granules]
    BY <1>4 DEF TypeOK
  <2> QED
    BY <2>1, <2>2, <2>3, <2>4, <2>5 DEF TypeOK
<1>7. Cut' /\ Marks'
  BY <1>1, <1>2, <1>4 DEF Cut, Marks
<1>8. Lists'
  BY <1>1, <1>3, <1>4, <1>5 DEF Lists, SweptFreelist, CellsOf
<1>9. LiveOwned'
  <2> SUFFICES ASSUME NEW a \in live, a \in mark
               PROVE  a[1] \in AllOwned' /\ a \in CellsOf(a[1], cell_size[a[1]])
    BY <1>1, <1>4 DEF LiveOwned, CellsOf
  <2>1. a[1] \in AllOwned /\ a \in CellsOf(a[1], cell_size[a[1]])
    BY DEF LiveOwned
  <2>2. ~FullyFree(a[1])
    BY <2>1 DEF FullyFree, Survivors
  <2> QED
    BY <2>1, <2>2, <1>3
<1>10. Ownership'
  <2>1. free_blocks' \cup AllOwned' = 1..(data' - 1)
    BY <1>3, <1>4 DEF Ownership
  <2>2. free_blocks' \cap AllOwned' = {}
    BY <1>3, <1>4 DEF Ownership
  <2>3. ASSUME NEW k \in Steps
        PROVE  current'[k] \notin available'[k] \cup unavail'[k] /\ available'[k] \cap unavail'[k] = {}
    <3>1. /\ unavail'[k] = {b \in Owned(k) : IsFull(b)}
          /\ available'[k] = Usable(k) \ {current'[k]}
          /\ Usable(k) = {} => current'[k] = NoBlock
          /\ Usable(k) # {} => current'[k] \in Usable(k)
      BY SweepLists
    <3>2. NoBlock \notin Owned(k)
      BY OwnedBlocks, NoBlockAssumption DEF Blocks
    <3> QED
      BY <3>1, <3>2 DEF Usable
  <2>4. \A k, l \in Steps : k # l => Owned(k)' \cap Owned(l)' = {}
    BY <1>2, <1>4 DEF Ownership
  <2> QED
    BY <2>1, <2>2, <2>3, <2>4 DEF Ownership
<1>11. Rooms'
  <2> SUFFICES ASSUME NEW k \in Steps
               PROVE  /\ \A b \in available'[k] : freelist'[b] # {}
                      /\ current'[k] = NoBlock => available'[k] = {}
    BY DEF Rooms
  <2>1. /\ available'[k] = Usable(k) \ {current'[k]}
        /\ Usable(k) # {} => current'[k] \in Usable(k)
    BY SweepLists
  <2>2. Usable(k) \subseteq Blocks /\ Usable(k) \subseteq AllOwned
    BY OwnedBlocks DEF Usable
  <2>3. \A b \in available'[k] : freelist'[b] # {}
    BY <1>5, <2>1, <2>2 DEF Usable, IsFull
  <2>4. current'[k] = NoBlock => available'[k] = {}
    BY <2>1, <2>2, NoBlockAssumption DEF Blocks
  <2> QED
    BY <2>3, <2>4
<1>12. Fulls' /\ OomOnlyWhenFull'
  <2> SUFFICES ASSUME NEW k \in Steps, NEW b \in unavail'[k] PROVE freelist'[b] = {}
    BY <1>4 DEF Fulls, OomOnlyWhenFull
  <2>1. b \in Owned(k) /\ IsFull(b)
    BY SweepLists
  <2> QED
    BY <1>5, <2>1, AllOwnedMember DEF IsFull
<1> QED
  BY <1>6, <1>7, <1>8, <1>9, <1>10, <1>11, <1>12

LEMMA StepInv == IInv /\ [Next]_vars => IInv'
<1> SUFFICES ASSUME IInv, [Next]_vars PROVE IInv'
  OBVIOUS
<1>1. CASE UNCHANGED vars
  BY <1>1 DEF vars, IInv, TypeOK, Cut, Lists, LiveOwned, Marks, Ownership, Rooms, Fulls,
              OomOnlyWhenFull, Owned, AllOwned, CellsOf
<1> QED
  BY <1>1, FromCurrentInv, FromNextInv, FromNewBlockInv, OutOfMemoryInv, MarkCellInv, SweepInv
     DEF Next, Panicked

-----------------------------------------------------------------------------
\* Type correctness: no cell outside its block, no block outside the region.
THEOREM TypeCorrect == Spec => []TypeOK
<1>1. IInv => TypeOK
  BY DEF IInv
<1> QED
  BY <1>1, InitInv, StepInv, PTL DEF Spec

\* Every block has one owner, for any number of blocks and size steps.
THEOREM BlocksOwnedOnceHolds == Spec => []BlocksOwnedOnce
<1>1. IInv => BlocksOwnedOnce
  BY DEF IInv, BlocksOwnedOnce, Ownership
<1> QED
  BY <1>1, InitInv, StepInv, PTL DEF Spec

\* Free lists and live bits partition the cells of owned blocks: no cell is
\* handed out twice and none is lost.
THEOREM FreelistComplementHolds == Spec => []FreelistComplement
<1>1. IInv => FreelistComplement
  <2> SUFFICES ASSUME IInv PROVE FreelistComplement
    OBVIOUS
  <2>1. \A k \in Steps : \A b \in Owned(k) :
          cell_size[b] = CellSize[k] /\ freelist[b] = CellsOf(b, cell_size[b]) \ live
    BY AllOwnedMember DEF IInv, Cut, Lists
  <2>2. live \subseteq UNION {CellsOf(b, cell_size[b]) : b \in AllOwned}
    BY DEF IInv, LiveOwned
  <2> QED
    BY <2>1, <2>2 DEF FreelistComplement, IInv, Marks
<1> QED
  BY <1>1, InitInv, StepInv, PTL DEF Spec

\* LocalAllocator::allocate never hands out null.
THEOREM NextBlockHasRoomHolds == Spec => []NextBlockHasRoom
<1>1. IInv => NextBlockHasRoom
  BY DEF IInv, NextBlockHasRoom, Rooms
<1> QED
  BY <1>1, InitInv, StepInv, PTL DEF Spec

\* GCOOM is raised only when no block is left and the size step that asked has
\* no free cell: a block in unavail is full and a head block without a
\* successor was found so.
THEOREM OomOnlyWhenFullHolds == Spec => []OomOnlyWhenFull
<1>1. IInv => OomOnlyWhenFull
  BY DEF IInv
<1> QED
  BY <1>1, InitInv, StepInv, PTL DEF Spec

-----------------------------------------------------------------------------
(***************************************************************************)
(* Sums over finite sets.  MapThenSumSet chooses a function that satisfies *)
(* the recursion of a fold; that one exists, and what it returns, follows  *)
(* from counting the granules of the cells.                                *)
(***************************************************************************)
\* Induction over the subsets of a finite set.
LEMMA SubsetInduction ==
    ASSUME NEW S, IsFiniteSet(S), NEW G, {} \in G,
           \A s \in SUBSET S : s # {} => \E x \in s : (s \ {x}) \in G => s \in G
    PROVE  S \in G
<1> DEFINE Bad == {s \in SUBSET S : s \notin G}
<1> SUFFICES ASSUME Bad # {} PROVE FALSE
  OBVIOUS
<1>1. IsWellFoundedOn(StrictSubsetOrdering(S), FiniteSubsetsOf(S)) /\ FiniteSubsetsOf(S) = SUBSET S
  BY FS_StrictSubsetOrderingWellFounded, FS_FiniteSubsetsOfFinite
<1>2. \E s \in Bad : \A t \in Bad : ~ (<<t, s>> \in StrictSubsetOrdering(S))
  <2>1. Bad \subseteq SUBSET S /\ IsWellFoundedOn(StrictSubsetOrdering(S), SUBSET S)
    BY <1>1
  <2> HIDE DEF Bad
  <2> QED
    BY <2>1, WFMin
<1>3. PICK s \in Bad : \A t \in Bad : ~ (<<t, s>> \in StrictSubsetOrdering(S))
  BY <1>2
<1>4. PICK x \in s : (s \ {x}) \in G => s \in G
  BY <1>3
<1>5. s \ {x} \in Bad
  BY <1>3, <1>4
<1>6. <<s \ {x}, s>> \in StrictSubsetOrdering(S)
  BY <1>4, <1>5 DEF StrictSubsetOrdering
<1> QED
  BY <1>3, <1>5, <1>6

First(s) == CHOOSE x \in s : TRUE

\* it adds the sizes of the sets D[x], in the order a fold takes the elements.
AddsUp(it, D, S) ==
    it = [s \in SUBSET S |-> IF s = {} THEN 0
                             ELSE Cardinality(D[First(s)]) + it[s \ {First(s)}]]

Members(D, s) == UNION {D[x] : x \in s}

LEMMA MembersFinite ==
    ASSUME NEW S, NEW D, \A x \in S : IsFiniteSet(D[x]), IsFiniteSet(S)
    PROVE  \A t \in SUBSET S : IsFiniteSet(Members(D, t))
<1> SUFFICES ASSUME NEW t \in SUBSET S PROVE IsFiniteSet(Members(D, t))
  OBVIOUS
<1>1. IsFiniteSet(t)
  BY FS_Subset
<1>2. [y \in t |-> D[y]] \in Surjection(t, {D[y] : y \in t})
  BY DEF Surjection
<1>3. IsFiniteSet({D[y] : y \in t})
  BY <1>1, <1>2, FS_Surjection
<1> QED
  BY <1>3, FS_UNION DEF Members

LEMMA MembersSplit ==
    ASSUME NEW S, NEW D, \A x \in S : IsFiniteSet(D[x]), IsFiniteSet(S),
           \A x, y \in S : x # y => D[x] \cap D[y] = {},
           NEW s \in SUBSET S, NEW x \in s
    PROVE  /\ IsFiniteSet(Members(D, s))
           /\ Cardinality(Members(D, s)) = Cardinality(D[x]) + Cardinality(Members(D, s \ {x}))
           /\ Cardinality(Members(D, s)) \in Nat
<1>1. \A t \in SUBSET S : IsFiniteSet(Members(D, t))
  BY MembersFinite
<1>2. Members(D, s) = D[x] \cup Members(D, s \ {x}) /\ D[x] \cap Members(D, s \ {x}) = {}
  BY DEF Members
<1> DEFINE rest == Members(D, s \ {x})
<1>3. IsFiniteSet(D[x]) /\ IsFiniteSet(rest) /\ IsFiniteSet(Members(D, s))
  BY <1>1
<1>4. D[x] \cap rest = {} /\ Members(D, s) = D[x] \cup rest
  BY <1>2
<1> HIDE DEF rest
<1>5. Cardinality(D[x] \cup rest) = Cardinality(D[x]) + Cardinality(rest) - Cardinality(D[x] \cap rest)
  BY <1>3, FS_Union
<1>6. Cardinality({}) = 0 /\ Cardinality(D[x]) \in Nat /\ Cardinality(rest) \in Nat
  BY <1>3, FS_EmptySet, FS_CardinalityType
<1>7. /\ Cardinality(Members(D, s)) = Cardinality(D[x]) + Cardinality(rest)
      /\ Cardinality(Members(D, s)) \in Nat
  <2>1. Cardinality(Members(D, s)) = Cardinality(D[x] \cup rest) /\ Cardinality(D[x] \cap rest) = 0
    BY <1>4, <1>6
  <2> QED
    BY <2>1, <1>5, <1>6
<1> QED
  BY <1>3, <1>7 DEF rest

LEMMA AddsUpExists ==
    ASSUME NEW S, NEW D, \A x \in S : IsFiniteSet(D[x]), IsFiniteSet(S),
           \A x, y \in S : x # y => D[x] \cap D[y] = {}
    PROVE  AddsUp([s \in SUBSET S |-> Cardinality(Members(D, s))], D, S)
<1> DEFINE it == [s \in SUBSET S |-> Cardinality(Members(D, s))]
<1>1. ASSUME NEW s \in SUBSET S, s # {}
      PROVE  it[s] = Cardinality(D[First(s)]) + it[s \ {First(s)}]
  <2>1. First(s) \in s /\ s \ {First(s)} \in SUBSET S
    BY <1>1 DEF First
  <2> QED
    BY <2>1, MembersSplit
<1>2. it[{}] = 0
  BY FS_EmptySet DEF Members
<1> QED
  BY <1>1, <1>2 DEF AddsUp

LEMMA AddsUpUnique ==
    ASSUME NEW S, NEW D, \A x \in S : IsFiniteSet(D[x]), IsFiniteSet(S),
           \A x, y \in S : x # y => D[x] \cap D[y] = {},
           NEW it, AddsUp(it, D, S)
    PROVE  it[S] = Cardinality(Members(D, S))
<1> DEFINE G == {s \in SUBSET S : it[s] = Cardinality(Members(D, s))}
<1>1. {} \in G
  <2>1. Members(D, {}) = {}
    BY DEF Members
  <2>2. it[{}] = 0
    BY DEF AddsUp
  <2> QED
    BY <2>1, <2>2, FS_EmptySet
<1>2. ASSUME NEW s \in SUBSET S, s # {}
      PROVE  \E x \in s : (s \ {x}) \in G => s \in G
  <2>1. First(s) \in s
    BY <1>2 DEF First
  <2>2. it[s] = Cardinality(D[First(s)]) + it[s \ {First(s)}]
    BY <1>2 DEF AddsUp
  <2>3. Cardinality(Members(D, s)) = Cardinality(D[First(s)]) + Cardinality(Members(D, s \ {First(s)}))
    BY <2>1, MembersSplit
  <2> QED
    BY <2>1, <2>2, <2>3
<1>3. S \in G
  <2> HIDE DEF G
  <2> QED
    BY <1>1, <1>2, SubsetInduction
<1> QED
  BY <1>3

\* The sizes of the cells L of blocks cut as cs says, added up, and the
\* granules they take.
Total(L, cs) == MapThenSumSet(LAMBDA a : cs[a[1]], L)

Extents(L, cs) == [a \in L |-> {a} \X (1..cs[a[1]])]

Taken(L, cs) == Members(Extents(L, cs), L)

LEMMA CellGranules ==
    ASSUME NEW a, NEW n \in Nat
    PROVE  IsFiniteSet({a} \X (1..n)) /\ Cardinality({a} \X (1..n)) = n
<1>1. IsFiniteSet({a}) /\ Cardinality({a}) = 1
  BY FS_Singleton
<1>2. IsFiniteSet(1..n) /\ Cardinality(1..n) = n
  BY FS_Interval
<1>3. /\ IsFiniteSet({a} \X (1..n))
      /\ Cardinality({a} \X (1..n)) = Cardinality({a}) * Cardinality(1..n)
  <2>1. IsFiniteSet({a}) /\ IsFiniteSet(1..n)
    BY <1>1, <1>2
  <2> QED
    BY ONLY <2>1, FS_Product, Zenon
<1>4. Cardinality({a}) * Cardinality(1..n) = 1 * n
  BY <1>1, <1>2, Zenon
<1>5. 1 * n = n
  OBVIOUS
<1> QED
  BY <1>3, <1>4, <1>5, Zenon

LEMMA ExtentSizes ==
    ASSUME NEW L, NEW cs, \A a \in L : cs[a[1]] \in Nat
    PROVE  /\ \A a \in L : IsFiniteSet(Extents(L, cs)[a]) /\ Cardinality(Extents(L, cs)[a]) = cs[a[1]]
           /\ \A a, b \in L : a # b => Extents(L, cs)[a] \cap Extents(L, cs)[b] = {}
<1>1. ASSUME NEW a \in L
      PROVE  IsFiniteSet(Extents(L, cs)[a]) /\ Cardinality(Extents(L, cs)[a]) = cs[a[1]]
  <2>1. PICK n \in Nat : n = cs[a[1]]
    OBVIOUS
  <2>2. Extents(L, cs)[a] = {a} \X (1..n)
    BY <2>1 DEF Extents
  <2>3. IsFiniteSet({a} \X (1..n)) /\ Cardinality({a} \X (1..n)) = n
    BY CellGranules
  <2> QED
    BY <2>1, <2>2, <2>3
<1>2. \A a, b \in L : a # b => Extents(L, cs)[a] \cap Extents(L, cs)[b] = {}
  BY DEF Extents
<1> QED
  BY <1>1, <1>2

\* The sum that Heap::allocated is compared with is a number of granules.
LEMMA TotalIsTaken ==
    ASSUME NEW L, IsFiniteSet(L), NEW cs, \A a \in L : cs[a[1]] \in Nat
    PROVE  Total(L, cs) = Cardinality(Taken(L, cs)) /\ IsFiniteSet(Taken(L, cs))
<1> DEFINE D == Extents(L, cs)
           Q(it) == it = [s \in SUBSET L |-> IF s = {} THEN 0
                        ELSE cs[(CHOOSE x \in s : TRUE)[1]] + it[s \ {CHOOSE x \in s : TRUE}]]
<1>1. /\ \A a \in L : IsFiniteSet(D[a]) /\ Cardinality(D[a]) = cs[a[1]]
      /\ \A a, b \in L : a # b => D[a] \cap D[b] = {}
  BY ExtentSizes
<1>2. \A it : Q(it) <=> AddsUp(it, D, L)
  <2>1. \A s \in SUBSET L : s # {} => cs[First(s)[1]] = Cardinality(D[First(s)])
    BY <1>1 DEF First
  <2> QED
    BY <2>1 DEF AddsUp, First
<1>3. Total(L, cs) = (CHOOSE it : Q(it))[L]
  BY DEF Total, MapThenSumSet, MapThenFoldSet
<1>4. \E it : Q(it)
  BY <1>1, <1>2, AddsUpExists
<1>5. AddsUp(CHOOSE it : Q(it), D, L)
  BY <1>2, <1>4
<1>6. Total(L, cs) = Cardinality(Members(D, L))
  BY <1>1, <1>3, <1>5, AddsUpUnique
<1>7. IsFiniteSet(Members(D, L))
  <2> HIDE DEF D
  <2> QED
    BY <1>1, MembersFinite
<1> QED
  BY <1>6, <1>7 DEF Taken

SameCut(L, cs, ds) == \A x \in L : cs[x[1]] = ds[x[1]]

NatCut(L, cs) == \A x \in L : cs[x[1]] \in Nat

\* One more cell.
LEMMA TotalGrows ==
    ASSUME NEW L, NEW a, NEW M, NEW cs, NEW ds, NEW n,
           IsFiniteSet(L), a \notin L, M = L \cup {a},
           SameCut(L, cs, ds), NatCut(M, ds), n = ds[a[1]]
    PROVE  Total(M, ds) = Total(L, cs) + n
<1>1. PICK N : N = M
  OBVIOUS
<1>2. IsFiniteSet(N) /\ a \in N /\ \A x \in N : ds[x[1]] \in Nat
  BY <1>1, FS_AddElement DEF NatCut
<1>3. Total(N, ds) = Cardinality(Taken(N, ds))
  BY <1>2, TotalIsTaken
<1>4. PICK D : D = Extents(N, ds)
  OBVIOUS
<1>5. /\ \A x \in N : IsFiniteSet(D[x]) /\ Cardinality(D[x]) = ds[x[1]]
      /\ \A x, y \in N : x # y => D[x] \cap D[y] = {}
  BY <1>2, <1>4, ExtentSizes
<1>6. Cardinality(Members(D, N)) = Cardinality(D[a]) + Cardinality(Members(D, N \ {a}))
  <2>1. N \in SUBSET N
    OBVIOUS
  <2> QED
    BY <1>2, <1>5, <2>1, MembersSplit
<1>7. Members(D, N \ {a}) = Taken(L, cs)
  <2>1. N \ {a} = L
    BY <1>1
  <2>2. \A x \in L : D[x] = Extents(L, cs)[x]
    <3>1. \A x \in L : x \in N /\ ds[x[1]] = cs[x[1]]
      BY <1>1 DEF SameCut
    <3>2. \A x \in L : D[x] = {x} \X (1..ds[x[1]]) /\ Extents(L, cs)[x] = {x} \X (1..cs[x[1]])
      BY ONLY <1>4, <3>1 DEF Extents
    <3> QED
      BY ONLY <3>1, <3>2, Zenon
  <2>3. Members(D, L) = Members(Extents(L, cs), L)
    BY ONLY <2>2, Zenon DEF Members
  <2> QED
    BY ONLY <2>1, <2>3, Zenon DEF Taken
<1>8. Total(L, cs) = Cardinality(Taken(L, cs)) /\ IsFiniteSet(Taken(L, cs))
  BY <1>1, <1>2, TotalIsTaken DEF SameCut
<1>9. Cardinality(Taken(L, cs)) \in Nat /\ ds[a[1]] \in Nat
  BY <1>2, <1>8, FS_CardinalityType
<1>10. Total(N, ds) = Cardinality(Members(D, N))
  BY <1>3, <1>4 DEF Taken
<1>11. Total(N, ds) = ds[a[1]] + Cardinality(Taken(L, cs))
  BY <1>2, <1>5, <1>6, <1>7, <1>10
<1> QED
  BY <1>1, <1>8, <1>9, <1>11

-----------------------------------------------------------------------------
LEMMA LiveFinite == ASSUME TypeOK PROVE IsFiniteSet(live) /\ IsFiniteSet(AllOwned)
<1>1. IsFiniteSet(Blocks) /\ IsFiniteSet(0..(Granules - 1))
  BY FS_Interval, NumBlocksAssumption, GranulesAssumption DEF Blocks
<1>2. IsFiniteSet(Addresses)
  BY <1>1, FS_Product DEF Addresses
<1>3. live \subseteq Addresses /\ AllOwned \subseteq Blocks
  BY OwnedBlocks DEF TypeOK, AllOwned
<1> QED
  BY <1>1, <1>2, <1>3, FS_Subset

\* The property, with the sum named.
Counted == allocated = Total(live, cell_size)

LEMMA CountedIs == AllocatedIsLiveSize <=> Counted
BY DEF AllocatedIsLiveSize, Counted, Total, BlockSize, MapThenSumSet, MapThenFoldSet

LEMMA CutNat == ASSUME TypeOK, NEW a \in Addresses PROVE cell_size[a[1]] \in Nat
<1>1. a[1] \in Blocks
  BY DEF Addresses
<1> QED
  BY <1>1, GranulesAssumption DEF TypeOK

\* A cell that was not live is handed out.
LEMMA HandOutCounted ==
    ASSUME IInv, IInv', Counted, ~oom, NEW k \in Steps, NEW a, a \in Addresses \ live, HandOut(k, a),
           cell_size'[a[1]] = CellSize[k],
           \A x \in live : cell_size'[x[1]] = cell_size[x[1]]
    PROVE  Counted'
<1>1. live' = live \cup {a} /\ allocated' = allocated + CellSize[k] /\ oom' = oom
  BY DEF HandOut
<1>2. TypeOK /\ TypeOK' /\ live \subseteq Addresses /\ live' \subseteq Addresses
  BY DEF IInv, TypeOK
<1>3. PICK cs : cs = cell_size
  OBVIOUS
<1>4. PICK ds : ds = cell_size'
  OBVIOUS
<1>5. PICK L : L = live
  OBVIOUS
<1>6. PICK M : M = L \cup {a}
  OBVIOUS
<1>7. IsFiniteSet(L) /\ a \notin L /\ SameCut(L, cs, ds)
  BY <1>2, <1>3, <1>4, <1>5, LiveFinite DEF SameCut
<1>8. NatCut(M, ds)
  <2>1. \A x \in Addresses : x[1] \in Blocks
    BY DEF Addresses
  <2>2. \A x \in M : x[1] \in Blocks
    BY <2>1, <1>2, <1>5, <1>6
  <2> QED
    BY <2>2, <1>2, <1>4, GranulesAssumption DEF TypeOK, NatCut
<1>9. Total(M, ds) = Total(L, cs) + CellSize[k]
  <2>1. IsFiniteSet(L)
    BY <1>7
  <2>2. a \notin L
    BY <1>7
  <2>3. SameCut(L, cs, ds)
    BY <1>7
  <2>4. PICK n : n = ds[a[1]]
    OBVIOUS
  <2>5. Total(M, ds) = Total(L, cs) + n
    BY ONLY <1>6, <2>1, <2>2, <2>3, <1>8, <2>4, TotalGrows
  <2> QED
    BY <2>4, <2>5, <1>4
<1>10. allocated = Total(L, cs)
  BY <1>3, <1>5 DEF Counted
<1>11. allocated' = Total(M, ds)
  BY <1>1, <1>4, <1>9, <1>10
<1> QED
  BY <1>1, <1>4, <1>5, <1>6, <1>11 DEF Counted

LEMMA FromCurrentCounted ==
    ASSUME IInv, IInv', Counted, NEW k \in Steps, AllocateFromCurrent(k) PROVE Counted'
<1>1. PICK a \in freelist[current[k]] : HandOut(k, a)
  BY DEF AllocateFromCurrent
<1> DEFINE c == current[k]
<1>2. c \in Blocks /\ c \in Owned(k) /\ c \in AllOwned /\ cell_size[c] = CellSize[k]
  BY OwnedBlocks DEF AllocateFromCurrent, IInv, TypeOK, Owned, Cut
<1>3. a \in Addresses /\ a \notin live /\ a[1] = c
  BY <1>2, CellsInside, CellBlock DEF IInv, Lists, TypeOK
<1> QED
  BY <1>1, <1>2, <1>3, HandOutCounted DEF AllocateFromCurrent

LEMMA FromNextCounted ==
    ASSUME IInv, IInv', Counted, NEW k \in Steps, AllocateFromNext(k) PROVE Counted'
<1>1. PICK c \in available[k] : \E a \in freelist[c] : HandOut(k, a)
  BY DEF AllocateFromNext
<1>2. PICK a \in freelist[c] : HandOut(k, a)
  BY <1>1
<1>3. c \in Blocks /\ c \in Owned(k) /\ c \in AllOwned /\ cell_size[c] = CellSize[k]
  BY OwnedBlocks DEF IInv, TypeOK, Owned, Cut
<1>4. a \in Addresses /\ a \notin live /\ a[1] = c
  BY <1>3, CellsInside, CellBlock DEF IInv, Lists, TypeOK
<1> QED
  BY <1>2, <1>3, <1>4, HandOutCounted DEF AllocateFromNext

LEMMA FromNewBlockCounted ==
    ASSUME IInv, IInv', Counted, NEW k \in Steps, AllocateFromNewBlock(k) PROVE Counted'
<1>1. ~oom
  BY DEF AllocateFromNewBlock
<1>2. PICK c \in Blocks : \E a \in CellsOf(c, CellSize[k]) :
        GetBlock(c) /\ cell_size' = [cell_size EXCEPT ![c] = CellSize[k]] /\ HandOut(k, a)
  BY DEF AllocateFromNewBlock
<1>3. PICK a \in CellsOf(c, CellSize[k]) : HandOut(k, a)
  BY <1>2
<1>4. c \notin AllOwned
  BY <1>1, <1>2, GotBlock DEF IInv
<1>5. a \in Addresses /\ a[1] = c
  <2>1. CellSize[k] \in 0..Granules
    BY CellSizeAssumption, GranulesAssumption
  <2> QED
    BY <2>1, CellsInside, CellBlock
<1>6. a \notin live /\ \A x \in live : x[1] # c
  BY <1>4, <1>5 DEF IInv, LiveOwned
<1>7. cell_size'[a[1]] = CellSize[k] /\ \A x \in live : cell_size'[x[1]] = cell_size[x[1]]
  BY <1>2, <1>5, <1>6 DEF IInv, TypeOK
<1> QED
  BY <1>1, <1>3, <1>5, <1>6, <1>7, HandOutCounted

\* What the sweep adds up, block by block, are the granules of the survivors.
LEMMA SweepCounted ==
    ASSUME IInv, IInv', Sweep PROVE Counted'
<1> DEFINE D == [b \in AllOwned |-> Survivors(b) \X (1..cell_size[b])]
           Q(it) == it = [s \in SUBSET AllOwned |-> IF s = {} THEN 0
                        ELSE SweptBytes(CHOOSE x \in s : TRUE) + it[s \ {CHOOSE x \in s : TRUE}]]
<1>1. /\ IsFiniteSet(AllOwned) /\ IsFiniteSet(live)
      /\ live \subseteq Addresses /\ AllOwned \subseteq Blocks
      /\ \A b \in AllOwned : cell_size[b] \in Nat
  BY LiveFinite, OwnedBlocks, GranulesAssumption DEF IInv, TypeOK, AllOwned
<1>2. \A b \in AllOwned : IsFiniteSet(D[b]) /\ Cardinality(D[b]) = SweptBytes(b)
  <2> SUFFICES ASSUME NEW b \in AllOwned
               PROVE  IsFiniteSet(D[b]) /\ Cardinality(D[b]) = SweptBytes(b)
    OBVIOUS
  <2>1. PICK n \in Nat : n = cell_size[b]
    BY <1>1
  <2>2. PICK S : S = Survivors(b)
    OBVIOUS
  <2>3. IsFiniteSet(S)
    BY <1>1, <2>2, FS_Subset DEF Survivors
  <2>4. IsFiniteSet(1..n) /\ Cardinality(1..n) = n
    BY FS_Interval
  <2>5. IsFiniteSet(S \X (1..n)) /\ Cardinality(S \X (1..n)) = Cardinality(S) * n
    BY <2>3, <2>4, FS_Product
  <2>6. D[b] = S \X (1..n)
    BY <2>1, <2>2
  <2>7. SweptBytes(b) = Cardinality(S) * n
    BY <2>1, <2>2 DEF SweptBytes
  <2> QED
    BY <2>5, <2>6, <2>7
<1>3. \A b, c \in AllOwned : b # c => D[b] \cap D[c] = {}
  <2>1. \A b \in AllOwned : \A y \in D[b] : y[1][1] = b
    BY CellBlock DEF Survivors
  <2> QED
    BY <2>1
<1>4. PICK E : E = D
  OBVIOUS
<1>5. \A it : Q(it) <=> AddsUp(it, E, AllOwned)
  <2>1. \A s \in SUBSET AllOwned : s # {} => SweptBytes(First(s)) = Cardinality(E[First(s)])
    BY <1>2, <1>4 DEF First
  <2> QED
    BY <2>1 DEF AddsUp, First
<1>6. allocated' = (CHOOSE it : Q(it))[AllOwned]
  BY DEF Sweep, MapThenSumSet, MapThenFoldSet
<1>7. /\ \A b \in AllOwned : IsFiniteSet(E[b])
      /\ \A b, c \in AllOwned : b # c => E[b] \cap E[c] = {}
  BY <1>2, <1>3, <1>4
<1>8. \E it : Q(it)
  BY <1>1, <1>5, <1>7, AddsUpExists
<1>9. AddsUp(CHOOSE it : Q(it), E, AllOwned)
  BY <1>5, <1>8
<1>10. allocated' = Cardinality(Members(E, AllOwned))
  BY <1>1, <1>6, <1>7, <1>9, AddsUpUnique
<1>11. live' = live \cap mark /\ cell_size' = cell_size
  BY SweepBits DEF Sweep
<1>12. Members(E, AllOwned) = Taken(live', cell_size')
  <2>1. \A a \in live' : a[1] \in AllOwned /\ a \in Survivors(a[1])
    BY <1>11 DEF IInv, LiveOwned, Survivors
  <2>2. \A b \in AllOwned : \A a \in Survivors(b) : a \in live' /\ a[1] = b
    BY <1>11, CellBlock DEF Survivors
  <2>3. \A b \in AllOwned : E[b] = Survivors(b) \X (1..cell_size[b])
    BY <1>4
  <2>4. \A a \in live' : Extents(live', cell_size')[a] = {a} \X (1..cell_size[a[1]])
    BY <1>11 DEF Extents
  <2>5. Members(E, AllOwned) \subseteq Taken(live', cell_size')
    BY <2>2, <2>3, <2>4 DEF Members, Taken
  <2>6. Taken(live', cell_size') \subseteq Members(E, AllOwned)
    BY <2>1, <2>3, <2>4 DEF Members, Taken
  <2> QED
    BY <2>5, <2>6
<1>13. PICK L : L = live'
  OBVIOUS
<1>14. PICK cs : cs = cell_size'
  OBVIOUS
<1>15. IsFiniteSet(L) /\ \A a \in L : cs[a[1]] \in Nat
  <2>1. \A a \in Addresses : a[1] \in Blocks
    BY DEF Addresses
  <2> QED
    BY <1>1, <1>11, <1>13, <1>14, <2>1, FS_Subset, GranulesAssumption DEF IInv, TypeOK
<1>16. Total(L, cs) = Cardinality(Taken(L, cs))
  BY <1>15, TotalIsTaken
<1> QED
  BY <1>10, <1>12, <1>13, <1>14, <1>16 DEF Counted

LEMMA CountedStep == ASSUME IInv, IInv', Counted, [Next]_vars PROVE Counted'
<1>1. CASE UNCHANGED <<allocated, live, cell_size>>
  BY <1>1 DEF Counted
<1>2. ASSUME NEW k \in Steps, OutOfMemory(k) PROVE Counted'
  BY <1>1, <1>2 DEF OutOfMemory
<1>3. ASSUME NEW a \in live, MarkCell(a) PROVE Counted'
  BY <1>3, <1>1 DEF MarkCell
<1>4. CASE UNCHANGED vars
  BY <1>4, <1>1 DEF vars
<1> QED
  BY <1>2, <1>3, <1>4, FromCurrentCounted, FromNextCounted, FromNewBlockCounted, SweepCounted
     DEF Next, Panicked

\* Heap::allocated is the size of the live cells, for any number of blocks and
\* any cell sizes: the count in allocate and the recount in sweep agree.
THEOREM AllocatedIsLiveSizeHolds == Spec => []AllocatedIsLiveSize
<1>1. Init => Counted
  <2> SUFFICES ASSUME Init PROVE allocated = Total(live, cell_size)
    BY DEF Counted
  <2>1. PICK L : L = live
    OBVIOUS
  <2>2. PICK cs : cs = cell_size
    OBVIOUS
  <2>3. L = {} /\ IsFiniteSet(L) /\ Cardinality({}) = 0
    BY <2>1, FS_EmptySet DEF Init
  <2>4. Total(L, cs) = Cardinality(Taken(L, cs))
    BY <2>3, TotalIsTaken
  <2>5. Taken(L, cs) = {}
    BY <2>3 DEF Taken, Members
  <2>6. Total(L, cs) = 0
    BY <2>3, <2>4, <2>5
  <2> QED
    BY <2>1, <2>2, <2>6 DEF Init
<1>2. IInv /\ Counted /\ [Next]_vars => Counted'
  BY StepInv, CountedStep
<1>3. Counted => AllocatedIsLiveSize
  BY CountedIs
<1> QED
  BY <1>1, <1>2, <1>3, InitInv, StepInv, PTL DEF Spec

-----------------------------------------------------------------------------
\* Two cells of one block do not overlap.
LEMMA CellsApart ==
    ASSUME NEW b, NEW s \in 1..Granules,
           NEW x \in CellsOf(b, s), NEW y \in CellsOf(b, s), x # y
    PROVE  x[2] + s <= y[2] \/ y[2] + s <= x[2]
<1>1. Granules \in Nat /\ s \in Nat /\ s > 0
  BY GranulesAssumption
<1>2. PICK i \in 0..(Granules \div s - 1) : x = <<b, i * s>>
  BY <1>1 DEF CellsOf
<1>3. PICK j \in 0..(Granules \div s - 1) : y = <<b, j * s>>
  BY <1>1 DEF CellsOf
<1>4. i \in Nat /\ j \in Nat
  BY <1>1
<1>5. i # j
  BY <1>2, <1>3
<1>6. CASE i < j
  <2>1. i + 1 <= j
    BY <1>4, <1>6
  <2>2. (i + 1) * s <= j * s
    BY <1>1, <1>4, <2>1
  <2>3. i * s + s <= j * s
    BY <1>1, <1>4, <2>2
  <2> QED
    BY <1>2, <1>3, <2>3
<1>7. CASE j < i
  <2>1. j + 1 <= i
    BY <1>4, <1>7
  <2>2. (j + 1) * s <= i * s
    BY <1>1, <1>4, <2>1
  <2>3. j * s + s <= i * s
    BY <1>1, <1>4, <2>2
  <2> QED
    BY <1>2, <1>3, <2>3
<1> QED
  BY <1>4, <1>5, <1>6, <1>7

Extent == {<<a, BlockSize(a)>> : a \in live}

\* Handing out a cell that was not live, without changing the cut of a block
\* that holds live cells, is CellHeap's Allocate.
LEMMA AllocateRefines ==
    ASSUME IInv, IInv', NEW k \in Steps, NEW a, a \notin live, live' = live \cup {a},
           a[1] \in Owned(k)', mark' = mark,
           \A x \in live : cell_size'[x[1]] = cell_size[x[1]]
    PROVE  CH!Next
<1>1. cell_size'[a[1]] = CellSize[k]
  BY DEF IInv, Cut
<1>2. Extent' = Extent \cup {<<a, CellSize[k]>>}
  BY <1>1 DEF Extent, BlockSize
<1>3. ASSUME NEW e \in Extent PROVE ~CH!Overlap(e, <<a, CellSize[k]>>)
  <2>1. PICK x \in live : e = <<x, cell_size[x[1]]>>
    BY DEF Extent, BlockSize
  <2>2. x # a /\ x \in live' /\ a \in live'
    BY <2>1
  <2>3. CASE x[1] = a[1]
    <3>1. cell_size[x[1]] = CellSize[k]
      BY <1>1, <2>1, <2>3
    <3>2. x \in CellsOf(a[1], CellSize[k]) /\ a \in CellsOf(a[1], CellSize[k])
      <4>1. x \in CellsOf(x[1], cell_size'[x[1]]) /\ a \in CellsOf(a[1], cell_size'[a[1]])
        BY <2>2 DEF IInv, LiveOwned, CellsOf
      <4> QED
        BY <4>1, <1>1, <2>3
    <3>3. CellSize[k] \in 1..Granules
      BY CellSizeAssumption
    <3>4. x[2] + CellSize[k] <= a[2] \/ a[2] + CellSize[k] <= x[2]
      BY <3>2, <3>3, <2>2, CellsApart
    <3>5. x[2] \in Nat /\ a[2] \in Nat
      BY <2>2, GranulesAssumption DEF IInv, TypeOK, Addresses
    <3>6. CellSize[k] \in Nat
      BY <3>3, GranulesAssumption
    <3> QED
      BY <2>1, <3>1, <3>4, <3>5, <3>6 DEF CH!Overlap
  <2>4. CASE x[1] # a[1]
    BY <2>1, <2>4 DEF CH!Overlap
  <2> QED
    BY <2>3, <2>4
<1>4. a \in Addresses
  BY DEF IInv, TypeOK
<1>5. CH!Allocate(a, CellSize[k])
  BY <1>2, <1>3 DEF CH!Allocate, Extent
<1> QED
  BY <1>4, <1>5 DEF CH!Next

\* The segregated space implements CellHeap for every number of blocks, size
\* steps and cell sizes: an allocation never overlaps a live cell and a sweep
\* keeps exactly the marked ones.
THEOREM Implements == Spec => ImplementsCellHeap
<1>1. Init => CH!Init
  BY DEF Init, CH!Init
<1>2. IInv /\ IInv' /\ [Next]_vars => [CH!Next]_(CH!vars)
  <2> SUFFICES ASSUME IInv, IInv', [Next]_vars PROVE [CH!Next]_(CH!vars)
    OBVIOUS
  <2>1. CASE UNCHANGED vars
    BY <2>1 DEF vars, CH!vars, BlockSize
  <2>2. ASSUME NEW k \in Steps, AllocateFromCurrent(k) PROVE CH!Next
    <3>1. PICK a \in freelist[current[k]] : live' = live \cup {a}
      BY <2>2 DEF AllocateFromCurrent, HandOut
    <3>2. current[k] \in Owned(k) /\ current[k] \in AllOwned
      BY <2>2, OwnedBlocks DEF AllocateFromCurrent, Owned, IInv
    <3>3. a \notin live /\ a[1] = current[k]
      BY <3>2, CellBlock DEF IInv, Lists
    <3>4. a[1] \in Owned(k)'
      BY <2>2, <3>2, <3>3 DEF AllocateFromCurrent, Owned
    <3> QED
      BY <2>2, <3>1, <3>3, <3>4, AllocateRefines DEF AllocateFromCurrent, HandOut
  <2>3. ASSUME NEW k \in Steps, AllocateFromNext(k) PROVE CH!Next
    <3>1. PICK c \in available[k] : \E a \in freelist[c] :
            live' = live \cup {a} /\ current' = [current EXCEPT ![k] = c]
      BY <2>3 DEF AllocateFromNext, HandOut
    <3>2. PICK a \in freelist[c] : live' = live \cup {a} /\ current' = [current EXCEPT ![k] = c]
      BY <3>1
    <3>3. c \in AllOwned /\ c # NoBlock
      BY OwnedBlocks, NoBlockAssumption DEF Owned, IInv, TypeOK, Blocks
    <3>4. a \notin live /\ a[1] = c
      BY <3>3, CellBlock DEF IInv, Lists
    <3>5. a[1] \in Owned(k)'
      BY <3>2, <3>3, <3>4 DEF Owned, IInv, TypeOK
    <3> QED
      BY <2>3, <3>2, <3>4, <3>5, AllocateRefines DEF AllocateFromNext, HandOut
  <2>4. ASSUME NEW k \in Steps, AllocateFromNewBlock(k) PROVE CH!Next
    <3>1. PICK c \in Blocks : \E a \in CellsOf(c, CellSize[k]) :
            /\ GetBlock(c)
            /\ live' = live \cup {a}
            /\ current' = [current EXCEPT ![k] = c]
            /\ cell_size' = [cell_size EXCEPT ![c] = CellSize[k]]
      BY <2>4 DEF AllocateFromNewBlock, HandOut
    <3>2. PICK a \in CellsOf(c, CellSize[k]) :
            /\ GetBlock(c)
            /\ live' = live \cup {a}
            /\ current' = [current EXCEPT ![k] = c]
            /\ cell_size' = [cell_size EXCEPT ![c] = CellSize[k]]
      BY <3>1
    <3>3. \A x \in live : x[1] # c
      BY <2>4, <3>2, GotBlock DEF AllocateFromNewBlock
    <3>4. a[1] = c /\ a \notin live
      BY <3>3, CellBlock
    <3>5. a[1] \in Owned(k)'
      BY <3>2, <3>4, NoBlockAssumption DEF Owned, IInv, TypeOK, Blocks
    <3>6. \A x \in live : cell_size'[x[1]] = cell_size[x[1]]
      BY <3>2, <3>3 DEF IInv, TypeOK, Addresses
    <3> QED
      BY <2>4, <3>2, <3>4, <3>5, <3>6, AllocateRefines DEF AllocateFromNewBlock, HandOut
  <2>5. ASSUME NEW k \in Steps, OutOfMemory(k) PROVE UNCHANGED CH!vars
    BY <2>5 DEF OutOfMemory, CH!vars, BlockSize
  <2>6. ASSUME NEW a \in live, MarkCell(a) PROVE CH!Next
    <3>1. <<a, BlockSize(a)>> \in Extent /\ Extent' = Extent
      BY <2>6 DEF Extent, BlockSize, MarkCell
    <3>2. CH!Mark(<<a, BlockSize(a)>>)
      BY <2>6, <3>1 DEF CH!Mark, Extent, MarkCell
    <3> QED
      BY <3>1, <3>2 DEF CH!Next, Extent
  <2>7. CASE Sweep
    <3>1. live' = live \cap mark /\ mark' = {} /\ cell_size' = cell_size
      BY <2>7, SweepBits DEF Sweep
    <3>2. Extent' = {e \in Extent : e[1] \in mark}
      BY <3>1 DEF Extent, BlockSize
    <3>3. CH!Sweep
      BY <3>1, <3>2 DEF CH!Sweep, Extent
    <3> QED
      BY <3>3 DEF CH!Next
  <2> QED
    BY <2>1, <2>2, <2>3, <2>4, <2>5, <2>6, <2>7 DEF Next, Panicked
<1> QED
  BY <1>1, <1>2, InitInv, StepInv, PTL DEF Spec, ImplementsCellHeap, CH!Spec

=============================================================================
