--------------------------- MODULE SegregatedSpace ---------------------------
(***************************************************************************)
(* The small-object space of the collector: Space, LocalAllocator and      *)
(* their sweep (gc/allocation.rs), Block and FreeList (gc/block.rs),       *)
(* BlockAllocator (gc/block_allocator.rs) and the live and mark bitmaps.   *)
(*                                                                         *)
(* Memory is a sequence of blocks of Granules 16-byte granules.  A block   *)
(* in use belongs to one LocalAllocator, which cuts it into cells of its   *)
(* cell size; a block whose cells are all free goes back to the block      *)
(* allocator and may be cut differently by its next owner.  The bitmaps    *)
(* have a bit per granule and know nothing of the cut.                     *)
(*                                                                         *)
(* Linked lists and free lists are sets: which of several free cells, or   *)
(* of several blocks behind the head, comes first is left open.            *)
(***************************************************************************)
EXTENDS Integers, FiniteSets, FiniteSetsExt

CONSTANTS
    Steps,          \* the size steps: one LocalAllocator for each
    CellSize,       \* CellSize[k]: size_class_for_size_step[k], in granules
    Granules,       \* granules of payload in a block
    NumBlocks,      \* blocks between BlockAllocator::data and data_bound
    NoBlock

ASSUME GranulesAssumption == Granules \in Nat \ {0}
ASSUME NumBlocksAssumption == NumBlocks \in Nat
ASSUME CellSizeAssumption == CellSize \in [Steps -> 1..Granules]
ASSUME NoBlockAssumption == NoBlock \notin 1..NumBlocks

Blocks == 1..NumBlocks
Addresses == Blocks \X (0..(Granules - 1))

VARIABLES
    data,           \* the first block that was never handed out
    free_blocks,    \* blocks given back to the block allocator
    cell_size,      \* cell_size[b]: the cut of block b (0: never initialised)
    freelist,       \* freelist[b]: the free cells of block b
    current,        \* current[k]: the block LocalAllocator k allocates from
    available,      \* available[k]: the blocks linked behind current[k]
    unavail,        \* unavail[k]: the blocks found full
    live,           \* live_bitmap
    mark,           \* mark_bitmap
    allocated,      \* Heap::allocated, in granules
    oom             \* whether an allocation panicked with GCOOM

vars == <<data, free_blocks, cell_size, freelist, current, available, unavail,
          live, mark, allocated, oom>>

\* Block::walk: the cells of a block cut into cells of s granules.
CellsOf(b, s) ==
    IF s = 0 THEN {} ELSE {<<b, i * s>> : i \in 0..(Granules \div s - 1)}

TypeOK ==
    /\ data \in 1..(NumBlocks + 1)
    /\ free_blocks \in SUBSET Blocks
    /\ cell_size \in [Blocks -> 0..Granules]
    /\ freelist \in [Blocks -> SUBSET Addresses]
    /\ current \in [Steps -> Blocks \cup {NoBlock}]
    /\ available \in [Steps -> SUBSET Blocks]
    /\ unavail \in [Steps -> SUBSET Blocks]
    /\ live \in SUBSET Addresses
    /\ mark \in SUBSET Addresses
    /\ oom \in BOOLEAN

-----------------------------------------------------------------------------
Init ==
    /\ data = 1
    /\ free_blocks = {}
    /\ cell_size = [b \in Blocks |-> 0]
    /\ freelist = [b \in Blocks |-> {}]
    /\ current = [k \in Steps |-> NoBlock]
    /\ available = [k \in Steps |-> {}]
    /\ unavail = [k \in Steps |-> {}]
    /\ live = {}
    /\ mark = {}
    /\ allocated = 0
    /\ oom = FALSE

\* BlockAllocator::get_block can return b: a block that was given back, or,
\* when there is none, the next fresh one (build_block).
GetBlock(b) ==
    \/ /\ b \in free_blocks
       /\ free_blocks' = free_blocks \ {b}
       /\ UNCHANGED data
    \/ /\ free_blocks = {}
       /\ b = data
       /\ data <= NumBlocks
       /\ data' = data + 1
       /\ UNCHANGED free_blocks

\* Mutant of NoBlockLeft: get_block goes straight to build_block.
NoBlockLeft_IgnoresFreeBlocks == data > NumBlocks

NoBlockLeft == free_blocks = {} /\ data > NumBlocks

\* The end of every allocation: Space::allocate sets the live bit and counts
\* the cell.
HandOut(k, a) ==
    /\ live' = live \cup {a}
    /\ allocated' = allocated + CellSize[k]
    /\ UNCHANGED <<mark, oom>>

\* LocalAllocator::allocate, the head block has a free cell.
AllocateFromCurrent(k) ==
    /\ ~oom
    /\ current[k] # NoBlock
    /\ \E a \in freelist[current[k]] :
        /\ freelist' = [freelist EXCEPT ![current[k]] = @ \ {a}]
        /\ HandOut(k, a)
    /\ UNCHANGED <<data, free_blocks, cell_size, current, available, unavail>>

Full(k) == current[k] # NoBlock /\ freelist[current[k]] = {}

\* The head block is full: it moves to unavail and the next block takes over.
\* Its allocate is not checked for null.
AllocateFromNext(k) ==
    /\ ~oom
    /\ Full(k)
    /\ \E b \in available[k] : \E a \in freelist[b] :
        /\ current' = [current EXCEPT ![k] = b]
        /\ available' = [available EXCEPT ![k] = @ \ {b}]
        /\ freelist' = [freelist EXCEPT ![b] = @ \ {a}]
        /\ HandOut(k, a)
    /\ unavail' = [unavail EXCEPT ![k] = @ \cup {current[k]}]
    /\ UNCHANGED <<data, free_blocks, cell_size>>

\* There is no block, or the last one is full: get_block, then Block::init.
AllocateFromNewBlock(k) ==
    /\ ~oom
    /\ current[k] = NoBlock \/ (Full(k) /\ available[k] = {})
    /\ unavail' = [unavail EXCEPT ![k] = @ \cup ({current[k]} \ {NoBlock})]
    /\ \E b \in Blocks : \E a \in CellsOf(b, CellSize[k]) :
        /\ GetBlock(b)
        /\ cell_size' = [cell_size EXCEPT ![b] = CellSize[k]]
        /\ freelist' = [freelist EXCEPT ![b] = CellsOf(b, CellSize[k]) \ {a}]
        /\ current' = [current EXCEPT ![k] = b]
        /\ HandOut(k, a)
    /\ UNCHANGED available

\* The same with no block left: the panic GCOOM, after the full head block was
\* linked into unavail; allocate_ has not written the count back.
OutOfMemory(k) ==
    /\ ~oom
    /\ current[k] = NoBlock \/ (Full(k) /\ available[k] = {})
    /\ NoBlockLeft
    /\ unavail' = [unavail EXCEPT ![k] = @ \cup ({current[k]} \ {NoBlock})]
    /\ oom' = TRUE
    /\ UNCHANGED <<data, free_blocks, cell_size, freelist, current, available, live, mark,
                   allocated>>

\* Space::mark of a cell that is_heap_pointer accepts: by the mark phase, or by
\* walk_in_context, which no sweep follows.
MarkCell(a) ==
    /\ ~oom
    /\ a \in live
    /\ mark' = mark \cup {a}
    /\ UNCHANGED <<data, free_blocks, cell_size, freelist, current, available,
                   unavail, live, allocated, oom>>

-----------------------------------------------------------------------------
Owned(k) == ({current[k]} \ {NoBlock}) \cup available[k] \cup unavail[k]

AllOwned == UNION {Owned(k) : k \in Steps}

\* What sweeping a block leaves: the live cells that are marked.
Survivors(b) == CellsOf(b, cell_size[b]) \cap live \cap mark

\* Mutant of SweptFreelist: cells that were free before the sweep are left out.
SweptFreelist_OnlyDied(b) == (CellsOf(b, cell_size[b]) \cap live) \ mark

\* The free list the sweep builds: unmarked cells and cells that were not live.
SweptFreelist(b) == CellsOf(b, cell_size[b]) \ (live \cap mark)

IsFull(b) == SweptFreelist(b) = {}
\* Mutant of FullyFree: any block with a free cell is given back.
FullyFree_HasFree(b) == ~IsFull(b)

FullyFree(b) == ~IsFull(b) /\ Survivors(b) = {}

\* Mutant of SweptBytes: counts the cells that were live before the sweep.
SweptBytes_BeforeSweep(b) ==
    Cardinality(CellsOf(b, cell_size[b]) \cap live) * cell_size[b]

SweptBytes(b) == Cardinality(Survivors(b)) * cell_size[b]

\* Mutant of Sweep: an empty block is given back and linked into current too.
Sweep_EmptyStaysLinked ==
    /\ ~oom
    /\ freelist' = [b \in Blocks |-> IF b \in AllOwned THEN SweptFreelist(b) ELSE freelist[b]]
    /\ free_blocks' = free_blocks \cup {b \in AllOwned : FullyFree(b)}
    /\ unavail' = [k \in Steps |-> {b \in Owned(k) : IsFull(b)}]
    /\ \E head \in [Steps -> Blocks \cup {NoBlock}] :
        /\ \A k \in Steps :
            LET usable == {b \in Owned(k) : ~IsFull(b)}
            IN  IF usable = {} THEN head[k] = NoBlock ELSE head[k] \in usable
        /\ current' = head
        /\ available' = [k \in Steps |-> {b \in Owned(k) : ~IsFull(b)} \ {head[k]}]
    /\ live' = live \ {a \in UNION {CellsOf(b, cell_size[b]) : b \in AllOwned} : a \notin mark}
    /\ mark' = mark \ {a \in UNION {CellsOf(b, cell_size[b]) : b \in AllOwned} : a \in live}
    /\ allocated' = MapThenSumSet(SweptBytes, AllOwned)
    /\ UNCHANGED <<data, cell_size, oom>>

\* Space::sweep: every LocalAllocator sweeps its two lists; full blocks become
\* unavail, empty ones go back to the block allocator, the others are linked
\* into current in an order that is left open.
Sweep ==
    /\ ~oom
    /\ freelist' = [b \in Blocks |-> IF b \in AllOwned THEN SweptFreelist(b) ELSE freelist[b]]
    /\ free_blocks' = free_blocks \cup {b \in AllOwned : FullyFree(b)}
    /\ unavail' = [k \in Steps |-> {b \in Owned(k) : IsFull(b)}]
    /\ \E head \in [Steps -> Blocks \cup {NoBlock}] :
        /\ \A k \in Steps :
            LET usable == {b \in Owned(k) : ~IsFull(b) /\ ~FullyFree(b)}
            IN  IF usable = {} THEN head[k] = NoBlock ELSE head[k] \in usable
        /\ current' = head
        /\ available' = [k \in Steps |->
                {b \in Owned(k) : ~IsFull(b) /\ ~FullyFree(b)} \ {head[k]}]
    /\ live' = live \ {a \in UNION {CellsOf(b, cell_size[b]) : b \in AllOwned} : a \notin mark}
    /\ mark' = mark \ {a \in UNION {CellsOf(b, cell_size[b]) : b \in AllOwned} : a \in live}
    /\ allocated' = MapThenSumSet(SweptBytes, AllOwned)
    /\ UNCHANGED <<data, cell_size, oom>>

\* After GCOOM the panic ends the program.
Panicked == oom /\ UNCHANGED vars

Next ==
    \/ \E k \in Steps :
        \/ AllocateFromCurrent(k)
        \/ AllocateFromNext(k)
        \/ AllocateFromNewBlock(k)
        \/ OutOfMemory(k)
    \/ \E a \in live : MarkCell(a)
    \/ Sweep
    \/ Panicked

Spec == Init /\ [][Next]_vars

-----------------------------------------------------------------------------
BlockSize(a) == cell_size[a[1]]

\* The space behaves like a CellHeap: whatever blocks were given back and cut
\* again, an allocated cell overlaps no live one, and a sweep keeps exactly the
\* marked cells.
CH == INSTANCE CellHeap WITH
        Sizes <- {CellSize[k] : k \in Steps},
        extent <- {<<a, BlockSize(a)>> : a \in live}

ImplementsCellHeap == CH!Spec

\* Every block handed out by the block allocator is in exactly one place: its
\* free list, or one of the lists of one LocalAllocator.
BlocksOwnedOnce ==
    ~oom =>
    /\ free_blocks \cup AllOwned = 1..(data - 1)
    /\ free_blocks \cap AllOwned = {}
    /\ \A k \in Steps : current[k] \notin available[k] \cup unavail[k]
                        /\ available[k] \cap unavail[k] = {}
    /\ \A k, l \in Steps : k # l => Owned(k) \cap Owned(l) = {}

\* The cells of an owned block are its free list and its live cells, disjoint:
\* no cell is handed out twice and none is lost; and the live bitmap has bits
\* only where a cell of an owned block starts.  Which addresses such a bit lets
\* through is_heap_pointer is in CellLayout.
FreelistComplement ==
    /\ \A k \in Steps : \A b \in Owned(k) :
        /\ cell_size[b] = CellSize[k]
        /\ freelist[b] = CellsOf(b, cell_size[b]) \ live
    /\ live \subseteq UNION {CellsOf(b, cell_size[b]) : b \in AllOwned}
    /\ mark \subseteq live

\* Every block behind the head has a free cell, so the unchecked second
\* allocate of LocalAllocator::allocate never returns null.
NextBlockHasRoom ==
    ~oom => \A k \in Steps :
        /\ \A b \in available[k] : freelist[b] # {}
        /\ current[k] = NoBlock => available[k] = {}

\* GCOOM is raised only when it must be: the blocks are all in use and the size
\* step that asked has no free cell.
OomOnlyWhenFull ==
    oom => \E k \in Steps :
        /\ free_blocks = {} /\ data > NumBlocks
        /\ \A b \in Owned(k) : freelist[b] = {}

\* Heap::allocated, which decides when to collect, is the size of the live
\* cells: the counting in allocate and the recount in sweep agree.
AllocatedIsLiveSize ==
    allocated = MapThenSumSet(BlockSize, live)
=============================================================================
