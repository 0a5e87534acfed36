-------------------------- MODULE MCSegregatedSpace --------------------------
(***************************************************************************)
(* Two LocalAllocators, of the size classes of two requests, over a few    *)
(* small blocks, and the layout of those blocks in a small memory.         *)
(***************************************************************************)
EXTENDS SegregatedSpace, CellLayout

CONSTANT Requests

RequestedSteps == {AllocatorFor(size) : size \in Requests}
RequestedCellSize == [k \in RequestedSteps |-> SizeClassForSizeStep(k) \div SizeStep]

\* The theorems of Encoding_proofs on these blocks, for all sets of two cells
\* and every address.
ASSUME LayoutChecked ==
    /\ CellsApart(CellPlaces)
    /\ CellPlaces = (1..NumBlocks) \X (0..(Granules - 1))
    /\ \A a, b \in CellPlaces, p \in 0..(Word - 1) : PointersExplained({a, b}, p)
    /\ \A base \in 1..50, size \in 1..50 : base % Half = 0 => PreciseFits(base, size)
    /\ \A p \in 0..(Word - 1) : has_address(p) <=> HeapStart <= p /\ p < HeapStart + Covered
=============================================================================
