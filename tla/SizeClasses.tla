----------------------------- MODULE SizeClasses -----------------------------
(***************************************************************************)
(* The sizes that cells of the small-object space come in, and the table   *)
(* that gives the size class of a request (gc/allocation.rs).  Sizes are   *)
(* in bytes, steps of SizeStep.                                            *)
(***************************************************************************)
EXTENDS Integers, FiniteSets, FiniteSetsExt

CONSTANTS
    SizeStep,       \* SIZE_STEP
    PreciseCutoff,  \* PRECISE_CUTOFF
    BlockPayload,   \* BLOCK_PAYLOAD
    HighVolume,     \* the size class added by hand, 256
    Approximate     \* PRECISE_CUTOFF * progression^i, for each i the loop reaches

\* The largest size of a small cell: two fit into a block.
LargeCutoff == ((BlockPayload \div 2) \div SizeStep) * SizeStep

\* A progression below one panics, and the loop ends at LARGE_CUTOFF; with a
\* progression of one it does not end.
ASSUME SizesAssumption ==
    /\ SizeStep \in Nat \ {0}
    /\ PreciseCutoff \in Nat
    /\ BlockPayload \in Nat
    /\ HighVolume \in Nat
    /\ PreciseCutoff <= LargeCutoff
    /\ 0 < HighVolume /\ HighVolume % SizeStep = 0 /\ HighVolume <= LargeCutoff
    /\ 0 < PreciseCutoff
    /\ IsFiniteSet(Approximate)
    /\ Approximate \subseteq PreciseCutoff..(LargeCutoff - 1)

\* wtf_rs::round_up
RoundUp(x) == ((x + SizeStep - 1) \div SizeStep) * SizeStep

RoundDown(x) == (x \div SizeStep) * SizeStep

\* As many cells, each of them as large as possible, unless that wastes more.
BetterSizeClass(size_class) ==
    LET cells == BlockPayload \div size_class
        possibly_better == RoundDown(BlockPayload \div cells)
        original_wastage == BlockPayload - cells * size_class
        new_wastage == (possibly_better - size_class) * cells
    IN IF new_wastage > original_wastage THEN size_class ELSE possibly_better

\* generate_size_classes.  Its second way out of the loop, a class above
\* LARGE_CUTOFF, is not taken: see ClassesFit.
SizeClasses ==
    {n \in 1..(PreciseCutoff - 1) : n % SizeStep = 0}
        \cup {BetterSizeClass(RoundUp(a)) : a \in Approximate}
        \cup {HighVolume}

size_class_to_index(size) == (size + SizeStep - 1) \div SizeStep

index_to_size_class(index) == index * SizeStep

Indices == 0..(LargeCutoff \div SizeStep)

\* build_size_class_table: the smallest class that is large enough, or the size
\* of the step itself beyond the last class.
SizeClassForSizeStep(i) ==
    LET enough == {c \in SizeClasses : size_class_to_index(c) >= i}
    IN IF enough = {} THEN index_to_size_class(i)
       ELSE CHOOSE c \in enough : \A d \in enough : c <= d

\* Space::allocate and allocator_for_slow: one LocalAllocator for each index,
\* made when the first request comes.
IsSmall(size) == size <= LargeCutoff

AllocatorFor(size) == size_class_to_index(size)

CellSizeFor(size) == SizeClassForSizeStep(AllocatorFor(size))

-----------------------------------------------------------------------------
\* The cell of a small request holds it, no smaller class does, and two of them
\* fit into a block.
Fits(size) ==
    LET c == CellSizeFor(size)
    IN /\ size <= c /\ 0 < c /\ c <= LargeCutoff /\ c % SizeStep = 0
       /\ \A d \in SizeClasses : size <= d => c <= d
       /\ BlockPayload \div c >= 2
=============================================================================
