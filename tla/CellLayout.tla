------------------------------ MODULE CellLayout ------------------------------
(***************************************************************************)
(* Where cells lie in memory, and what an address tells about them:        *)
(* Mmap::aligned and BlockAllocator (gc/block_allocator.rs), the cells of  *)
(* a Block (gc/block.rs), the bits of a SpaceBitmap (gc/space_bitmap.rs),  *)
(* PreciseAllocation (gc/large_object_space.rs) and Space::is_heap_pointer *)
(* (gc/allocation.rs).  Addresses and sizes are in bytes.                  *)
(*                                                                         *)
(* SegregatedSpace names a cell by its block and its offset in granules;   *)
(* AddressOf is that cell's address.                                       *)
(***************************************************************************)
EXTENDS SizeClasses

CONSTANTS
    Word,           \* addresses are taken modulo Word
    BitsPerWord,    \* BITS_PER_INTPTR
    BlockBytes,     \* BLOCK_SIZE
    DataStart,      \* offsetof!(Block.data_start): two pointers, a bool, a u16
    StructSize,     \* size_of::<PreciseAllocation>()
    HeapStart,      \* Mmap::start
    HeapSize        \* Options::heap_size

\* Half of a granule: PreciseAllocation::HALF_ALIGNMENT.
Half == SizeStep \div 2

RoundUpTo(x, y) == ((x + y - 1) \div y) * y

\* gc::round_down is x & !n: with n a power of two it takes away that one bit,
\* and not the bits below it.
round_down(x, n) == IF (x \div n) % 2 = 1 THEN x - n ELSE x

round_up(x, n) == round_down(x + n - 1, n)

\* The bytes of the heap that a word of a bitmap has bits for.
PerWord == SizeStep * BitsPerWord

\* SpaceBitmap::compute_bitmap_size, in words, and the bytes they cover.  By
\* round_up the last word is missing whenever an odd number of words would cover
\* the heap.
BitmapWords == round_up(HeapSize, PerWord) \div PerWord

Covered == PerWord * BitmapWords

\* Three words precede data_start, an odd number of halves.  The mapping is
\* aligned to pages of at least 4096 bytes, a word of a bitmap covers 1024.
ASSUME LayoutAssumption ==
    /\ SizeStep = 2 * Half
    /\ {Word, BitsPerWord, BlockBytes, DataStart, StructSize, HeapStart, HeapSize} \subseteq Nat
    /\ BitsPerWord > 0 /\ BlockBytes > 0 /\ StructSize > 0
    /\ BlockBytes % SizeStep = 0
    /\ DataStart % SizeStep = Half
    /\ DataStart <= BlockBytes
    /\ BlockPayload = BlockBytes - RoundUp(DataStart)
    /\ HeapStart % (2 * PerWord) = 0
    /\ BlockBytes % (2 * PerWord) = 0
    /\ HeapStart + Covered <= Word

-----------------------------------------------------------------------------
\* Blocks and their cells.

\* Mmap::aligned: a start that is aligned already loses a block.
AlignedStart == HeapStart + (BlockBytes - (HeapStart % BlockBytes))

DataBound == HeapStart + HeapSize

\* BlockAllocator::total_blocks: as many as build_block hands out.
TotalBlocks ==
    IF AlignedStart > DataBound THEN 0 ELSE (DataBound - AlignedStart) \div BlockBytes

BlockAt(b) == AlignedStart + (b - 1) * BlockBytes

\* Block::cell_count and Block::cell.
cell_count(size) == (BlockBytes - DataStart) \div size

Cell(b, size, i) == BlockAt(b) + DataStart + i * size

BlockGranules == (BlockBytes - DataStart) \div SizeStep

AddressOf(a) == BlockAt(a[1]) + DataStart + a[2] * SizeStep

CellPlaces == (1..TotalBlocks) \X (0..(BlockGranules - 1))

-----------------------------------------------------------------------------
\* SpaceBitmap, one bit for each granule of the heap.

offset_to_index(offset) == (offset \div SizeStep) \div BitsPerWord

offset_bit_index(offset) == (offset \div SizeStep) % BitsPerWord

\* The subtraction wraps.
OffsetOf(p) == (p - HeapStart) % Word

has_address(p) == offset_to_index(OffsetOf(p)) < BitmapWords

Bit(p) == <<offset_to_index(OffsetOf(p)), offset_bit_index(OffsetOf(p))>>

-----------------------------------------------------------------------------
\* PreciseAllocation.  base is what malloc returned, a multiple of Half.

is_aligned_for_precise_allocation(p) == p % SizeStep = 0

\* The header rounded up to Half, with the bit Half set.
header_size ==
    LET size == RoundUpTo(StructSize, Half)
    IN IF (size \div Half) % 2 = 1 THEN size ELSE size + Half

AllocationSize(size) == header_size + size + Half

\* try_create: the header moves up by Half when base is not aligned.
adjusted_alignment(base) == ~is_aligned_for_precise_allocation(base)

HeaderAt(base) == IF adjusted_alignment(base) THEN base + Half ELSE base

PreciseCell(header) == header + header_size

from_cell(p) == p - header_size

base_pointer(header, adjusted) == IF adjusted THEN header - Half ELSE header

is_precise(p) == (p \div Half) % 2 = 1

-----------------------------------------------------------------------------
\* Space::is_heap_pointer, for the set bits of the live bitmap and the headers
\* in LargeObjectSpace::allocations.
is_heap_pointer(p, bits, headers) ==
    IF has_address(p) THEN Bit(p) \in bits ELSE from_cell(p) \in headers

-----------------------------------------------------------------------------
\* A cell of a block lies behind its header and before its end, in the heap;
\* different places are different addresses, with different bits.
CellsApart(places) ==
    \A a \in places :
        /\ BlockAt(a[1]) + DataStart <= AddressOf(a)
        /\ AddressOf(a) + SizeStep <= BlockAt(a[1]) + BlockBytes
        /\ HeapStart <= AddressOf(a) /\ AddressOf(a) + SizeStep <= DataBound
        /\ has_address(AddressOf(a))
        /\ \A b \in places : a # b => Bit(AddressOf(a)) # Bit(AddressOf(b))

\* The address p passes for the cell at c: cells start in the middle of the
\* granules of the bitmaps, so the last half granule before a cell passes too.
PassesFor(p, c) == c - Half <= p /\ p < c + Half

PointersExplained(cells, p) ==
    LET bits == {Bit(AddressOf(a)) : a \in cells}
    IN is_heap_pointer(p, bits, {}) <=> \E a \in cells : PassesFor(p, AddressOf(a))

\* A precise allocation: the assertion of try_create, the way back from the
\* cell to the header and to malloc's pointer, and room for header and cell.
PreciseFits(base, size) ==
    LET header == HeaderAt(base)
        cell == PreciseCell(header)
    IN /\ is_aligned_for_precise_allocation(header)
       /\ from_cell(cell) = header
       /\ base_pointer(header, adjusted_alignment(base)) = base
       /\ base <= header /\ header + StructSize <= cell
       /\ cell + size <= base + AllocationSize(size)
       /\ cell % Half = 0
=============================================================================
