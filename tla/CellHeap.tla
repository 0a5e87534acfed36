------------------------------- MODULE CellHeap -------------------------------
(***************************************************************************)
(* What the small-object space promises to the collector: allocation hands *)
(* out an extent of memory that overlaps no live cell, and a sweep keeps   *)
(* exactly the live cells that are marked and leaves no mark behind.       *)
(* SegregatedSpace implements this specification.                          *)
(***************************************************************************)
EXTENDS Integers

CONSTANTS
    Addresses,      \* the addresses a cell can start at: <<block, granule>>
    Sizes           \* the cell sizes, in granules

VARIABLES
    extent,         \* the live cells: a set of <<address, size>>
    mark            \* the addresses whose mark bit is set

vars == <<extent, mark>>

Overlap(e, f) ==
    /\ e[1][1] = f[1][1]
    /\ e[1][2] < f[1][2] + f[2]
    /\ f[1][2] < e[1][2] + e[2]

Init == extent = {} /\ mark = {}

Allocate(a, s) ==
    /\ \A e \in extent : ~Overlap(e, <<a, s>>)
    /\ extent' = extent \cup {<<a, s>>}
    /\ UNCHANGED mark

Mark(e) ==
    /\ e \in extent
    /\ mark' = mark \cup {e[1]}
    /\ UNCHANGED extent

Sweep ==
    /\ extent' = {e \in extent : e[1] \in mark}
    /\ mark' = {}

Next ==
    \/ \E a \in Addresses, s \in Sizes : Allocate(a, s)
    \/ \E e \in extent : Mark(e)
    \/ Sweep

Spec == Init /\ [][Next]_vars
=============================================================================
