-------------------------- MODULE MCParallelMarking --------------------------
(***************************************************************************)
(* Instances of ParallelMarking for TLC.                                   *)
(***************************************************************************)
EXTENDS ParallelMarking, TLC

CONSTANTS c1, c2, c3, c4

\* Every object graph on the cells in which a cell has at most two children.
AllGraphs == [Cells -> {S \in SUBSET Cells : Cardinality(S) <= 2}]

\* Two roots with a child each: the least heap in which two workers mark
\* different cells at the same time.
TwoChains == {(c1 :> {c3} @@ c2 :> {c4} @@ c3 :> {} @@ c4 :> {})}
TwoRoots == {{c1, c2}}

AllRoots == SUBSET Cells

\* All mark bits in one word, as of cells within 1024 bytes of the heap.
SharedWord == [c \in Cells |-> 0]

=============================================================================
