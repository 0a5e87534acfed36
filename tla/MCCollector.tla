----------------------------- MODULE MCCollector -----------------------------
(***************************************************************************)
(* A few small cells and a large one; the small ones are interchangeable.  *)
(* The size classes and the layout of its two spaces are those of a build. *)
(***************************************************************************)
EXTENDS Collector, CellLayout, TLC

SmallSymmetry == Permutations(Small)

\* The theorems of Encoding_proofs, for the sizes of a build.
ASSUME BuildChecked ==
    /\ \A size \in 0..LargeCutoff : Fits(size)
    /\ \A base \in {8, 16}, size \in {LargeCutoff + 1, 100000} : PreciseFits(base, size)
=============================================================================
