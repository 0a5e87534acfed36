---------------------------- MODULE Reachability ----------------------------
(***************************************************************************)
(* What a tracing collector finds: the cells that a set of roots leads to. *)
(***************************************************************************)
CONSTANT Cells          \* the GC cells

Closed(S, e) == \A c \in S : e[c] \subseteq S

\* The least set of cells that holds rs and is closed under e: written
\* without recursion, so that proofs can use it.
Reach(rs, e) ==
    {c \in Cells : \A S \in SUBSET Cells : rs \subseteq S /\ Closed(S, e) => c \in S}
=============================================================================
