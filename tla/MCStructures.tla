----------------------------- MODULE MCStructures -----------------------------
(***************************************************************************)
(* A few objects, names and descriptors over a bounded heap of structures. *)
(***************************************************************************)
EXTENDS Structures

CONSTANT getter

Symmetry == Permutations(Objects \ Constructors) \cup Permutations(Values \ Objects)

Nothing == [has |-> {}, on |-> {}, value |-> Undefined, get |-> Undefined, set |-> Undefined]

\* {get: getter}
Getter == {[Nothing EXCEPT !.has = {"get"}, !.get = getter]}

\* {value: undefined, writable: false}, for a prototype property.
ReadOnly == {[Nothing EXCEPT !.has = {"value", "W"}]}

-----------------------------------------------------------------------------
Existing == {o \in Objects : Exists(o)}
Used == UNION {DOMAIN EntriesOf(heap, o) : o \in Existing}
            \cup {n \in Names : get_ic[n] # None \/ put_ic[n] # None}

HasAccessor(o) == \E n \in DOMAIN EntriesOf(heap, o) : EntriesOf(heap, o)[n].kind = "accessor"

\* No action reads both caches of a site, so one at a time is filled.
OneCache == \A n \in Names : get_ic[n] = None \/ put_ic[n] = None

\* One name: chains of three objects, which only lookups walk, and two objects
\* with all structures.
OneName ==
    /\ Cardinality(Used) <= 1
    /\ \A s \in Alive : structure[s].size + Len(structure[s].deleted) <= 1
    /\ Cardinality(Existing) = 3 =>
        Cardinality(Alive) <= 4 /\ \A n \in Names : put_ic[n] = None

\* Two names: two objects with data properties and no prototypes.
TwoNames ==
    /\ Cardinality(Existing) <= 2
    /\ \A o \in Existing :
        ~HasAccessor(o) /\ structure[object[o].structure].proto = NoObject
    /\ Cardinality(Alive) <= 4

Scope == OneCache /\ (OneName \/ TwoNames)

\* With a constructor, only the put site is filled; at most one object is locked.
PutSite ==
    /\ \A n \in Names : get_ic[n] = None
    /\ Cardinality({o \in Existing : ~object[o].extensible}) <= 1
=============================================================================
