--------------------------- MODULE Structures_proofs ---------------------------
(***************************************************************************)
(* Proofs about Structures, for any objects, names, values, descriptors    *)
(* and number of structures: what the engine relies on between any two     *)
(* operations, the coherence of the inline caches, and that Structures     *)
(* implements Objects.                                                     *)
(***************************************************************************)
EXTENDS Structures, NaturalsInduction, FiniteSetTheorems, WellFoundedInduction, TLAPS

-----------------------------------------------------------------------------
(* Functions defined along a chain.                                         *)

LEMMA Smallest ==
    ASSUME NEW T \in SUBSET Nat, T # {}
    PROVE  \E c \in T : \A d \in T : c <= d
<1> DEFINE R == OpToRel(<, Nat)
<1>1. IsWellFoundedOn(R, Nat)
  BY NatLessThanWellFounded, Zenon
<1>2. \A c \in T, d \in T : d < c => <<d, c>> \in R
  BY SMT DEF OpToRel
<1> HIDE DEF R
<1>3. PICK c \in T : \A d \in T : ~ (<<d, c>> \in R)
  BY <1>1, WFMin
<1>4. \A d \in T : ~ (d < c)
  BY <1>2, <1>3
<1> QED
  BY <1>4

\* From everything in S, the chain along up comes to B.
Chained(S, B, up) ==
    \E N \in Nat : \E rank \in [S -> 0..N] :
        \A t \in S : t \notin B => up[t] \in S /\ rank[up[t]] < rank[t]

\* f is given by base on B, and elsewhere by its value one step up the chain.
Recursion(S, V, B, up, base, step) ==
    Chained(S, B, up) /\ base \in [S -> V] /\ step \in [S -> [V -> V]]

Solution(S, V, B, up, base, step, f) ==
    f \in [S -> V] /\ \A t \in S : f[t] = IF t \in B THEN base[t] ELSE step[t][f[up[t]]]

LEMMA LinearRecursion ==
    ASSUME NEW S, NEW V, NEW B, NEW up, NEW base, NEW step,
           Recursion(S, V, B, up, base, step)
    PROVE  \E f : Solution(S, V, B, up, base, step, f)
<1>c. base \in [S -> V] /\ step \in [S -> [V -> V]]
  BY DEF Recursion
<1>a. PICK N \in Nat : \E rank \in [S -> 0..N] :
        \A t \in S : t \notin B => up[t] \in S /\ rank[up[t]] < rank[t]
  BY DEF Recursion, Chained
<1>b. PICK rank \in [S -> 0..N] :
        \A t \in S : t \notin B => up[t] \in S /\ rank[up[t]] < rank[t]
  BY <1>a
<1> DEFINE Next_(f) == [t \in S |-> IF t \in B THEN base[t] ELSE step[t][f[up[t]]]]
           Solves(f, n) == f \in [S -> V] /\ \A t \in S : rank[t] < n => f[t] = Next_(f)[t]
           bad == {n \in Nat : ~ \E f : Solves(f, n)}
<1>1. bad = {}
  <2> SUFFICES ASSUME bad # {} PROVE FALSE
    OBVIOUS
  <2>1. PICK c \in bad : \A d \in bad : c <= d
    BY Smallest
  <2>2. c # 0
    <3>1. Solves(base, 0)
      BY <1>c
    <3> QED
      BY <3>1
  <2>3. c - 1 \in Nat /\ c - 1 \notin bad
    <3>1. c \in Nat
      OBVIOUS
    <3> HIDE DEF bad
    <3> QED
      BY <2>1, <2>2, <3>1
  <2>4. PICK f : Solves(f, c - 1)
    BY <2>3
  <2>5. Next_(f) \in [S -> V]
    BY <1>b, <1>c, <2>4
  <2>6. ASSUME NEW t \in S, rank[t] < c PROVE Next_(f)[t] = Next_(Next_(f))[t]
    <3>1. CASE t \in B
      BY <3>1
    <3>2. CASE t \notin B
      <4>1. up[t] \in S /\ rank[up[t]] < c - 1
        BY <1>b, <2>6, <3>2
      <4>2. f[up[t]] = Next_(f)[up[t]]
        BY <2>4, <4>1
      <4> QED
        BY <3>2, <4>1, <4>2
    <3> QED
      BY <3>1, <3>2
  <2>7. Solves(Next_(f), c)
    BY <2>5, <2>6
  <2> QED
    BY <2>1, <2>7
<1>2. PICK f : Solves(f, N + 1)
  <2> HIDE DEF Solves
  <2>1. N + 1 \in Nat
    OBVIOUS
  <2> QED
    BY <1>1, <2>1
<1>3. \A t \in S : rank[t] < N + 1
  OBVIOUS
<1>4. \A t \in S : f[t] = Next_(f)[t]
  BY <1>2, <1>3
<1> QED
  BY <1>2, <1>4 DEF Solution

\* What holds on B, and of what is one step before a thing that it holds of,
\* holds everywhere.
LEMMA ChainInduction ==
    ASSUME NEW S, NEW B, NEW up, Chained(S, B, up),
           NEW T, \A t \in S : t \in B \/ (up[t] \in S /\ up[t] \in T) => t \in T
    PROVE  S \subseteq T
<1>a. PICK N \in Nat : \E rank \in [S -> 0..N] :
        \A t \in S : t \notin B => up[t] \in S /\ rank[up[t]] < rank[t]
  BY DEF Chained
<1>b. PICK rank \in [S -> 0..N] :
        \A t \in S : t \notin B => up[t] \in S /\ rank[up[t]] < rank[t]
  BY <1>a
<1> DEFINE bad == {rank[t] : t \in S \ T}
<1> SUFFICES ASSUME bad # {} PROVE FALSE
  OBVIOUS
<1>0. bad \in SUBSET Nat
  OBVIOUS
<1>1. PICK c \in bad : \A d \in bad : c <= d
  <2> HIDE DEF bad
  <2> QED
    BY <1>0, Smallest
<1>2. PICK t \in S \ T : rank[t] = c
  OBVIOUS
<1>3. up[t] \in S \ T /\ rank[up[t]] < c
  BY <1>b, <1>2
<1>4. rank[up[t]] \in bad /\ c \in Nat /\ rank[up[t]] \in Nat
  BY <1>0, <1>3
<1> HIDE DEF bad
<1> QED
  BY <1>1, <1>3, <1>4

\* Chains may be cut short.
LEMMA ChainedShorter ==
    ASSUME NEW S, NEW B, NEW up, Chained(S, B, up),
           NEW A, NEW onward, \A t \in S : t \notin A => t \notin B /\ onward[t] = up[t]
    PROVE  Chained(S, A, onward)
<1>1. PICK N \in Nat : \E rank \in [S -> 0..N] :
        \A t \in S : t \notin B => up[t] \in S /\ rank[up[t]] < rank[t]
  BY DEF Chained
<1>2. PICK rank \in [S -> 0..N] :
        \A t \in S : t \notin B => up[t] \in S /\ rank[up[t]] < rank[t]
  BY <1>1
<1>3. \A t \in S : t \notin A => onward[t] \in S /\ rank[onward[t]] < rank[t]
  BY <1>2
<1> QED
  BY <1>3 DEF Chained

\* An element x that no chain goes through may be put before another.
LEMMA ChainedOnward ==
    ASSUME NEW S, NEW B, NEW up, Chained(S, B, up),
           NEW x \in S, \A t \in S : t \notin B => up[t] # x,
           NEW A, NEW onward,
           \A t \in S \ {x} : t \notin A => t \notin B /\ onward[t] = up[t],
           x \notin A => onward[x] \in S \ {x}
    PROVE  Chained(S, A, onward)
<1>1. PICK N \in Nat : \E rank \in [S -> 0..N] :
        \A t \in S : t \notin B => up[t] \in S /\ rank[up[t]] < rank[t]
  BY DEF Chained
<1>2. PICK rank \in [S -> 0..N] :
        \A t \in S : t \notin B => up[t] \in S /\ rank[up[t]] < rank[t]
  BY <1>1
<1> DEFINE higher == [rank EXCEPT ![x] = N + 1]
<1>3. higher \in [S -> 0..(N + 1)]
  OBVIOUS
<1>4. ASSUME NEW t \in S, t \notin A
      PROVE  onward[t] \in S /\ higher[onward[t]] < higher[t]
  <2>1. CASE t = x
    <3>1. onward[t] \in S \ {x} /\ higher[t] = N + 1
      BY <1>4, <2>1
    <3>2. higher[onward[t]] = rank[onward[t]] /\ rank[onward[t]] \in 0..N
      BY <3>1
    <3> QED
      BY <3>1, <3>2
  <2>2. CASE t # x
    <3>1. onward[t] = up[t] /\ up[t] \in S \ {x} /\ rank[up[t]] < rank[t]
      BY <1>2, <1>4, <2>2
    <3> QED
      BY <2>2, <3>1
  <2> QED
    BY <2>1, <2>2
<1>5. N + 1 \in Nat
  OBVIOUS
<1> HIDE DEF higher
<1> QED
  BY <1>3, <1>4, <1>5 DEF Chained

-----------------------------------------------------------------------------
(* Heaps of structures.                                                     *)

Maps == {m \in UNION {[N -> MapEntry] : N \in SUBSET Names} : IsFiniteSet(DOMAIN m)}
Links == UNION {[K -> Structure] : K \in SUBSET (Names \X Attributes)}

Heap ==
    [st : [Structure -> StructureRecord \cup {None}],
     tb : [Structure -> Maps],
     tr : [Structure -> Links]]

\* Where the tables are, and what comes before a structure: a table belongs to
\* shared structures, each its own, or to unique ones; no table that may change
\* in place lies before a structure.
Linked(h) ==
    \A s \in AliveIn(h) :
        LET x == h.st[s] IN
        /\ x.owner # None =>
            /\ x.owner \in AliveIn(h) /\ x.previous = None
            /\ h.st[x.owner].owner = x.owner
            /\ h.st[x.owner].unique = x.unique
            /\ ~x.unique => x.owner = s
        /\ x.previous # None =>
            /\ x.previous \in AliveIn(h)
            /\ h.st[x.previous].unique => x.unique /\ h.st[x.previous].owner = None
        /\ x.owner = None \/ ~x.unique => x.deleted = <<>>
        /\ x.added # None => ~x.unique

\* The chains of structures end.
Ranked(h) ==
    Chained(Structure, {s \in Structure : h.st[s] = None \/ h.st[s].previous = None},
            [s \in Structure |-> h.st[s].previous])

Shaped(h) == h \in Heap /\ Linked(h) /\ Ranked(h)

LEMMA MapsFacts ==
    /\ EmptyMap \in Maps
    /\ \A m : m \in Maps <=> /\ m \in [DOMAIN m -> MapEntry]
                             /\ DOMAIN m \subseteq Names
                             /\ IsFiniteSet(DOMAIN m)
    /\ \A m \in Maps, n \in Names, e \in MapEntry :
        /\ Bind(m, n, e) \in Maps
        /\ DOMAIN Bind(m, n, e) = DOMAIN m \cup {n}
        /\ Bind(m, n, e)[n] = e
        /\ \A k \in DOMAIN m \ {n} : Bind(m, n, e)[k] = m[k]
<1>1. \A m : m \in Maps <=> /\ m \in [DOMAIN m -> MapEntry]
                            /\ DOMAIN m \subseteq Names
                            /\ IsFiniteSet(DOMAIN m)
  BY DEF Maps
<1>2. EmptyMap \in Maps
  <2>1. DOMAIN EmptyMap = {} /\ EmptyMap \in [{} -> MapEntry]
    BY DEF EmptyMap
  <2> QED
    BY <1>1, <2>1, FS_EmptySet
<1>3. ASSUME NEW m \in Maps, NEW n \in Names, NEW e \in MapEntry
      PROVE  /\ Bind(m, n, e) \in Maps
             /\ DOMAIN Bind(m, n, e) = DOMAIN m \cup {n}
             /\ Bind(m, n, e)[n] = e
             /\ \A k \in DOMAIN m \ {n} : Bind(m, n, e)[k] = m[k]
  <2>1. m \in [DOMAIN m -> MapEntry] /\ DOMAIN m \subseteq Names /\ IsFiniteSet(DOMAIN m)
    BY <1>1
  <2>2. IsFiniteSet(DOMAIN m \cup {n})
    BY <2>1, FS_AddElement
  <2>3. /\ DOMAIN Bind(m, n, e) = DOMAIN m \cup {n}
        /\ Bind(m, n, e) \in [DOMAIN m \cup {n} -> MapEntry]
        /\ Bind(m, n, e)[n] = e
        /\ \A k \in DOMAIN m \ {n} : Bind(m, n, e)[k] = m[k]
    BY <2>1 DEF Bind
  <2>4. Bind(m, n, e) \in Maps
    BY <1>1, <2>1, <2>2, <2>3
  <2> QED
    BY <2>3, <2>4
<1> QED
  BY <1>1, <1>2, <1>3

\* Binding a name in one map.
LEMMA BindFacts ==
    \A m \in Maps, n \in Names, e \in MapEntry :
        /\ Bind(m, n, e) \in Maps
        /\ DOMAIN Bind(m, n, e) = DOMAIN m \cup {n}
        /\ Bind(m, n, e)[n] = e
        /\ \A k \in DOMAIN m \ {n} : Bind(m, n, e)[k] = m[k]
BY MapsFacts, Zenon

\* What allocate_table collects, one structure at a time.
LEMMA EntriesStep ==
    ASSUME NEW h, Shaped(h)
    PROVE  \A s \in AliveIn(h) :
            /\ Entries(h, s) \in Maps
            /\ Entries(h, s) =
                IF h.st[s].owner # None THEN h.tb[h.st[s].owner]
                ELSE IF h.st[s].previous = None THEN EmptyMap
                ELSE IF h.st[s].added = None THEN Entries(h, h.st[s].previous)
                ELSE Bind(Entries(h, h.st[s].previous), h.st[s].added.name, h.st[s].added.entry)
<1> DEFINE Body(f) ==
        [t \in Structure |->
            IF h.st[t] = None THEN EmptyMap
            ELSE IF h.st[t].owner # None THEN h.tb[h.st[t].owner]
            ELSE IF h.st[t].previous = None THEN EmptyMap
            ELSE IF h.st[t].added = None THEN f[h.st[t].previous]
            ELSE Bind(f[h.st[t].previous], h.st[t].added.name, h.st[t].added.entry)]
           B == {t \in Structure : h.st[t] = None \/ h.st[t].owner # None
                                    \/ h.st[t].previous = None}
           base == [t \in Structure |->
                        IF h.st[t] # None /\ h.st[t].owner # None
                        THEN h.tb[h.st[t].owner] ELSE EmptyMap]
           up == [t \in Structure |-> h.st[t].previous]
           step == [t \in Structure |-> [m \in Maps |->
                        IF t \in B \/ h.st[t].added = None THEN m
                        ELSE Bind(m, h.st[t].added.name, h.st[t].added.entry)]]
<1>2. \A t \in AliveIn(h) :
        /\ t \in Structure /\ h.st[t] # None
        /\ h.st[t] \in StructureRecord
        /\ h.st[t].owner # None => h.st[t].owner \in Structure
        /\ h.st[t].previous # None => h.st[t].previous \in AliveIn(h)
        /\ h.st[t].added # None =>
            h.st[t].added.name \in Names /\ h.st[t].added.entry \in MapEntry
  BY DEF Shaped, Heap, AliveIn, Linked, StructureRecord
<1>3. \A t \in Structure : h.tb[t] \in Maps
  BY DEF Shaped, Heap
<1>4. base \in [Structure -> Maps]
  BY <1>2, <1>3, MapsFacts DEF AliveIn
<1>5. step \in [Structure -> [Maps -> Maps]]
  <2>1. ASSUME NEW t \in Structure, NEW m \in Maps
        PROVE  (IF t \in B \/ h.st[t].added = None THEN m
                ELSE Bind(m, h.st[t].added.name, h.st[t].added.entry)) \in Maps
    <3>1. CASE t \in B \/ h.st[t].added = None
      BY <3>1
    <3>2. CASE t \notin B /\ h.st[t].added # None
      <4>1. h.st[t].added.name \in Names /\ h.st[t].added.entry \in MapEntry
        BY <1>2, <3>2 DEF AliveIn
      <4> QED
        BY <3>2, <4>1, MapsFacts
    <3> QED
      BY <3>1, <3>2
  <2> QED
    BY <2>1
<1>1. \A t \in Structure : t \notin B => up[t] \in Structure
  BY <1>2 DEF AliveIn
<1>6. Chained(Structure, B, up)
  BY ChainedShorter DEF Shaped, Ranked
<1>7. PICK f \in [Structure -> Maps] :
        \A t \in Structure : f[t] = IF t \in B THEN base[t] ELSE step[t][f[up[t]]]
  <2>1. Recursion(Structure, Maps, B, up, base, step)
    BY <1>4, <1>5, <1>6 DEF Recursion
  <2> HIDE DEF B, base, up, step, Body
  <2> QED
    BY <2>1, LinearRecursion DEF Solution
<1>8. f = Body(f)
  <2>1. ASSUME NEW t \in Structure PROVE f[t] = Body(f)[t]
    <3>1. CASE t \in B
      BY <1>7, <3>1
    <3>2. CASE t \notin B
      <4>1. up[t] \in Structure /\ f[up[t]] \in Maps
        BY <1>1, <3>2
      <4>2. f[t] = step[t][f[up[t]]]
        BY <1>7, <3>2
      <4> QED
        BY <3>2, <4>1, <4>2
    <3> QED
      BY <3>1, <3>2
  <2> QED
    BY <1>7, <2>1
<1> DEFINE E == CHOOSE g : g = Body(g)
<1>9. E = Body(E)
  BY <1>8
<1>10. \A t \in Structure : E[t] \in Maps
  <2> DEFINE T == {t \in Structure : E[t] \in Maps}
  <2>1. ASSUME NEW t \in Structure, t \in B \/ (up[t] \in Structure /\ up[t] \in T)
        PROVE  t \in T
    <3>1. CASE t \in B
      <4>1. E[t] = base[t]
        BY <1>9, <3>1
      <4> QED
        BY <1>4, <4>1
    <3>2. CASE t \notin B
      <4>1. E[up[t]] \in Maps
        BY <2>1, <3>2
      <4>2. E[t] = Body(E)[t]
        BY <1>9, Zenon
      <4>3. Body(E)[t] = step[t][E[up[t]]]
        <5> HIDE DEF E
        <5> QED
          BY <3>2, <4>1
      <4>4. step[t][E[up[t]]] \in Maps
        <5> HIDE DEF E, step, B, up
        <5> QED
          BY <1>5, <4>1
      <4> QED
        BY <4>2, <4>3, <4>4, Zenon
    <3> QED
      BY <3>1, <3>2
  <2> HIDE DEF B, up, T, Body, E, base, step
  <2>2. Structure \subseteq T
    BY <1>6, <2>1, ChainInduction
  <2> QED
    BY <2>2 DEF T
<1>11. \A s \in Structure : Entries(h, s) = E[s]
  BY DEF Entries
<1> SUFFICES ASSUME NEW s \in AliveIn(h)
    PROVE   /\ Entries(h, s) \in Maps
            /\ Entries(h, s) =
                IF h.st[s].owner # None THEN h.tb[h.st[s].owner]
                ELSE IF h.st[s].previous = None THEN EmptyMap
                ELSE IF h.st[s].added = None THEN Entries(h, h.st[s].previous)
                ELSE Bind(Entries(h, h.st[s].previous), h.st[s].added.name, h.st[s].added.entry)
  OBVIOUS
<1>12. E[s] = Body(E)[s]
  BY <1>9, Zenon
<1> HIDE DEF E
<1>13. s \in Structure /\ h.st[s] # None
       /\ (h.st[s].previous # None => h.st[s].previous \in Structure)
  BY <1>2 DEF AliveIn
<1> QED
  BY <1>10, <1>11, <1>12, <1>13

-----------------------------------------------------------------------------
(* What the operations on a heap preserve.                                  *)

\* Structure s is to an object what it was.
Same(h, g, s) ==
    /\ Entries(g, s) = Entries(h, s)
    /\ g.st[s].unique = h.st[s].unique
    /\ g.st[s].proto = h.st[s].proto
    /\ g.st[s].deleted = h.st[s].deleted
    /\ SlotsSize(g, s) = SlotsSize(h, s)

\* t has its table, or has what was before it still, in T.
Unmoved(h, g, T, t) ==
    \/ g.st[t].owner # None /\ g.tb[g.st[t].owner] = Entries(h, t)
    \/ /\ h.st[t].owner = None /\ g.st[t].owner = None
       /\ g.st[t].previous = h.st[t].previous /\ g.st[t].added = h.st[t].added
       /\ h.st[t].previous # None => h.st[t].previous \in T

\* Then it has the entries that it had.
LEMMA SameEntries ==
    ASSUME NEW h, NEW g, Shaped(h), Shaped(g),
           NEW T, T \subseteq AliveIn(h), T \subseteq AliveIn(g),
           \A t \in T : Unmoved(h, g, T, t)
    PROVE  \A t \in T : Entries(g, t) = Entries(h, t)
<1> DEFINE W == {t \in Structure : t \in T => Entries(g, t) = Entries(h, t)}
           B == {s \in Structure : h.st[s] = None \/ h.st[s].previous = None}
           up == [s \in Structure |-> h.st[s].previous]
<1>1. Chained(Structure, B, up)
  BY DEF Shaped, Ranked
<1>2. ASSUME NEW t \in Structure, t \in B \/ (up[t] \in Structure /\ up[t] \in W)
      PROVE  t \in W
  <2> SUFFICES ASSUME t \in T PROVE Entries(g, t) = Entries(h, t)
    OBVIOUS
  <2>1. t \in AliveIn(h) /\ t \in AliveIn(g) /\ h.st[t] # None
    BY DEF AliveIn
  <2>2. CASE g.st[t].owner # None /\ g.tb[g.st[t].owner] = Entries(h, t)
    BY <2>1, <2>2, EntriesStep
  <2>3. CASE /\ h.st[t].owner = None /\ g.st[t].owner = None
             /\ g.st[t].previous = h.st[t].previous /\ g.st[t].added = h.st[t].added
             /\ h.st[t].previous # None => h.st[t].previous \in T
    <3>1. CASE h.st[t].previous = None
      BY <2>1, <2>3, <3>1, EntriesStep
    <3>2. CASE h.st[t].previous # None
      <4>1. Entries(g, h.st[t].previous) = Entries(h, h.st[t].previous)
        BY <1>2, <2>1, <2>3, <3>2
      <4> QED
        BY <2>1, <2>3, <3>2, <4>1, EntriesStep
    <3> QED
      BY <3>1, <3>2
  <2> QED
    BY <2>2, <2>3 DEF Unmoved
<1> HIDE DEF W, B, up
<1>3. Structure \subseteq W
  BY <1>1, <1>2, ChainInduction
<1> QED
  BY <1>3 DEF W, AliveIn

\* The size of a structure depends on these alone.
LEMMA SlotsSizeStep ==
    ASSUME NEW h, Shaped(h), NEW s \in AliveIn(h)
    PROVE  SlotsSize(h, s) =
            IF h.st[s].owner # None
            THEN Cardinality(DOMAIN Entries(h, s)) + Len(h.st[s].deleted)
            ELSE h.st[s].size
BY EntriesStep DEF SlotsSize

LEMMA SameSize ==
    ASSUME NEW h, NEW g, Shaped(h), Shaped(g), NEW s \in AliveIn(h), s \in AliveIn(g),
           g.st[s] = h.st[s], Entries(g, s) = Entries(h, s)
    PROVE  SlotsSize(g, s) = SlotsSize(h, s)
<1>1. CASE h.st[s].owner # None
  <2>1. SlotsSize(h, s) = Cardinality(DOMAIN Entries(h, s)) + Len(h.st[s].deleted)
    BY <1>1, SlotsSizeStep
  <2>2. SlotsSize(g, s) = Cardinality(DOMAIN Entries(g, s)) + Len(g.st[s].deleted)
    BY <1>1, SlotsSizeStep
  <2> QED
    BY <2>1, <2>2
<1>2. CASE h.st[s].owner = None
  BY <1>2, SlotsSizeStep
<1> QED
  BY <1>1, <1>2

\* What the links of a new structure x must be.
Joinable(h, x) ==
    /\ x.owner # None =>
        /\ x.owner \in AliveIn(h) /\ x.previous = None /\ x.unique
        /\ h.st[x.owner].owner = x.owner /\ h.st[x.owner].unique
    /\ x.previous # None =>
        /\ x.previous \in AliveIn(h)
        /\ h.st[x.previous].unique => x.unique /\ h.st[x.previous].owner = None
    /\ x.owner = None \/ ~x.unique => x.deleted = <<>>
    /\ x.added # None => ~x.unique

\* The heap g has the new structure i, which is x.
Grown(h, g, i, x) ==
    g \in Heap /\ h.st[i] = None /\ g.st = [h.st EXCEPT ![i] = x] /\ g.tb = h.tb

\* A new structure leaves the others as they are.
LEMMA Grow ==
    ASSUME NEW h, NEW g, Shaped(h), NEW i \in Structure,
           NEW x \in StructureRecord, Joinable(h, x), Grown(h, g, i, x)
    PROVE  /\ Shaped(g)
           /\ AliveIn(g) = AliveIn(h) \cup {i}
           /\ \A s \in AliveIn(h) : g.st[s] = h.st[s] /\ Same(h, g, s)
           /\ g.st[i] = x
<1>1. x # None /\ h \in Heap /\ h.st[i] = None /\ g.tb = h.tb
  BY MarksAssumption DEF Shaped, Grown
<1>2. g.st[i] = x /\ \A s \in Structure \ {i} : g.st[s] = h.st[s]
  BY <1>1 DEF Heap, Grown
<1>3. AliveIn(g) = AliveIn(h) \cup {i} /\ i \notin AliveIn(h)
  BY <1>1, <1>2 DEF AliveIn
<1>4. \A s \in AliveIn(h) : g.st[s] = h.st[s]
  BY <1>1, <1>2 DEF AliveIn
<1>5. Linked(g)
  <2> SUFFICES ASSUME NEW s \in AliveIn(g)
               PROVE  LET y == g.st[s] IN
                /\ y.owner # None =>
                    /\ y.owner \in AliveIn(g) /\ y.previous = None
                    /\ g.st[y.owner].owner = y.owner
                    /\ g.st[y.owner].unique = y.unique
                    /\ ~y.unique => y.owner = s
                /\ y.previous # None =>
                    /\ y.previous \in AliveIn(g)
                    /\ g.st[y.previous].unique => y.unique /\ g.st[y.previous].owner = None
                /\ y.owner = None \/ ~y.unique => y.deleted = <<>>
                /\ y.added # None => ~y.unique
    BY DEF Linked
  <2>1. CASE s = i
    BY <1>2, <1>3, <1>4, <2>1 DEF Joinable, StructureRecord
  <2>2. CASE s # i
    <3>1. s \in AliveIn(h) /\ g.st[s] = h.st[s]
      BY <1>3, <1>4, <2>2
    <3> QED
      BY <1>3, <1>4, <3>1 DEF Shaped, Linked
  <2> QED
    BY <2>1, <2>2
<1>6. Ranked(g)
  <2> DEFINE B == {s \in Structure : h.st[s] = None \/ h.st[s].previous = None}
             up == [s \in Structure |-> h.st[s].previous]
             A == {s \in Structure : g.st[s] = None \/ g.st[s].previous = None}
             onward == [s \in Structure |-> g.st[s].previous]
  <2>1. Chained(Structure, B, up)
    BY DEF Shaped, Ranked
  <2>2. \A t \in Structure : t \notin B => up[t] # i
    BY <1>3 DEF Shaped, Linked, AliveIn
  <2>3. \A t \in Structure \ {i} : t \notin A => t \notin B /\ onward[t] = up[t]
    BY <1>2
  <2>4. i \notin A => onward[i] \in Structure \ {i}
    BY <1>2, <1>3 DEF Joinable, AliveIn
  <2> HIDE DEF A, B, up, onward
  <2>5. Chained(Structure, A, onward)
    BY <2>1, <2>2, <2>3, <2>4, ChainedOnward
  <2> QED
    BY <2>5 DEF Ranked, A, onward
<1>7. Shaped(g)
  BY <1>5, <1>6 DEF Shaped, Grown
<1>8. \A s \in AliveIn(h) : Entries(g, s) = Entries(h, s)
  <2>1. \A s \in AliveIn(h) : Unmoved(h, g, AliveIn(h), s)
    BY <1>1, <1>4, EntriesStep DEF Shaped, Linked, Unmoved
  <2> QED
    BY <1>3, <1>7, <2>1, SameEntries
<1>9. ASSUME NEW s \in AliveIn(h) PROVE SlotsSize(g, s) = SlotsSize(h, s)
  <2>1. s \in AliveIn(g) /\ g.st[s] = h.st[s] /\ Entries(g, s) = Entries(h, s)
    BY <1>3, <1>4, <1>8
  <2> QED
    BY <1>7, <2>1, SameSize
<1> QED
  BY <1>2, <1>3, <1>4, <1>7, <1>8, <1>9 DEF Same

\* The entries, the deleted offsets and the size of structure s fit together:
\* a slot below the size for every entry and every deleted offset, none twice.
Layout(h, s) ==
    LET E == Entries(h, s)
        D == h.st[s].deleted
    IN  /\ SlotsSize(h, s) = Cardinality(DOMAIN E) + Len(D)
        /\ \A m, n \in DOMAIN E : E[m].offset = E[n].offset => m = n
        /\ \A n \in DOMAIN E : E[n].offset < SlotsSize(h, s)
        /\ \A j, k \in DOMAIN D : D[j] = D[k] => j = k
        /\ \A k \in DOMAIN D : D[k] < SlotsSize(h, s) /\ \A n \in DOMAIN E : E[n].offset # D[k]

LEMMA LayoutSame ==
    ASSUME NEW h, NEW g, NEW s, Layout(h, s), Same(h, g, s)
    PROVE  Layout(g, s)
BY DEF Layout, Same

\* A unique structure is not before any other.
Private(h, s) == h.st[s].unique => \A t \in AliveIn(h) : h.st[t].previous # s

\* The structure x with its own table, x being s, and with other deleted offsets.
Tabled(x, s) == [x EXCEPT !.owner = s, !.previous = None]
WithDeleted(x, D) == [x EXCEPT !.deleted = D]

LEMMA TabledFields ==
    ASSUME NEW x \in StructureRecord, NEW s \in Structure
    PROVE  LET y == Tabled(x, s) IN
           /\ y \in StructureRecord
           /\ y.owner = s /\ y.previous = None /\ y.unique = x.unique
           /\ y.proto = x.proto /\ y.deleted = x.deleted /\ y.added = x.added
BY DEF StructureRecord, Tabled

LEMMA WithDeletedFields ==
    ASSUME NEW x \in StructureRecord, NEW D \in Seq(Nat)
    PROVE  LET y == WithDeleted(x, D) IN
           /\ y \in StructureRecord
           /\ y.deleted = D /\ y.owner = x.owner /\ y.previous = x.previous
           /\ y.unique = x.unique /\ y.proto = x.proto /\ y.added = x.added
BY DEF StructureRecord, WithDeleted

\* Building tables changes no structure for the objects.
LEMMA Allocated ==
    ASSUME NEW h, Shaped(h), NEW S, S \subseteq AliveIn(h),
           \A s \in S : h.st[s].owner = None /\ Layout(h, s) /\ Private(h, s)
    PROVE  LET g == AllocateTables(h, S) IN
           /\ Shaped(g) /\ AliveIn(g) = AliveIn(h) /\ g.tr = h.tr
           /\ \A s \in AliveIn(h) :
                /\ Same(h, g, s)
                /\ g.st[s] = IF s \in S THEN Tabled(h.st[s], s) ELSE h.st[s]
<1> DEFINE g == AllocateTables(h, S)
<1>1. h \in Heap /\ S \subseteq Structure
  BY DEF Shaped, AliveIn
<1> DEFINE F == [s \in Structure |->
                    IF s \in S THEN Tabled(h.st[s], s) ELSE h.st[s]]
           G == [s \in Structure |-> IF s \in S THEN Entries(h, s) ELSE h.tb[s]]
<1>2. g = [st |-> F, tb |-> G, tr |-> h.tr]
  <2>1. h = [st |-> h.st, tb |-> h.tb, tr |-> h.tr]
    BY <1>1 DEF Heap
  <2>2. g = [h EXCEPT !.st = F, !.tb = G]
    BY DEF AllocateTables, Tabled
  <2> HIDE DEF F, G, g
  <2> QED
    BY <2>1, <2>2
<1> HIDE DEF g
<1>a. g.st = F /\ g.tb = G /\ g.tr = h.tr
  <2> HIDE DEF F, G
  <2> QED
    BY <1>2
<1>3. \A s \in AliveIn(h) : h.st[s] \in StructureRecord /\ s \in Structure
  BY <1>1 DEF Heap, AliveIn
<1>4. /\ \A s \in S : /\ g.st[s] \in StructureRecord
                      /\ g.st[s].owner = s /\ g.st[s].previous = None
                      /\ g.st[s].unique = h.st[s].unique /\ g.st[s].proto = h.st[s].proto
                      /\ g.st[s].deleted = h.st[s].deleted /\ g.st[s].added = h.st[s].added
                      /\ g.tb[s] = Entries(h, s)
      /\ \A s \in Structure \ S : g.st[s] = h.st[s] /\ g.tb[s] = h.tb[s]
  <2>1. ASSUME NEW s \in S
        PROVE /\ g.st[s] \in StructureRecord
              /\ g.st[s].owner = s /\ g.st[s].previous = None
              /\ g.st[s].unique = h.st[s].unique /\ g.st[s].proto = h.st[s].proto
              /\ g.st[s].deleted = h.st[s].deleted /\ g.st[s].added = h.st[s].added
              /\ g.tb[s] = Entries(h, s)
    <3>1. g.st[s] = Tabled(h.st[s], s) /\ g.tb[s] = Entries(h, s)
      BY <1>1, <1>a
    <3>2. h.st[s] \in StructureRecord /\ s \in Structure
      BY <1>3
    <3> QED
      BY <3>1, <3>2, TabledFields
  <2>2. \A s \in Structure \ S : g.st[s] = h.st[s] /\ g.tb[s] = h.tb[s]
    BY <1>a
  <2> QED
    BY <2>1, <2>2
<1>5. g \in Heap
  <2>1. g.st \in [Structure -> StructureRecord \cup {None}]
    <3>1. \A s \in Structure : g.st[s] \in StructureRecord \cup {None}
      BY <1>1, <1>4 DEF Heap
    <3>2. g.st = [s \in Structure |-> g.st[s]]
      BY <1>a
    <3> QED
      BY <3>1, <3>2
  <2>2. g.tb \in [Structure -> Maps]
    <3>1. \A s \in Structure : g.tb[s] \in Maps
      BY <1>1, <1>4, EntriesStep DEF Heap
    <3>2. g.tb = [s \in Structure |-> g.tb[s]]
      BY <1>a
    <3> QED
      BY <3>1, <3>2
  <2>3. g = [st |-> g.st, tb |-> g.tb, tr |-> g.tr] /\ g.tr = h.tr
    BY <1>2, <1>a
  <2> QED
    BY <1>1, <2>1, <2>2, <2>3 DEF Heap
<1>6. AliveIn(g) = AliveIn(h)
  <2>1. \A s \in S : g.st[s] # None /\ h.st[s] # None
    BY <1>3, <1>4, MarksAssumption
  <2> QED
    BY <1>1, <1>4, <2>1 DEF AliveIn
<1>7. Linked(g)
  <2>1. \A s \in AliveIn(h) : h.st[s].owner # None => h.st[s].owner \in Structure \ S
    BY <1>3 DEF Shaped, Linked, AliveIn
  <2>2. \A s \in AliveIn(h) \ S : \A p \in S : h.st[s].previous = p => ~h.st[p].unique
    BY DEF Private
  <2> SUFFICES ASSUME NEW s \in AliveIn(h)
               PROVE  LET y == g.st[s] IN
                /\ y.owner # None =>
                    /\ y.owner \in AliveIn(h) /\ y.previous = None
                    /\ g.st[y.owner].owner = y.owner
                    /\ g.st[y.owner].unique = y.unique
                    /\ ~y.unique => y.owner = s
                /\ y.previous # None =>
                    /\ y.previous \in AliveIn(h)
                    /\ g.st[y.previous].unique => y.unique /\ g.st[y.previous].owner = None
                /\ y.owner = None \/ ~y.unique => y.deleted = <<>>
                /\ y.added # None => ~y.unique
    BY <1>6 DEF Linked
  <2>3. CASE s \in S
    BY <1>4, <2>3 DEF Shaped, Linked
  <2>4. CASE s \notin S
    <3>1. g.st[s] = h.st[s]
      BY <1>3, <1>4, <2>4
    <3>2. h.st[s].owner # None => g.st[h.st[s].owner] = h.st[h.st[s].owner]
      BY <1>4, <2>1
    <3>3. h.st[s].previous # None =>
            /\ h.st[s].previous \in AliveIn(h)
            /\ g.st[h.st[s].previous].unique => h.st[s].unique /\ g.st[h.st[s].previous].owner = None
      <4>1. CASE h.st[s].previous \in S
        BY <1>4, <2>2, <2>4, <4>1
      <4>2. CASE h.st[s].previous \notin S
        BY <1>3, <1>4, <4>2 DEF Shaped, Linked
      <4> QED
        BY <4>1, <4>2
    <3> QED
      BY <3>1, <3>2, <3>3 DEF Shaped, Linked
  <2> QED
    BY <2>3, <2>4
<1>8. Ranked(g)
  <2> DEFINE B == {s \in Structure : h.st[s] = None \/ h.st[s].previous = None}
             up == [s \in Structure |-> h.st[s].previous]
             A == {s \in Structure : g.st[s] = None \/ g.st[s].previous = None}
             onward == [s \in Structure |-> g.st[s].previous]
  <2>1. Chained(Structure, B, up)
    BY DEF Shaped, Ranked
  <2>2. \A t \in Structure : t \notin A => t \notin B /\ onward[t] = up[t]
    BY <1>4
  <2> HIDE DEF A, B, up, onward
  <2>3. Chained(Structure, A, onward)
    BY <2>1, <2>2, ChainedShorter
  <2> QED
    BY <2>3 DEF Ranked, A, onward
<1>9. Shaped(g)
  BY <1>5, <1>7, <1>8 DEF Shaped
<1>10. \A s \in AliveIn(h) : Entries(g, s) = Entries(h, s)
  <2>1. ASSUME NEW s \in AliveIn(h) PROVE Unmoved(h, g, AliveIn(h), s)
    <3>1. CASE s \in S
      BY <1>3, <1>4, <3>1, MarksAssumption DEF Unmoved
    <3>2. CASE s \notin S
      <4>1. g.st[s] = h.st[s]
        BY <1>3, <1>4, <3>2
      <4>2. CASE h.st[s].owner # None
        <5>1. h.st[s].owner \in Structure \ S
          BY <1>3, <4>2 DEF Shaped, Linked, AliveIn
        <5> QED
          BY <1>4, <4>1, <4>2, <5>1, EntriesStep DEF Unmoved
      <4>3. CASE h.st[s].owner = None
        BY <4>1, <4>3 DEF Unmoved, Shaped, Linked
      <4> QED
        BY <4>2, <4>3
    <3> QED
      BY <3>1, <3>2
  <2> QED
    BY <1>6, <1>9, <2>1, SameEntries
<1>11. ASSUME NEW s \in AliveIn(h) PROVE Same(h, g, s)
  <2>1. CASE s \in S
    <3>1. SlotsSize(g, s) = Cardinality(DOMAIN Entries(g, s)) + Len(g.st[s].deleted)
      <4>1. g.st[s].owner # None /\ s \in AliveIn(g)
        BY <1>3, <1>4, <1>6, <2>1, MarksAssumption
      <4> QED
        BY <1>9, <4>1, SlotsSizeStep
    <3>2. SlotsSize(h, s) = Cardinality(DOMAIN Entries(h, s)) + Len(h.st[s].deleted)
      BY <2>1 DEF Layout
    <3>3. SlotsSize(g, s) = SlotsSize(h, s)
      BY <1>4, <1>10, <2>1, <3>1, <3>2
    <3> QED
      BY <1>4, <1>10, <2>1, <3>3 DEF Same
  <2>2. CASE s \notin S
    <3>1. g.st[s] = h.st[s]
      BY <1>3, <1>4, <2>2
    <3>2. SlotsSize(g, s) = SlotsSize(h, s)
      BY <1>6, <1>9, <1>10, <3>1, SameSize
    <3> QED
      BY <1>10, <3>1, <3>2 DEF Same
  <2> QED
    BY <2>1, <2>2
<1>12. \A s \in AliveIn(h) :
        g.st[s] = IF s \in S THEN Tabled(h.st[s], s) ELSE h.st[s]
  BY <1>a, <1>3
<1> QED
  BY <1>a, <1>6, <1>9, <1>11, <1>12 DEF g

\* In the heap g, i has the table m and the deleted offsets D.
Changed(h, g, i, m, D) ==
    /\ g \in Heap
    /\ g.tb = [h.tb EXCEPT ![h.st[i].owner] = m]
    /\ g.st = [h.st EXCEPT ![i] = WithDeleted(h.st[i], D)]

\* A change of the table of the unique structure i is seen by structures with
\* that table only.
LEMMA TableChanged ==
    ASSUME NEW h, NEW g, Shaped(h), NEW i \in AliveIn(h),
           h.st[i].unique, h.st[i].owner # None,
           NEW m \in Maps, NEW D \in Seq(Nat), Changed(h, g, i, m, D)
    PROVE  /\ Shaped(g) /\ AliveIn(g) = AliveIn(h)
           /\ \A s \in AliveIn(h) : h.st[s].owner # h.st[i].owner => Same(h, g, s)
           /\ \A s \in AliveIn(h) : s # i => g.st[s] = h.st[s]
           /\ g.st[i] = WithDeleted(h.st[i], D)
           /\ Entries(g, i) = m
<1> DEFINE k == h.st[i].owner
<1>1. /\ h \in Heap /\ i \in Structure /\ h.st[i] \in StructureRecord
      /\ k \in AliveIn(h) /\ k \in Structure /\ h.st[k].unique /\ h.st[k].owner = k
  BY DEF Shaped, Heap, AliveIn, Linked
<1>2. /\ g.st[i] = WithDeleted(h.st[i], D)
      /\ g.st[i] \in StructureRecord
      /\ g.st[i].deleted = D /\ g.st[i].unique = h.st[i].unique /\ g.st[i].owner = k
      /\ g.st[i].previous = h.st[i].previous /\ g.st[i].added = h.st[i].added
      /\ g.st[i].proto = h.st[i].proto
      /\ \A s \in Structure \ {i} : g.st[s] = h.st[s]
  <2>1. g.st[i] = WithDeleted(h.st[i], D) /\ \A s \in Structure \ {i} : g.st[s] = h.st[s]
    BY <1>1 DEF Heap, Changed
  <2>2. /\ WithDeleted(h.st[i], D) \in StructureRecord
        /\ WithDeleted(h.st[i], D).deleted = D
        /\ WithDeleted(h.st[i], D).owner = h.st[i].owner
        /\ WithDeleted(h.st[i], D).previous = h.st[i].previous
        /\ WithDeleted(h.st[i], D).unique = h.st[i].unique
        /\ WithDeleted(h.st[i], D).proto = h.st[i].proto
        /\ WithDeleted(h.st[i], D).added = h.st[i].added
    BY <1>1, WithDeletedFields, Zenon
  <2> QED
    BY <1>1, <2>1, <2>2
<1>3. g.tb[k] = m /\ \A s \in Structure \ {k} : g.tb[s] = h.tb[s]
  BY <1>1 DEF Heap, Changed
<1>4. AliveIn(g) = AliveIn(h)
  BY <1>1, <1>2, MarksAssumption DEF AliveIn
<1>5. \A s \in AliveIn(h) : /\ g.st[s].unique = h.st[s].unique
                            /\ g.st[s].owner = h.st[s].owner
                            /\ g.st[s].previous = h.st[s].previous
                            /\ g.st[s].added = h.st[s].added
                            /\ s # i => g.st[s] = h.st[s]
  BY <1>2 DEF AliveIn
<1>6. Linked(g)
  <2> SUFFICES ASSUME NEW s \in AliveIn(h)
               PROVE  LET y == g.st[s] IN
                /\ y.owner # None =>
                    /\ y.owner \in AliveIn(h) /\ y.previous = None
                    /\ g.st[y.owner].owner = y.owner
                    /\ g.st[y.owner].unique = y.unique
                    /\ ~y.unique => y.owner = s
                /\ y.previous # None =>
                    /\ y.previous \in AliveIn(h)
                    /\ g.st[y.previous].unique => y.unique /\ g.st[y.previous].owner = None
                /\ y.owner = None \/ ~y.unique => y.deleted = <<>>
                /\ y.added # None => ~y.unique
    BY <1>4 DEF Linked
  <2> QED
    BY <1>1, <1>5 DEF Shaped, Linked
<1>7. Ranked(g)
  <2> DEFINE B == {s \in Structure : h.st[s] = None \/ h.st[s].previous = None}
             up == [s \in Structure |-> h.st[s].previous]
             A == {s \in Structure : g.st[s] = None \/ g.st[s].previous = None}
             onward == [s \in Structure |-> g.st[s].previous]
  <2>1. Chained(Structure, B, up)
    BY DEF Shaped, Ranked
  <2>2. \A t \in Structure : t \notin A => t \notin B /\ onward[t] = up[t]
    BY <1>4, <1>5 DEF AliveIn
  <2> HIDE DEF A, B, up, onward
  <2>3. Chained(Structure, A, onward)
    BY <2>1, <2>2, ChainedShorter
  <2> QED
    BY <2>3 DEF Ranked, A, onward
<1>8. Shaped(g)
  BY <1>6, <1>7 DEF Shaped, Changed
<1> DEFINE T == {s \in AliveIn(h) : h.st[s].owner # k}
<1>9. \A s \in T : Entries(g, s) = Entries(h, s)
  <2>1. ASSUME NEW s \in T PROVE Unmoved(h, g, T, s)
    <3>1. CASE h.st[s].owner # None
      <4>1. h.st[s].owner \in Structure \ {k}
        BY <3>1 DEF Shaped, Linked, AliveIn
      <4> QED
        BY <1>3, <1>5, <3>1, <4>1, EntriesStep DEF Unmoved
    <3>2. CASE h.st[s].owner = None
      <4>1. h.st[s].previous # None => h.st[s].previous \in T
        BY <1>1, <3>2 DEF Shaped, Linked
      <4> QED
        BY <1>5, <3>2, <4>1 DEF Unmoved
    <3> QED
      BY <3>1, <3>2
  <2>2. T \subseteq AliveIn(h) /\ T \subseteq AliveIn(g)
    BY <1>4
  <2> HIDE DEF T
  <2> QED
    BY <1>8, <2>1, <2>2, SameEntries
<1>10. ASSUME NEW s \in T PROVE Same(h, g, s)
  <2>1. s \in AliveIn(h) /\ s \in AliveIn(g) /\ g.st[s] = h.st[s]
    BY <1>4, <1>5
  <2>2. Entries(g, s) = Entries(h, s)
    BY <1>9
  <2>3. SlotsSize(g, s) = SlotsSize(h, s)
    <3> HIDE DEF T
    <3> QED
      BY <1>8, <2>1, <2>2, SameSize
  <2> QED
    BY <2>1, <2>2, <2>3 DEF Same
<1>11. Entries(g, i) = m
  <2>1. i \in AliveIn(g) /\ g.st[i].owner # None /\ g.tb[g.st[i].owner] = m
    BY <1>2, <1>3, <1>4
  <2> QED
    BY <1>8, <2>1, EntriesStep
<1> QED
  BY <1>2, <1>4, <1>5, <1>8, <1>10, <1>11

-----------------------------------------------------------------------------
(* Sound heaps.                                                             *)

\* The transition of s for the property and attributes in k leads to i.
Leads(h, s, k, i) ==
    /\ {s, i} \subseteq AliveIn(h) /\ ~h.st[s].unique /\ ~h.st[i].unique
    /\ h.st[i].proto = h.st[s].proto
    /\ k[1] \notin DOMAIN Entries(h, s)
    /\ Entries(h, i) = Bind(Entries(h, s), k[1], Entry(Cardinality(DOMAIN Entries(h, s)), k[2]))

HeapSound(h) ==
    /\ Shaped(h)
    /\ \A s \in {empty_object_struct, function_struct} : h.st[s] = Root(FALSE, NoObject)
    /\ \A s \in AliveIn(h) : ~h.st[s].unique => Layout(h, s)
    /\ \A s \in Structure : \A k \in DOMAIN h.tr[s] : Leads(h, s, k, h.tr[s][k])

\* The heap g comes from h by what leaves shared structures as they are.
Follows(h, g) ==
    /\ Shaped(g)
    /\ \A s \in {empty_object_struct, function_struct} : g.st[s] = h.st[s]
    /\ \A s \in AliveIn(h) \cap AliveIn(g) : ~h.st[s].unique => Same(h, g, s)
    /\ \A s \in AliveIn(g) :
        g.st[s].unique \/ Layout(g, s) \/ (s \in AliveIn(h) /\ ~h.st[s].unique)
    /\ \A s \in Structure : \A k \in DOMAIN g.tr[s] :
        \/ Leads(g, s, k, g.tr[s][k])
        \/ /\ k \in DOMAIN h.tr[s] /\ g.tr[s][k] = h.tr[s][k]
           /\ {s, g.tr[s][k]} \subseteq AliveIn(g)

LEMMA FollowsSound ==
    ASSUME NEW h, NEW g, HeapSound(h), Follows(h, g)
    PROVE  HeapSound(g)
<1>1. ASSUME NEW s \in AliveIn(g), ~g.st[s].unique PROVE Layout(g, s)
  BY <1>1, LayoutSame DEF HeapSound, Follows
<1>2. ASSUME NEW s \in Structure, NEW k \in DOMAIN g.tr[s]
      PROVE  Leads(g, s, k, g.tr[s][k])
  <2> DEFINE i == g.tr[s][k]
  <2> SUFFICES ASSUME k \in DOMAIN h.tr[s], i = h.tr[s][k], {s, i} \subseteq AliveIn(g)
               PROVE  Leads(g, s, k, i)
    BY DEF Follows
  <2>1. Leads(h, s, k, i)
    BY DEF HeapSound
  <2>2. Same(h, g, s) /\ Same(h, g, i)
    BY <2>1 DEF Leads, Follows
  <2> HIDE DEF i
  <2> QED
    BY <2>1, <2>2 DEF Leads, Same
<1> QED
  BY <1>1, <1>2 DEF HeapSound, Follows

\* For an object, structure s stays what it is in the heap g, but for a table
\* of its own that it may get.
Stays(h, g, s) ==
    /\ s \in AliveIn(h) /\ s \in AliveIn(g) /\ Same(h, g, s)
    /\ g.st[s].owner = h.st[s].owner \/ (h.st[s].owner = None /\ g.st[s].owner = s)
    /\ Private(h, s) => Private(g, s)

\* Neither s nor t may change under the other: they are shared, or different
\* and without a common table.
Separate(h, s, t) ==
    h.st[s].unique \/ h.st[t].unique =>
        s # t /\ (h.st[s].owner = h.st[t].owner => h.st[s].owner = None)

LEMMA StaySeparate ==
    ASSUME NEW h, NEW g, Shaped(h), NEW s, NEW t, Stays(h, g, s), Stays(h, g, t),
           Separate(h, s, t)
    PROVE  Separate(g, s, t)
<1> SUFFICES ASSUME g.st[s].unique \/ g.st[t].unique
             PROVE  s # t /\ (g.st[s].owner = g.st[t].owner => g.st[s].owner = None)
  BY DEF Separate
<1>1. s # t /\ (h.st[s].owner = h.st[t].owner => h.st[s].owner = None)
  BY DEF Separate, Stays, Same
<1>2. /\ h.st[s].owner = t => h.st[t].owner = t
      /\ h.st[t].owner = s => h.st[s].owner = s
  BY MarksAssumption DEF Stays, Shaped, Linked, AliveIn
<1>3. s # None /\ t # None
  BY MarksAssumption DEF Stays, AliveIn
<1> QED
  BY <1>1, <1>2, <1>3 DEF Stays

\* A shared structure is separate from every other, and from itself.
LEMMA SharedSeparate ==
    ASSUME NEW h, Shaped(h), NEW s \in AliveIn(h), NEW t \in AliveIn(h), ~h.st[s].unique
    PROVE  Separate(h, s, t) /\ Separate(h, t, s)
<1> SUFFICES ASSUME h.st[t].unique
             PROVE  s # t /\ (h.st[s].owner = h.st[t].owner => h.st[s].owner = None /\ h.st[t].owner = None)
  BY DEF Separate
<1> QED
  BY DEF Shaped, Linked

-----------------------------------------------------------------------------
(* Sound objects and caches.                                                *)

ExistsIn(ob, o) == ob[o].structure # None
CurrentIn(ob, v) == v \in Objects => ExistsIn(ob, v)

\* The prototype of structure s exists.
ProtoIn(h, ob, s) ==
    h.st[s].proto # NoObject => h.st[s].proto \in Objects /\ ExistsIn(ob, h.st[s].proto)

Cell(s, e, c, slots) ==
    [structure |-> s, extensible |-> e, construct_struct |-> c, slots |-> slots]

\* The slots of an object of structure s.
SlotsSound(h, s, slots) ==
    /\ \A j \in Nat : j < SlotsSize(h, s) => j \in DOMAIN slots
    /\ \A n \in DOMAIN Entries(h, s) : InSlot(Entries(h, s)[n], slots) \in StoredSlot

\* What func_construct_map keeps.
ConstructSound(h, ob, c) ==
    c # None =>
        /\ c \in AliveIn(h) /\ ~h.st[c].unique /\ Entries(h, c) = EmptyMap
        /\ ProtoIn(h, ob, c)

\* A structure that an object may have.
HolderSound(h, ob, s) ==
    s \in AliveIn(h) /\ Layout(h, s) /\ Private(h, s) /\ ProtoIn(h, ob, s)

RecordSound(h, ob, x) ==
    /\ x = Cell(x.structure, x.extensible, x.construct_struct, x.slots)
    /\ x.extensible \in BOOLEAN
    /\ HolderSound(h, ob, x.structure)
    /\ SlotsSound(h, x.structure, x.slots)
    /\ ConstructSound(h, ob, x.construct_struct)

\* The prototype property of a function stays a data property that cannot be
\* deleted.
FunctionFits(h, E, ob, x) ==
    LET v == x.slots[E[Prototype].offset] IN
    /\ Prototype \in DOMAIN E /\ E[Prototype].kind = "data" /\ "C" \notin E[Prototype].on
    /\ CurrentIn(ob, v)

FunctionSound(h, ob, x) == FunctionFits(h, Entries(h, x.structure), ob, x)

ObjectSound(h, ob, o) ==
    RecordSound(h, ob, ob[o]) /\ (o \in Constructors => FunctionSound(h, ob, ob[o]))

\* The chains of prototypes end.
ProtosEnd(h, ob) ==
    Chained(Objects,
            {q \in Objects : ob[q].structure = None \/ h.st[ob[q].structure].proto = NoObject},
            [q \in Objects |-> h.st[ob[q].structure].proto])

Apart(h, ob, o) ==
    \A q \in Objects \ {o} : ExistsIn(ob, q) => Separate(h, ob[o].structure, ob[q].structure)

ObjectsSound(h, ob) ==
    /\ ob = [o \in Objects |-> ob[o]]
    /\ \A o \in Objects : ExistsIn(ob, o) => ObjectSound(h, ob, o) /\ Apart(h, ob, o)
    /\ ProtosEnd(h, ob)

\* An object has s or may get it.
InUse(h, ob, s) == ~h.st[s].unique \/ \E o \in Objects : ob[o].structure = s

\* The feedback e of a get site, that of a put site, for the name n.
GetSound(h, ob, n, e) ==
    e # None =>
        /\ e \in GetEntry /\ e.structure \in AliveIn(h)
        /\ e.mode = "Default" /\ InUse(h, ob, e.structure) =>
            LET E == Entries(h, e.structure) IN
            n \in DOMAIN E /\ E[n].kind = "data" /\ E[n].offset = e.offset

PutSound(h, ob, n, e) ==
    e # None =>
        /\ n \in Sites /\ e \in PutEntry /\ e.structure \in AliveIn(h)
        /\ InUse(h, ob, e.structure) =>
            LET E == Entries(h, e.structure) IN
            n \in DOMAIN E /\ E[n].kind = "data" /\ "W" \in E[n].on /\ E[n].offset = e.offset

CachesSound(h, ob, gic, pic) ==
    /\ gic = [n \in Names |-> gic[n]] /\ pic = [n \in Names |-> pic[n]]
    /\ \A n \in Names : GetSound(h, ob, n, gic[n]) /\ PutSound(h, ob, n, pic[n])

Sound(h, ob, gic, pic) == HeapSound(h) /\ ObjectsSound(h, ob) /\ CachesSound(h, ob, gic, pic)

\* An object as a program sees it, and all of them.
Viewed(proto, e, E, slots) ==
    [proto |-> proto, extensible |-> e, props |-> [n \in DOMAIN E |-> InSlot(E[n], slots)]]

View(h, x) ==
    Viewed(h.st[x.structure].proto, x.extensible, Entries(h, x.structure), x.slots)

SeenIn(h, ob) == [o \in Objects |-> IF ExistsIn(ob, o) THEN View(h, ob[o]) ELSE NoObject]

\* What a step of the engine does to the objects that it does not change, and
\* what must hold of those in O.
Carries(h, g, ob, new, O) ==
    /\ new = [o \in Objects |-> new[o]]
    /\ \A p \in Objects : ExistsIn(ob, p) => ExistsIn(new, p)
    /\ \A p \in Objects \ O :
        /\ new[p] = ob[p]
        /\ ExistsIn(ob, p) => /\ Stays(h, g, ob[p].structure)
                              /\ ob[p].construct_struct # None => Stays(h, g, ob[p].construct_struct)
    /\ \A p \in O : ObjectSound(g, new, p) /\ Apart(g, new, p)
    /\ ProtosEnd(g, new)

LEMMA SeparateBoth ==
    ASSUME NEW h, NEW s, NEW t, Separate(h, s, t)
    PROVE  Separate(h, t, s)
BY DEF Separate

LEMMA StayingHolder ==
    ASSUME NEW h, NEW g, NEW ob, NEW new, \A p \in Objects : ExistsIn(ob, p) => ExistsIn(new, p),
           NEW s, Stays(h, g, s), HolderSound(h, ob, s)
    PROVE  HolderSound(g, new, s)
<1>1. Layout(g, s)
  BY LayoutSame DEF HolderSound, Stays
<1> QED
  BY <1>1 DEF HolderSound, Stays, ProtoIn, Same

LEMMA StayingObject ==
    ASSUME NEW h, NEW g, NEW ob, NEW new, \A p \in Objects : ExistsIn(ob, p) => ExistsIn(new, p),
           NEW o, new[o] = ob[o], ObjectSound(h, ob, o), Stays(h, g, ob[o].structure),
           ob[o].construct_struct # None => Stays(h, g, ob[o].construct_struct)
    PROVE  ObjectSound(g, new, o)
<1> DEFINE x == ob[o]
<1>1. HolderSound(g, new, x.structure)
  BY StayingHolder DEF ObjectSound, RecordSound
<1>2. SlotsSound(g, x.structure, x.slots)
  BY DEF ObjectSound, RecordSound, SlotsSound, Stays, Same
<1>3. ConstructSound(g, new, x.construct_struct)
  BY DEF ObjectSound, RecordSound, ConstructSound, ProtoIn, Stays, Same
<1>4. FunctionSound(h, ob, x) => FunctionSound(g, new, x)
  BY DEF FunctionSound, FunctionFits, Stays, Same, CurrentIn
<1> QED
  BY <1>1, <1>2, <1>3, <1>4 DEF ObjectSound, RecordSound

LEMMA Carried ==
    ASSUME NEW h, NEW g, NEW ob, NEW new, NEW O, HeapSound(h), ObjectsSound(h, ob),
           Carries(h, g, ob, new, O)
    PROVE  ObjectsSound(g, new)
<1>1. ASSUME NEW o \in Objects, ExistsIn(new, o) PROVE ObjectSound(g, new, o)
  <2>1. CASE o \in O
    BY <2>1 DEF Carries
  <2>2. CASE o \notin O
    <3>1. new[o] = ob[o] /\ ExistsIn(ob, o) /\ ObjectSound(h, ob, o)
      BY <1>1, <2>2 DEF Carries, ExistsIn, ObjectsSound
    <3> QED
      BY <2>2, <3>1, StayingObject DEF Carries
  <2> QED
    BY <2>1, <2>2
<1>2. ASSUME NEW o \in Objects, ExistsIn(new, o), NEW q \in Objects \ {o}, ExistsIn(new, q)
      PROVE  Separate(g, new[o].structure, new[q].structure)
  <2>1. CASE o \in O
    BY <1>2, <2>1 DEF Carries, Apart
  <2>2. CASE q \in O
    BY <1>2, <2>2, SeparateBoth DEF Carries, Apart
  <2>3. CASE o \notin O /\ q \notin O
    <3>1. /\ new[o] = ob[o] /\ ExistsIn(ob, o) /\ new[q] = ob[q] /\ ExistsIn(ob, q)
          /\ Stays(h, g, ob[o].structure) /\ Stays(h, g, ob[q].structure)
      BY <1>2, <2>3 DEF Carries, ExistsIn
    <3>2. Separate(h, ob[o].structure, ob[q].structure)
      BY <1>2, <3>1 DEF ObjectsSound, Apart
    <3>3. Shaped(h)
      BY DEF HeapSound
    <3> QED
      BY <3>1, <3>2, <3>3, StaySeparate
  <2> QED
    BY <2>1, <2>2, <2>3
<1> QED
  BY <1>1, <1>2 DEF ObjectsSound, Carries, Apart

\* The chains of prototypes end as before when no object has another prototype.
LEMMA ProtosStay ==
    ASSUME NEW h, NEW g, NEW ob, NEW new, ProtosEnd(h, ob),
           \A q \in Objects : ExistsIn(new, q) =>
                ExistsIn(ob, q) /\ g.st[new[q].structure].proto = h.st[ob[q].structure].proto
    PROVE  ProtosEnd(g, new)
<1> DEFINE B == {q \in Objects : ob[q].structure = None \/ h.st[ob[q].structure].proto = NoObject}
           up == [q \in Objects |-> h.st[ob[q].structure].proto]
           A == {q \in Objects : new[q].structure = None \/ g.st[new[q].structure].proto = NoObject}
           onward == [q \in Objects |-> g.st[new[q].structure].proto]
<1>1. Chained(Objects, B, up)
  BY DEF ProtosEnd
<1>2. \A q \in Objects : q \notin A => q \notin B /\ onward[q] = up[q]
  BY DEF ExistsIn
<1> HIDE DEF A, B, up, onward
<1>3. Chained(Objects, A, onward)
  BY <1>1, <1>2, ChainedShorter
<1> QED
  BY <1>3 DEF ProtosEnd, A, onward

\* They do when an object is created whose prototype exists.
LEMMA ProtosCreate ==
    ASSUME NEW h, NEW g, NEW ob, NEW new, ProtosEnd(h, ob), NEW o \in Objects,
           ~ExistsIn(ob, o),
           \A q \in Objects : ExistsIn(ob, q) => ProtoIn(h, ob, ob[q].structure),
           \A q \in Objects \ {o} : ExistsIn(new, q) =>
                ExistsIn(ob, q) /\ g.st[new[q].structure].proto = h.st[ob[q].structure].proto,
           ProtoIn(g, ob, new[o].structure)
    PROVE  ProtosEnd(g, new)
<1> DEFINE B == {q \in Objects : ob[q].structure = None \/ h.st[ob[q].structure].proto = NoObject}
           up == [q \in Objects |-> h.st[ob[q].structure].proto]
           A == {q \in Objects : new[q].structure = None \/ g.st[new[q].structure].proto = NoObject}
           onward == [q \in Objects |-> g.st[new[q].structure].proto]
<1>1. Chained(Objects, B, up)
  BY DEF ProtosEnd
<1>2. \A q \in Objects \ {o} : q \notin A => q \notin B /\ onward[q] = up[q]
  BY DEF ExistsIn
<1>3. \A q \in Objects : q \notin B => up[q] # o
  BY DEF ExistsIn, ProtoIn
<1>4. o \notin A => onward[o] \in Objects \ {o}
  BY DEF ExistsIn, ProtoIn
<1> HIDE DEF A, B, up, onward
<1>5. Chained(Objects, A, onward)
  BY <1>1, <1>2, <1>3, <1>4, ChainedOnward
<1> QED
  BY <1>5 DEF ProtosEnd, A, onward

Cached(gic, pic, s) ==
    \E n \in Names : (gic[n] # None /\ gic[n].structure = s) \/ (pic[n] # None /\ pic[n].structure = s)

Extends(h, g, s) ==
    \A n \in DOMAIN Entries(h, s) :
        n \in DOMAIN Entries(g, s) /\ Entries(g, s)[n] = Entries(h, s)[n]

\* A cached structure is not in use, or has the entries that it had.
CacheStays(h, g, ob, new, s) ==
    s \in AliveIn(g) /\ (InUse(g, new, s) => InUse(h, ob, s) /\ Extends(h, g, s))

LEMMA CachesCarried ==
    ASSUME NEW h, NEW g, NEW ob, NEW new, NEW gic, NEW pic, CachesSound(h, ob, gic, pic),
           \A s \in AliveIn(h) : Cached(gic, pic, s) => CacheStays(h, g, ob, new, s)
    PROVE  CachesSound(g, new, gic, pic)
<1> SUFFICES ASSUME NEW n \in Names
             PROVE  GetSound(g, new, n, gic[n]) /\ PutSound(g, new, n, pic[n])
  BY DEF CachesSound
<1>1. GetSound(h, ob, n, gic[n]) /\ PutSound(h, ob, n, pic[n])
  BY DEF CachesSound
<1>2. GetSound(g, new, n, gic[n])
  <2> SUFFICES ASSUME gic[n] # None PROVE GetSound(g, new, n, gic[n])
    BY DEF GetSound
  <2>1. CacheStays(h, g, ob, new, gic[n].structure)
    BY <1>1 DEF GetSound, Cached
  <2> QED
    BY <1>1, <2>1 DEF GetSound, CacheStays, Extends
<1>3. PutSound(g, new, n, pic[n])
  <2> SUFFICES ASSUME pic[n] # None PROVE PutSound(g, new, n, pic[n])
    BY DEF PutSound
  <2>1. CacheStays(h, g, ob, new, pic[n].structure)
    BY <1>1 DEF PutSound, Cached
  <2> QED
    BY <1>1, <2>1 DEF PutSound, CacheStays, Extends
<1> QED
  BY <1>2, <1>3

-----------------------------------------------------------------------------
(* A step may change the heap for no object, or for one.                    *)

AllStay(h, g) == HeapSound(g) /\ \A s \in AliveIn(h) : Stays(h, g, s)

LEMMA HeapChanged ==
    ASSUME NEW h, NEW g, NEW ob, NEW gic, NEW pic, Sound(h, ob, gic, pic), AllStay(h, g)
    PROVE  Sound(g, ob, gic, pic) /\ SeenIn(g, ob) = SeenIn(h, ob)
<1>1. \A p \in Objects : ExistsIn(ob, p) => RecordSound(h, ob, ob[p])
  BY DEF Sound, ObjectsSound, ObjectSound
<1>2. \A p \in Objects : ExistsIn(ob, p) =>
        /\ Stays(h, g, ob[p].structure)
        /\ ob[p].construct_struct # None => Stays(h, g, ob[p].construct_struct)
  BY <1>1 DEF AllStay, RecordSound, HolderSound, ConstructSound
<1>3. ProtosEnd(g, ob)
  <2>1. \A p \in Objects : ExistsIn(ob, p) =>
            g.st[ob[p].structure].proto = h.st[ob[p].structure].proto
    BY <1>2 DEF Stays, Same
  <2> QED
    BY <2>1, ProtosStay DEF Sound, ObjectsSound
<1>4. Carries(h, g, ob, ob, {})
  BY <1>2, <1>3 DEF Carries, Sound, ObjectsSound
<1>5. ObjectsSound(g, ob)
  BY <1>4, Carried DEF Sound
<1>6. CachesSound(g, ob, gic, pic)
  <2>1. \A s \in AliveIn(h) : CacheStays(h, g, ob, ob, s)
    BY DEF AllStay, CacheStays, Stays, Same, InUse, Extends
  <2> QED
    BY <2>1, CachesCarried DEF Sound
<1>7. SeenIn(g, ob) = SeenIn(h, ob)
  BY <1>2 DEF SeenIn, View, Stays, Same
<1> QED
  BY <1>5, <1>6, <1>7 DEF Sound, AllStay

With(f, o, y) == [f EXCEPT ![o] = y]

\* The object o becomes y, with a structure that none of the others notices.
Places(h, g, ob, gic, pic, o, y) ==
    /\ HeapSound(g)
    /\ RecordSound(g, ob, y) /\ (o \in Constructors => FunctionSound(g, ob, y))
    /\ \A s \in AliveIn(h) :
        ~h.st[s].unique \/ (\E q \in Objects \ {o} : ob[q].structure = s) =>
            Stays(h, g, s) /\ Separate(g, y.structure, s)
    /\ Cached(gic, pic, y.structure) =>
        InUse(h, ob, y.structure) /\ Extends(h, g, y.structure)
    /\ \A s \in AliveIn(h) : s \in AliveIn(g) /\ g.st[s].unique = h.st[s].unique
    /\ ExistsIn(ob, o) => g.st[y.structure].proto = h.st[ob[o].structure].proto

LEMMA Placed ==
    ASSUME NEW h, NEW g, NEW ob, NEW gic, NEW pic, Sound(h, ob, gic, pic),
           NEW o \in Objects, NEW y, Places(h, g, ob, gic, pic, o, y)
    PROVE  /\ Sound(g, With(ob, o, y), gic, pic)
           /\ SeenIn(g, With(ob, o, y)) = With(SeenIn(h, ob), o, View(g, y))
<1> DEFINE new == With(ob, o, y)
<1>1. /\ new = [p \in Objects |-> new[p]] /\ new[o] = y
      /\ \A p \in Objects \ {o} : new[p] = ob[p]
  BY DEF Sound, ObjectsSound, With
<1> HIDE DEF new
<1>2. y.structure # None /\ y.structure \in AliveIn(g)
  BY MarksAssumption DEF Places, RecordSound, HolderSound, AliveIn
<1>3. \A p \in Objects : ExistsIn(ob, p) => ExistsIn(new, p)
  BY <1>1, <1>2 DEF ExistsIn
<1>4. \A p \in Objects \ {o} : ExistsIn(ob, p) =>
        /\ ObjectSound(h, ob, p)
        /\ Stays(h, g, ob[p].structure) /\ Separate(g, y.structure, ob[p].structure)
        /\ ob[p].construct_struct # None => Stays(h, g, ob[p].construct_struct)
  <2> SUFFICES ASSUME NEW p \in Objects \ {o}, ExistsIn(ob, p)
               PROVE  /\ ObjectSound(h, ob, p)
                      /\ Stays(h, g, ob[p].structure) /\ Separate(g, y.structure, ob[p].structure)
                      /\ ob[p].construct_struct # None => Stays(h, g, ob[p].construct_struct)
    OBVIOUS
  <2>1. ObjectSound(h, ob, p)
    BY DEF Sound, ObjectsSound
  <2>2. ob[p].structure \in AliveIn(h)
    BY <2>1 DEF ObjectSound, RecordSound, HolderSound
  <2>3. ob[p].construct_struct # None =>
            ob[p].construct_struct \in AliveIn(h) /\ ~h.st[ob[p].construct_struct].unique
    BY <2>1 DEF ObjectSound, RecordSound, ConstructSound
  <2> QED
    BY <2>1, <2>2, <2>3 DEF Places
<1>5. ObjectSound(g, new, o)
  BY <1>1, <1>3 DEF Places, ObjectSound, RecordSound, FunctionSound, FunctionFits, HolderSound,
                    ConstructSound, ProtoIn, CurrentIn
<1>6. Apart(g, new, o)
  BY <1>1, <1>4 DEF Apart, ExistsIn
<1>7. ProtosEnd(g, new)
  <2>1. \A q \in Objects \ {o} : ExistsIn(new, q) =>
            ExistsIn(ob, q) /\ g.st[new[q].structure].proto = h.st[ob[q].structure].proto
    BY <1>1, <1>4 DEF ExistsIn, Stays, Same
  <2>2. CASE ExistsIn(ob, o)
    <3>1. \A q \in Objects : ExistsIn(new, q) =>
            ExistsIn(ob, q) /\ g.st[new[q].structure].proto = h.st[ob[q].structure].proto
      BY <1>1, <2>1, <2>2 DEF Places
    <3> QED
      BY <3>1, ProtosStay DEF Sound, ObjectsSound
  <2>3. CASE ~ExistsIn(ob, o)
    <3>1. \A q \in Objects : ExistsIn(ob, q) => ProtoIn(h, ob, ob[q].structure)
      BY <1>4, <2>3 DEF ObjectSound, RecordSound, HolderSound
    <3>2. ProtoIn(g, ob, new[o].structure)
      BY <1>1 DEF Places, RecordSound, HolderSound
    <3> QED
      BY <2>1, <2>3, <3>1, <3>2, ProtosCreate DEF Sound, ObjectsSound
  <2> QED
    BY <2>2, <2>3
<1>8. Carries(h, g, ob, new, {o})
  BY <1>1, <1>3, <1>4, <1>5, <1>6, <1>7 DEF Carries
<1>9. ObjectsSound(g, new)
  BY <1>8, Carried DEF Sound
<1>10. CachesSound(g, new, gic, pic)
  <2> SUFFICES ASSUME NEW s \in AliveIn(h), Cached(gic, pic, s)
               PROVE  CacheStays(h, g, ob, new, s)
    BY CachesCarried DEF Sound
  <2>1. s \in AliveIn(g) /\ g.st[s].unique = h.st[s].unique
    BY DEF Places
  <2> SUFFICES ASSUME InUse(g, new, s) PROVE InUse(h, ob, s) /\ Extends(h, g, s)
    BY <2>1 DEF CacheStays
  <2>2. CASE s = y.structure
    BY <2>2 DEF Places
  <2>3. CASE s # y.structure
    <3>1. ~h.st[s].unique \/ \E q \in Objects \ {o} : ob[q].structure = s
      BY <1>1, <2>1, <2>3 DEF InUse
    <3>2. Stays(h, g, s) /\ InUse(h, ob, s)
      BY <3>1 DEF Places, InUse
    <3> QED
      BY <3>2 DEF Extends, Stays, Same
  <2> QED
    BY <2>2, <2>3
<1>11. HeapSound(g)
  BY DEF Places
<1>12. SeenIn(g, new) = With(SeenIn(h, ob), o, View(g, y))
  <2> SUFFICES ASSUME NEW q \in Objects
               PROVE  SeenIn(g, new)[q] = With(SeenIn(h, ob), o, View(g, y))[q]
    BY DEF SeenIn, With
  <2>1. CASE q = o
    BY <1>1, <1>2, <2>1 DEF SeenIn, ExistsIn, With
  <2>2. CASE q # o
    BY <1>1, <1>4, <2>2 DEF SeenIn, ExistsIn, With, View, Stays, Same
  <2> QED
    BY <2>1, <2>2
<1> QED
  BY <1>9, <1>10, <1>11, <1>12 DEF Sound, new

\* The transitions of g are those of h, but for new ones that are right.
Leading(h, g) ==
    \A s \in Structure : \A k \in DOMAIN g.tr[s] :
        Leads(g, s, k, g.tr[s][k]) \/ (k \in DOMAIN h.tr[s] /\ g.tr[s][k] = h.tr[s][k])

LEMMA RootRecord ==
    ASSUME NEW unique \in BOOLEAN, NEW p \in Objects \cup {NoObject}
    PROVE  Root(unique, p) \in StructureRecord /\ Root(unique, p) # None
<1>1. Root(unique, p) \in StructureRecord
  BY DEF Root, StructureRecord
<1> QED
  BY <1>1, MarksAssumption

LEMMA Built ==
    ASSUME NEW h, HeapSound(h), NEW S, S \subseteq AliveIn(h),
           \A s \in S : /\ h.st[s].owner = None /\ Layout(h, s) /\ Private(h, s)
                        /\ h.st[s].unique \/ h.st[s].previous # None
    PROVE  LET g == AllocateTables(h, S) IN
           AllStay(h, g) /\ AliveIn(g) = AliveIn(h)
<1> DEFINE g == AllocateTables(h, S)
<1>1. /\ Shaped(g) /\ AliveIn(g) = AliveIn(h) /\ g.tr = h.tr
      /\ \A s \in AliveIn(h) : /\ Same(h, g, s)
                               /\ g.st[s] = IF s \in S THEN Tabled(h.st[s], s) ELSE h.st[s]
  BY Allocated DEF HeapSound
<1> HIDE DEF g
<1>2. \A s \in AliveIn(h) : s \in Structure /\ h.st[s] \in StructureRecord
  BY DEF HeapSound, Shaped, Heap, AliveIn
<1>3. \A s \in S : /\ g.st[s].owner = s /\ g.st[s].previous = None
                   /\ g.st[s].unique = h.st[s].unique
  BY <1>1, <1>2, TabledFields
<1>4. \A s \in {empty_object_struct, function_struct} : g.st[s] = h.st[s]
  <2>1. \A s \in {empty_object_struct, function_struct} :
            s \in AliveIn(h) /\ ~h.st[s].unique /\ h.st[s].previous = None
    <3>1. \A s \in {empty_object_struct, function_struct} : s \in Structure
      BY StructuresAssumption DEF empty_object_struct, function_struct, Structure
    <3>2. Root(FALSE, NoObject) # None
      BY RootRecord
    <3> QED
      BY <3>1, <3>2 DEF HeapSound, Root, AliveIn
  <2> QED
    BY <1>1, <2>1
<1>5. Follows(h, g)
  BY <1>1, <1>4 DEF Follows, HeapSound, Leads, Same
<1>6. ASSUME NEW s \in AliveIn(h) PROVE Stays(h, g, s)
  <2>1. g.st[s].owner = h.st[s].owner \/ (h.st[s].owner = None /\ g.st[s].owner = s)
    BY <1>1, <1>3
  <2>2. \A t \in AliveIn(h) : g.st[t].previous \in {h.st[t].previous, None}
    BY <1>1, <1>3
  <2>3. s # None
    BY <1>2, MarksAssumption
  <2> QED
    BY <1>1, <2>1, <2>2, <2>3 DEF Stays, Private, Same
<1> QED
  BY <1>1, <1>5, <1>6, FollowsSound DEF AllStay, g

LEMMA GrownSound ==
    ASSUME NEW h, NEW g, HeapSound(h), NEW i \in Structure,
           NEW x \in StructureRecord, Joinable(h, x), Grown(h, g, i, x),
           Leading(h, g), x.unique \/ Layout(g, i)
    PROVE  /\ HeapSound(g)
           /\ \A s \in AliveIn(h) : ~h.st[s].unique \/ s # x.previous => Stays(h, g, s)
<1>1. /\ Shaped(g)
      /\ AliveIn(g) = AliveIn(h) \cup {i}
      /\ \A s \in AliveIn(h) : g.st[s] = h.st[s] /\ Same(h, g, s)
      /\ g.st[i] = x
  BY Grow DEF HeapSound
<1>2. \A s \in {empty_object_struct, function_struct} : g.st[s] = h.st[s]
  <2>1. \A s \in {empty_object_struct, function_struct} : s \in Structure
    BY StructuresAssumption DEF empty_object_struct, function_struct, Structure
  <2>2. Root(FALSE, NoObject) # None
    BY RootRecord
  <2> QED
    BY <1>1, <2>1, <2>2 DEF HeapSound, AliveIn
<1>3. Follows(h, g)
  <2>1. \A s \in Structure : \A k \in DOMAIN h.tr[s] : {s, h.tr[s][k]} \subseteq AliveIn(g)
    BY <1>1 DEF HeapSound, Leads
  <2> QED
    BY <1>1, <1>2, <2>1 DEF Follows, Leading
<1>4. ASSUME NEW s \in AliveIn(h), ~h.st[s].unique \/ s # x.previous PROVE Stays(h, g, s)
  BY <1>1, <1>4 DEF Stays, Private
<1> QED
  BY <1>3, <1>4, FollowsSound

\* An object of the heap h may have y instead of what it was.
LEMMA PlacedHere ==
    ASSUME NEW h, NEW ob, NEW gic, NEW pic, Sound(h, ob, gic, pic), NEW o \in Objects, NEW y,
           RecordSound(h, ob, y), o \in Constructors => FunctionSound(h, ob, y),
           ExistsIn(ob, o) => h.st[y.structure].proto = h.st[ob[o].structure].proto,
           \/ ExistsIn(ob, o) /\ y.structure = ob[o].structure
           \/ ~h.st[y.structure].unique
           \/ /\ ~Cached(gic, pic, y.structure) /\ h.st[y.structure].owner = None
              /\ \A q \in Objects : ob[q].structure # y.structure
    PROVE  /\ Sound(h, With(ob, o, y), gic, pic)
           /\ SeenIn(h, With(ob, o, y)) = With(SeenIn(h, ob), o, View(h, y))
<1>1. HeapSound(h) /\ Shaped(h)
  BY DEF Sound, HeapSound
<1>2. y.structure \in AliveIn(h)
  BY DEF RecordSound, HolderSound
<1>3. ASSUME NEW s \in AliveIn(h),
             ~h.st[s].unique \/ (\E q \in Objects \ {o} : ob[q].structure = s)
      PROVE  Stays(h, h, s) /\ Separate(h, y.structure, s)
  <2>1. Stays(h, h, s)
    BY DEF Stays, Same
  <2>2. CASE ~h.st[s].unique \/ ~h.st[y.structure].unique
    BY <1>1, <1>2, <2>1, <2>2, SharedSeparate
  <2>3. CASE h.st[s].unique /\ h.st[y.structure].unique /\ ExistsIn(ob, o)
             /\ y.structure = ob[o].structure
    <3>1. PICK q \in Objects \ {o} : ob[q].structure = s
      BY <1>3, <2>3
    <3>2. ExistsIn(ob, q)
      BY <3>1, MarksAssumption DEF ExistsIn, AliveIn
    <3> QED
      BY <2>1, <2>3, <3>1, <3>2 DEF Sound, ObjectsSound, Apart
  <2>4. CASE h.st[s].unique /\ h.st[y.structure].owner = None
             /\ \A q \in Objects : ob[q].structure # y.structure
    BY <1>3, <2>1, <2>4 DEF Separate
  <2> QED
    BY <2>1, <2>2, <2>3, <2>4
<1>4. Cached(gic, pic, y.structure) => InUse(h, ob, y.structure) /\ Extends(h, h, y.structure)
  BY DEF InUse, Extends
<1>5. Places(h, h, ob, gic, pic, o, y)
  BY <1>1, <1>3, <1>4 DEF Places
<1> QED
  BY <1>5, Placed

-----------------------------------------------------------------------------
(* An object moves to a unique structure, gets a table, changes its table.   *)

LEMMA WithStructure ==
    ASSUME NEW h \in Heap, NEW i \in Structure, NEW x \in StructureRecord
    PROVE  LET g == [h EXCEPT !.st[i] = x] IN
           g \in Heap /\ g.st = [h.st EXCEPT ![i] = x] /\ g.tb = h.tb /\ g.tr = h.tr
<1> DEFINE g == [h EXCEPT !.st[i] = x]
<1>1. h = [st |-> h.st, tb |-> h.tb, tr |-> h.tr]
      /\ h.st \in [Structure -> StructureRecord \cup {None}]
      /\ h.tb \in [Structure -> Maps] /\ h.tr \in [Structure -> Links]
  BY DEF Heap
<1>2. g = [st |-> [h.st EXCEPT ![i] = x], tb |-> h.tb, tr |-> h.tr]
  BY <1>1
<1>3. [h.st EXCEPT ![i] = x] \in [Structure -> StructureRecord \cup {None}]
  BY <1>1
<1> HIDE DEF g
<1>4. g \in Heap
  BY <1>1, <1>2, <1>3 DEF Heap
<1> QED
  BY <1>2, <1>4 DEF g

LEMMA WithMap ==
    ASSUME NEW h \in Heap, NEW i \in Structure, NEW m \in Maps
    PROVE  LET g == [h EXCEPT !.tb[i] = m] IN
           g \in Heap /\ g.tb = [h.tb EXCEPT ![i] = m] /\ g.st = h.st /\ g.tr = h.tr
<1> DEFINE g == [h EXCEPT !.tb[i] = m]
<1>1. h = [st |-> h.st, tb |-> h.tb, tr |-> h.tr]
      /\ h.st \in [Structure -> StructureRecord \cup {None}]
      /\ h.tb \in [Structure -> Maps] /\ h.tr \in [Structure -> Links]
  BY DEF Heap
<1>2. g = [st |-> h.st, tb |-> [h.tb EXCEPT ![i] = m], tr |-> h.tr]
  BY <1>1
<1>3. [h.tb EXCEPT ![i] = m] \in [Structure -> Maps]
  BY <1>1
<1> HIDE DEF g
<1>4. g \in Heap
  BY <1>1, <1>2, <1>3 DEF Heap
<1> QED
  BY <1>2, <1>4 DEF g

LEMMA Separated ==
    ASSUME NEW h, NEW ob, NEW gic, NEW pic, Sound(h, ob, gic, pic),
           NEW o \in Objects, ExistsIn(ob, o), NEW s \in AliveIn(h),
           ~h.st[s].unique \/ (\E q \in Objects \ {o} : ob[q].structure = s)
    PROVE  Separate(h, ob[o].structure, s)
<1>1. CASE ~h.st[s].unique
  <2>1. Shaped(h) /\ ob[o].structure \in AliveIn(h)
    BY DEF Sound, HeapSound, ObjectsSound, ObjectSound, RecordSound, HolderSound
  <2> QED
    BY <1>1, <2>1, SharedSeparate
<1>2. CASE \E q \in Objects \ {o} : ob[q].structure = s
  <2>1. PICK q \in Objects \ {o} : ob[q].structure = s
    BY <1>2
  <2>2. ExistsIn(ob, q)
    BY <2>1, MarksAssumption DEF ExistsIn, AliveIn
  <2> QED
    BY <2>1, <2>2 DEF Sound, ObjectsSound, Apart
<1> QED
  BY <1>1, <1>2

LEMMA LayoutLike ==
    ASSUME NEW h, NEW g, NEW s, NEW t, Layout(h, s), Entries(g, t) = Entries(h, s),
           g.st[t].deleted = h.st[s].deleted, SlotsSize(g, t) = SlotsSize(h, s)
    PROVE  Layout(g, t)
BY DEF Layout

LEMMA LayoutSize ==
    ASSUME NEW h, Shaped(h), NEW s \in AliveIn(h), Layout(h, s)
    PROVE  /\ SlotsSize(h, s) = Cardinality(DOMAIN Entries(h, s)) + Len(h.st[s].deleted)
           /\ SlotsSize(h, s) \in Nat /\ Cardinality(DOMAIN Entries(h, s)) \in Nat
           /\ h.st[s].deleted \in Seq(Nat) /\ IsFiniteSet(DOMAIN Entries(h, s))
<1>1. IsFiniteSet(DOMAIN Entries(h, s))
  BY EntriesStep, MapsFacts
<1>2. Cardinality(DOMAIN Entries(h, s)) \in Nat
  BY <1>1, FS_CardinalityType
<1>3. h.st[s].deleted \in Seq(Nat)
  BY DEF Shaped, Heap, AliveIn, StructureRecord
<1>4. Len(h.st[s].deleted) \in Nat
  BY <1>3
<1>5. SlotsSize(h, s) = Cardinality(DOMAIN Entries(h, s)) + Len(h.st[s].deleted)
  BY DEF Layout
<1> QED
  BY <1>1, <1>2, <1>3, <1>4, <1>5

\* The record of the unique structure that is made from s.
UniqueFrom(h, s) ==
    LET shared == h.st[s].unique /\ h.st[s].owner # None IN
    [unique |-> TRUE, proto |-> h.st[s].proto,
     owner |-> IF shared THEN h.st[s].owner ELSE None,
     deleted |-> h.st[s].deleted, added |-> None,
     previous |-> IF shared THEN None ELSE s,
     size |-> SlotsSize(h, s)]

LEMMA UniqueFromFields ==
    ASSUME NEW h, Shaped(h), NEW s \in AliveIn(h), Layout(h, s)
    PROVE  LET x == UniqueFrom(h, s) IN
           /\ x \in StructureRecord /\ Joinable(h, x) /\ x.unique
           /\ x.proto = h.st[s].proto /\ x.deleted = h.st[s].deleted /\ x.added = None
           /\ x.size = SlotsSize(h, s)
           /\ \/ /\ h.st[s].unique /\ h.st[s].owner # None
                 /\ x.owner = h.st[s].owner /\ x.previous = None
              \/ /\ ~h.st[s].unique \/ h.st[s].owner = None
                 /\ x.owner = None /\ x.previous = s
<1> DEFINE x == UniqueFrom(h, s)
<1>1. h.st[s] \in StructureRecord /\ SlotsSize(h, s) \in Nat /\ s \in Structure
  BY LayoutSize DEF Shaped, Heap, AliveIn
<1>2. /\ x.unique = TRUE /\ x.proto = h.st[s].proto /\ x.deleted = h.st[s].deleted
      /\ x.added = None /\ x.size = SlotsSize(h, s)
      /\ \/ /\ h.st[s].unique /\ h.st[s].owner # None
            /\ x.owner = h.st[s].owner /\ x.previous = None
         \/ /\ ~h.st[s].unique \/ h.st[s].owner = None
            /\ x.owner = None /\ x.previous = s
  BY DEF UniqueFrom
<1>3. x \in StructureRecord
  <2> DEFINE ow == IF h.st[s].unique /\ h.st[s].owner # None THEN h.st[s].owner ELSE None
             pr == IF h.st[s].unique /\ h.st[s].owner # None THEN None ELSE s
  <2>1. ow \in Structure \cup {None} /\ pr \in Structure \cup {None}
    BY <1>1 DEF StructureRecord
  <2>2. x = [unique |-> TRUE, proto |-> h.st[s].proto, owner |-> ow,
             deleted |-> h.st[s].deleted, added |-> None, previous |-> pr,
             size |-> SlotsSize(h, s)]
    BY DEF UniqueFrom
  <2> HIDE DEF ow, pr, x
  <2> QED
    BY <1>1, <2>1, <2>2 DEF StructureRecord
<1> HIDE DEF x
<1>4. Joinable(h, x)
  <2>1. s # None
    BY <1>1, MarksAssumption
  <2>2. CASE h.st[s].unique /\ h.st[s].owner # None
    BY <1>2, <2>2 DEF Joinable, Shaped, Linked
  <2>3. CASE ~h.st[s].unique \/ h.st[s].owner = None
    BY <1>2, <2>1, <2>3 DEF Joinable, Shaped, Linked
  <2> QED
    BY <2>2, <2>3
<1> QED
  BY <1>2, <1>3, <1>4 DEF x

\* What is known of an object that moved to the unique structure i.
MovedTo(h, g, ob, gic, pic, o, i) ==
    /\ i \in AliveIn(g) /\ g.st[i].unique /\ ~Cached(gic, pic, i)
    /\ Entries(g, i) = Entries(h, ob[o].structure)
    /\ g.st[i].deleted = h.st[ob[o].structure].deleted
    /\ SlotsSize(g, i) = SlotsSize(h, ob[o].structure)
    /\ g.st[i].proto = h.st[ob[o].structure].proto
    /\ \A t \in AliveIn(h) : t \in AliveIn(g) /\ g.st[t].proto = h.st[t].proto

LEMMA Moved ==
    ASSUME NEW h, NEW ob, NEW gic, NEW pic, Sound(h, ob, gic, pic),
           NEW o \in Objects, ExistsIn(ob, o),
           NEW i \in Structure, h.st[i] = None, NEW e \in BOOLEAN
    PROVE  LET g == NewUnique(h, ob[o].structure, i)
               y == Cell(i, e, ob[o].construct_struct, ob[o].slots)
           IN  /\ Sound(g, With(ob, o, y), gic, pic)
               /\ MovedTo(h, g, ob, gic, pic, o, i)
               /\ SeenIn(g, With(ob, o, y)) = With(SeenIn(h, ob), o, View(g, y))
<1> DEFINE s == ob[o].structure
           g == NewUnique(h, s, i)
           x == UniqueFrom(h, s)
           y == Cell(i, e, ob[o].construct_struct, ob[o].slots)
<1>1. /\ HeapSound(h) /\ Shaped(h) /\ h \in Heap
      /\ ObjectSound(h, ob, o) /\ RecordSound(h, ob, ob[o]) /\ HolderSound(h, ob, s)
      /\ s \in AliveIn(h) /\ Layout(h, s)
  BY DEF Sound, HeapSound, Shaped, ObjectsSound, ObjectSound, RecordSound, HolderSound
<1>2. /\ x \in StructureRecord /\ Joinable(h, x) /\ x.unique
      /\ x.proto = h.st[s].proto /\ x.deleted = h.st[s].deleted /\ x.added = None
      /\ x.size = SlotsSize(h, s)
      /\ \/ /\ h.st[s].unique /\ h.st[s].owner # None
            /\ x.owner = h.st[s].owner /\ x.previous = None
         \/ /\ ~h.st[s].unique \/ h.st[s].owner = None
            /\ x.owner = None /\ x.previous = s
  <2> HIDE DEF s, x
  <2> QED
    BY <1>1, UniqueFromFields DEF x
<1>3. g = [h EXCEPT !.st[i] = x]
  BY DEF NewUnique, UniqueFrom
<1> HIDE DEF s, x, g
<1>4. Grown(h, g, i, x) /\ g.tr = h.tr
  BY <1>1, <1>2, <1>3, WithStructure DEF Grown
<1>5. /\ HeapSound(g)
      /\ \A t \in AliveIn(h) : ~h.st[t].unique \/ t # x.previous => Stays(h, g, t)
  <2>1. Leading(h, g)
    BY <1>4 DEF Leading
  <2> QED
    BY <1>1, <1>2, <1>4, <2>1, GrownSound
<1>6. /\ Shaped(g)
      /\ AliveIn(g) = AliveIn(h) \cup {i} /\ i \notin AliveIn(h)
      /\ \A t \in AliveIn(h) : g.st[t] = h.st[t] /\ Same(h, g, t)
      /\ g.st[i] = x
  BY <1>1, <1>2, <1>4, Grow DEF AliveIn
<1>7. /\ Entries(g, i) = Entries(h, s)
      /\ SlotsSize(g, i) = SlotsSize(h, s)
  <2>1. i \in AliveIn(g) /\ s # None
    BY <1>1, <1>6, MarksAssumption DEF AliveIn
  <2>2. SlotsSize(h, s) = Cardinality(DOMAIN Entries(h, s)) + Len(h.st[s].deleted)
    BY <1>1, LayoutSize
  <2>3. CASE /\ h.st[s].unique /\ h.st[s].owner # None
             /\ x.owner = h.st[s].owner /\ x.previous = None
    <3>1. Entries(g, i) = g.tb[h.st[s].owner]
      BY <1>6, <2>1, <2>3, EntriesStep
    <3>2. Entries(h, s) = h.tb[h.st[s].owner]
      BY <1>1, <2>3, EntriesStep
    <3>3. SlotsSize(g, i) = Cardinality(DOMAIN Entries(g, i)) + Len(g.st[i].deleted)
      BY <1>6, <2>1, <2>3, SlotsSizeStep
    <3> QED
      BY <1>2, <1>4, <1>6, <2>2, <3>1, <3>2, <3>3 DEF Grown
  <2>4. CASE x.owner = None /\ x.previous = s
    <3>1. Entries(g, i) = Entries(g, s)
      BY <1>2, <1>6, <2>1, <2>4, EntriesStep
    <3>2. Entries(g, s) = Entries(h, s)
      BY <1>1, <1>6 DEF Same
    <3>3. SlotsSize(g, i) = x.size
      BY <1>6, <2>1, <2>4, SlotsSizeStep
    <3> QED
      BY <1>2, <3>1, <3>2, <3>3
  <2> QED
    BY <1>2, <2>3, <2>4
<1>8. Layout(g, i)
  BY <1>1, <1>2, <1>6, <1>7, LayoutLike
<1>9. Private(g, i)
  <2>1. \A t \in AliveIn(h) : h.st[t].previous # i
    BY <1>1, <1>6, MarksAssumption DEF Shaped, Linked, AliveIn
  <2>2. x.previous # i
    BY <1>1, <1>2, <1>6, MarksAssumption DEF AliveIn
  <2> QED
    BY <1>6, <2>1, <2>2 DEF Private
<1>10. ASSUME NEW t \in AliveIn(h),
              ~h.st[t].unique \/ (\E q \in Objects \ {o} : ob[q].structure = t)
       PROVE  Stays(h, g, t) /\ Separate(g, i, t)
  <2>1. Separate(h, s, t)
    BY <1>10, Separated DEF s
  <2>2. Stays(h, g, t)
    BY <1>2, <1>5, <2>1, MarksAssumption DEF Separate, AliveIn
  <2>3. x.owner = h.st[t].owner => x.owner = None
    BY <1>1, <1>2, <2>1 DEF Separate
  <2> QED
    BY <1>6, <2>2, <2>3 DEF Separate
<1>11. ~Cached(gic, pic, i)
  BY <1>6 DEF Sound, CachesSound, GetSound, PutSound, Cached
<1>12. RecordSound(g, ob, y)
  <2>1. HolderSound(g, ob, i)
    BY <1>1, <1>2, <1>6, <1>8, <1>9 DEF HolderSound, ProtoIn
  <2>2. SlotsSound(g, i, ob[o].slots)
    BY <1>1, <1>7 DEF RecordSound, SlotsSound, s
  <2>3. ConstructSound(g, ob, ob[o].construct_struct)
    BY <1>1, <1>6 DEF RecordSound, ConstructSound, ProtoIn, Same
  <2>4. /\ y.structure = i /\ y.extensible = e
        /\ y.construct_struct = ob[o].construct_struct /\ y.slots = ob[o].slots
        /\ y = Cell(y.structure, y.extensible, y.construct_struct, y.slots)
    BY DEF Cell
  <2> QED
    BY <2>1, <2>2, <2>3, <2>4 DEF RecordSound
<1>13. o \in Constructors => FunctionSound(g, ob, y)
  <2>1. y.structure = i /\ y.construct_struct = ob[o].construct_struct /\ y.slots = ob[o].slots
    BY DEF Cell
  <2>2. ob[o].construct_struct # None =>
            g.st[ob[o].construct_struct].proto = h.st[ob[o].construct_struct].proto
    BY <1>1, <1>6 DEF RecordSound, ConstructSound
  <2> HIDE DEF y
  <2> QED
    BY <1>1, <1>7, <2>1, <2>2 DEF ObjectSound, FunctionSound, FunctionFits, s
<1>14. Places(h, g, ob, gic, pic, o, y)
  <2>1. y.structure = i
    BY DEF Cell
  <2> HIDE DEF y
  <2> QED
    BY <1>2, <1>5, <1>6, <1>10, <1>11, <1>12, <1>13, <2>1 DEF Places, s
<1>15. /\ Sound(g, With(ob, o, y), gic, pic)
       /\ SeenIn(g, With(ob, o, y)) = With(SeenIn(h, ob), o, View(g, y))
  <2> HIDE DEF y
  <2> QED
    BY <1>14, Placed
<1>16. MovedTo(h, g, ob, gic, pic, o, i)
  BY <1>2, <1>6, <1>7, <1>11 DEF MovedTo, s
<1> QED
  BY <1>15, <1>16 DEF g, s

LEMMA TableBuilt ==
    ASSUME NEW h, NEW ob, NEW gic, NEW pic, Sound(h, ob, gic, pic),
           NEW o \in Objects, ExistsIn(ob, o), h.st[ob[o].structure].unique
    PROVE  LET s == ob[o].structure
               g == WithTable(h, s)
           IN  /\ Sound(g, ob, gic, pic) /\ AllStay(h, g) /\ g.st[s].owner # None
               /\ SeenIn(g, ob) = SeenIn(h, ob)
<1> DEFINE s == ob[o].structure
           g == WithTable(h, s)
<1>1. HeapSound(h) /\ Shaped(h) /\ s \in AliveIn(h) /\ Layout(h, s) /\ Private(h, s)
  BY DEF Sound, HeapSound, ObjectsSound, ObjectSound, RecordSound, HolderSound
<1> HIDE DEF s
<1>2. h.st[s] \in StructureRecord /\ s \in Structure /\ s # None
  BY <1>1, MarksAssumption DEF Shaped, Heap, AliveIn
<1>3. AllStay(h, g) /\ g.st[s].owner # None
  <2>1. CASE h.st[s].owner # None
    BY <1>1, <2>1 DEF WithTable, AllStay, Stays, Same
  <2>2. CASE h.st[s].owner = None
    <3>1. g = AllocateTables(h, {s})
      BY <2>2 DEF WithTable, AllocateTable
    <3>2. \A t \in {s} : /\ t \in AliveIn(h)
                         /\ h.st[t].owner = None /\ Layout(h, t) /\ Private(h, t)
                         /\ h.st[t].unique \/ h.st[t].previous # None
      BY <1>1, <2>2 DEF s
    <3> HIDE DEF g
    <3>3. AllStay(h, g)
      BY <1>1, <3>1, <3>2, Built
    <3>4. g.st[s] = Tabled(h.st[s], s)
      BY <1>1, <3>1, <3>2, Allocated
    <3>5. g.st[s].owner = s
      BY <1>2, <3>4, TabledFields
    <3> QED
      BY <1>2, <3>3, <3>5
  <2> QED
    BY <2>1, <2>2
<1> HIDE DEF g
<1>4. Sound(g, ob, gic, pic) /\ SeenIn(g, ob) = SeenIn(h, ob)
  BY <1>3, HeapChanged
<1> QED
  BY <1>3, <1>4 DEF g, s

\* The map m and the deleted offsets D share the slots below their number.
Disposed(m, D) ==
    LET c == Cardinality(DOMAIN m) + Len(D) IN
    /\ \A j, n \in DOMAIN m : m[j].offset = m[n].offset => j = n
    /\ \A n \in DOMAIN m : m[n].offset < c
    /\ \A j, k \in DOMAIN D : D[j] = D[k] => j = k
    /\ \A k \in DOMAIN D : D[k] < c /\ \A n \in DOMAIN m : m[n].offset # D[k]

LEMMA LayoutDisposed ==
    ASSUME NEW h, NEW s
    PROVE  Layout(h, s) <=>
            /\ SlotsSize(h, s) = Cardinality(DOMAIN Entries(h, s)) + Len(h.st[s].deleted)
            /\ Disposed(Entries(h, s), h.st[s].deleted)
<1> DEFINE E == Entries(h, s)
           D == h.st[s].deleted
           c == Cardinality(DOMAIN E) + Len(D)
<1>1. CASE SlotsSize(h, s) = c
  <2> HIDE DEF E, D
  <2>1. Layout(h, s) <=>
        /\ SlotsSize(h, s) = c
        /\ \A m, n \in DOMAIN E : E[m].offset = E[n].offset => m = n
        /\ \A n \in DOMAIN E : E[n].offset < c
        /\ \A j, k \in DOMAIN D : D[j] = D[k] => j = k
        /\ \A k \in DOMAIN D : D[k] < c /\ \A n \in DOMAIN E : E[n].offset # D[k]
    BY <1>1 DEF Layout, E, D
  <2> QED
    BY <1>1, <2>1 DEF Disposed, E, D
<1>2. CASE SlotsSize(h, s) # c
  BY <1>2 DEF Layout
<1> QED
  BY <1>1, <1>2

\* The slots with m for entries, and c of them.
SlotsFit(m, c, slots) ==
    /\ \A j \in Nat : j < c => j \in DOMAIN slots
    /\ \A n \in DOMAIN m : InSlot(m[n], slots) \in StoredSlot

\* What the object of a unique structure with a table may become when the
\* table becomes m.
Retabled(h, g, ob, gic, pic, o, m, D, y) ==
    LET s == ob[o].structure IN
    /\ Changed(h, g, s, m, D) /\ g.tr = h.tr
    /\ Disposed(m, D)
    /\ y = Cell(s, y.extensible, y.construct_struct, y.slots)
    /\ y.extensible \in BOOLEAN
    /\ SlotsFit(m, Cardinality(DOMAIN m) + Len(D), y.slots)
    /\ y.construct_struct \in {None, ob[o].construct_struct}
    /\ o \in Constructors => FunctionFits(h, m, ob, y)
    /\ Cached(gic, pic, s) => \A n \in DOMAIN Entries(h, s) : n \in DOMAIN m /\ m[n] = Entries(h, s)[n]

LEMMA TableStep ==
    ASSUME NEW h, NEW g, NEW ob, NEW gic, NEW pic, Sound(h, ob, gic, pic),
           NEW o \in Objects, ExistsIn(ob, o),
           h.st[ob[o].structure].unique, h.st[ob[o].structure].owner # None,
           NEW m \in Maps, NEW D \in Seq(Nat), NEW y,
           Retabled(h, g, ob, gic, pic, o, m, D, y)
    PROVE  /\ Sound(g, With(ob, o, y), gic, pic)
           /\ Entries(g, ob[o].structure) = m
           /\ SeenIn(g, With(ob, o, y)) =
                With(SeenIn(h, ob), o,
                     Viewed(h.st[ob[o].structure].proto, y.extensible, m, y.slots))
<1> DEFINE s == ob[o].structure
<1>1. /\ HeapSound(h) /\ Shaped(h) /\ RecordSound(h, ob, ob[o]) /\ HolderSound(h, ob, s)
      /\ s \in AliveIn(h) /\ Private(h, s)
  BY DEF Sound, HeapSound, ObjectsSound, ObjectSound, RecordSound, HolderSound
<1>2. h.st[s].unique /\ h.st[s].owner # None /\ h.st[s] \in StructureRecord
  BY <1>1 DEF Shaped, Heap, AliveIn
<1>3. /\ Changed(h, g, s, m, D) /\ g.tr = h.tr
      /\ Disposed(m, D)
      /\ y = Cell(s, y.extensible, y.construct_struct, y.slots)
      /\ y.extensible \in BOOLEAN
      /\ SlotsFit(m, Cardinality(DOMAIN m) + Len(D), y.slots)
      /\ y.construct_struct \in {None, ob[o].construct_struct}
      /\ o \in Constructors => FunctionFits(h, m, ob, y)
      /\ Cached(gic, pic, s) => \A n \in DOMAIN Entries(h, s) : n \in DOMAIN m /\ m[n] = Entries(h, s)[n]
  BY DEF Retabled
<1> HIDE DEF s
<1>4. /\ Shaped(g) /\ AliveIn(g) = AliveIn(h)
      /\ \A t \in AliveIn(h) : h.st[t].owner # h.st[s].owner => Same(h, g, t)
      /\ \A t \in AliveIn(h) : t # s => g.st[t] = h.st[t]
      /\ g.st[s] = WithDeleted(h.st[s], D)
      /\ Entries(g, s) = m
  BY <1>1, <1>2, <1>3, TableChanged
<1>5. /\ g.st[s].deleted = D /\ g.st[s].owner = h.st[s].owner
      /\ g.st[s].previous = h.st[s].previous /\ g.st[s].unique = h.st[s].unique
      /\ g.st[s].proto = h.st[s].proto
  <2>1. /\ WithDeleted(h.st[s], D).deleted = D
        /\ WithDeleted(h.st[s], D).owner = h.st[s].owner
        /\ WithDeleted(h.st[s], D).previous = h.st[s].previous
        /\ WithDeleted(h.st[s], D).unique = h.st[s].unique
        /\ WithDeleted(h.st[s], D).proto = h.st[s].proto
    BY <1>2, WithDeletedFields, Zenon
  <2> QED
    BY <1>4, <2>1
<1>6. y.structure = s
  BY <1>3 DEF Cell
<1>7. ASSUME NEW t \in AliveIn(h),
             ~h.st[t].unique \/ (\E q \in Objects \ {o} : ob[q].structure = t)
      PROVE  Stays(h, g, t) /\ Separate(g, s, t)
  <2>1. Separate(h, s, t)
    BY <1>7, Separated DEF s
  <2>2. t # s /\ h.st[t].owner # h.st[s].owner
    BY <1>2, <2>1 DEF Separate
  <2>3. Same(h, g, t) /\ g.st[t] = h.st[t]
    BY <1>4, <2>2
  <2>4. Private(h, t) => Private(g, t)
    BY <1>4, <1>5, <2>3 DEF Private
  <2> QED
    BY <1>4, <1>5, <2>2, <2>3, <2>4 DEF Stays, Separate
<1>8. Follows(h, g)
  <2>1. \A t \in {empty_object_struct, function_struct} : g.st[t] = h.st[t]
    <3>1. \A t \in {empty_object_struct, function_struct} : t \in Structure
      BY StructuresAssumption DEF empty_object_struct, function_struct, Structure
    <3>2. Root(FALSE, NoObject) # None /\ ~Root(FALSE, NoObject).unique
      <4>1. Root(FALSE, NoObject) # None
        BY RootRecord
      <4> QED
        BY <4>1 DEF Root
    <3>3. \A t \in {empty_object_struct, function_struct} : t \in AliveIn(h) /\ t # s
      BY <1>1, <1>2, <3>1, <3>2 DEF HeapSound, AliveIn
    <3> QED
      BY <1>4, <3>3
  <2>2. \A t \in AliveIn(h) : ~h.st[t].unique => Same(h, g, t)
    BY <1>7 DEF Stays
  <2>3. \A t \in AliveIn(h) : g.st[t].unique = h.st[t].unique
    BY <1>4, <1>5
  <2> QED
    BY <1>1, <1>3, <1>4, <2>1, <2>2, <2>3 DEF Follows, HeapSound, Leads
<1>9. HeapSound(g)
  BY <1>1, <1>8, FollowsSound
<1>10. Layout(g, s)
  <2>1. s \in AliveIn(g) /\ g.st[s].owner # None
    BY <1>1, <1>2, <1>4, <1>5
  <2>2. SlotsSize(g, s) = Cardinality(DOMAIN m) + Len(D)
    BY <1>4, <1>5, <2>1, SlotsSizeStep
  <2> QED
    BY <1>3, <1>4, <1>5, <2>2, LayoutDisposed
<1>11. RecordSound(g, ob, y)
  <2>1. Private(g, s)
    BY <1>1, <1>4, <1>5 DEF Private
  <2>2. HolderSound(g, ob, s)
    BY <1>1, <1>4, <1>5, <1>10, <2>1 DEF HolderSound, ProtoIn
  <2>3. SlotsSound(g, s, y.slots)
    <3>1. SlotsSize(g, s) = Cardinality(DOMAIN m) + Len(D)
      BY <1>4, <1>5, <1>10 DEF Layout
    <3> QED
      BY <1>3, <1>4, <3>1 DEF SlotsFit, SlotsSound
  <2>4. ConstructSound(g, ob, y.construct_struct)
    <3>1. ConstructSound(g, ob, ob[o].construct_struct)
      BY <1>1, <1>7 DEF RecordSound, ConstructSound, ProtoIn, Stays, Same
    <3> QED
      BY <1>3, <3>1 DEF ConstructSound
  <2> QED
    BY <1>3, <1>6, <2>2, <2>3, <2>4 DEF RecordSound
<1>12. o \in Constructors => FunctionSound(g, ob, y)
  <2>1. ConstructSound(h, ob, y.construct_struct)
    BY <1>1, <1>3 DEF RecordSound, ConstructSound
  <2>2. y.construct_struct # None =>
            g.st[y.construct_struct].proto = h.st[y.construct_struct].proto
    BY <1>7, <2>1 DEF ConstructSound, Stays, Same
  <2> QED
    BY <1>3, <1>4, <1>6, <2>2 DEF FunctionSound, FunctionFits
<1>13. Places(h, g, ob, gic, pic, o, y)
  <2>1. Cached(gic, pic, s) => InUse(h, ob, s) /\ Extends(h, g, s)
    BY <1>3, <1>4 DEF InUse, Extends, s
  <2>2. \A t \in AliveIn(h) : t \in AliveIn(g) /\ g.st[t].unique = h.st[t].unique
    BY <1>4, <1>5
  <2> QED
    BY <1>5, <1>6, <1>7, <1>9, <1>11, <1>12, <2>1, <2>2 DEF Places, s
<1>14. View(g, y) = Viewed(h.st[s].proto, y.extensible, m, y.slots)
  BY <1>4, <1>5, <1>6 DEF View
<1>15. /\ Sound(g, With(ob, o, y), gic, pic)
       /\ SeenIn(g, With(ob, o, y)) = With(SeenIn(h, ob), o, View(g, y))
  BY <1>13, Placed
<1> QED
  BY <1>4, <1>14, <1>15 DEF s

-----------------------------------------------------------------------------
(* Maps of entries, deleted offsets and slots.                               *)

LEMMA WithFacts ==
    ASSUME NEW f, NEW o, NEW x, NEW y
    PROVE  /\ With(With(f, o, x), o, y) = With(f, o, y)
           /\ o \in DOMAIN f => With(f, o, x)[o] = x
           /\ \A p \in DOMAIN f : p # o => With(f, o, x)[p] = f[p]
BY DEF With

\* Other attributes for n.
Attributed(m, n, attrs) ==
    [m EXCEPT ![n] = [offset |-> m[n].offset, kind |-> attrs.kind, on |-> attrs.on]]

LEMMA AttributedFacts ==
    ASSUME NEW m \in Maps, NEW n \in DOMAIN m, NEW attrs \in Attributes
    PROVE  LET t == Attributed(m, n, attrs) IN
           /\ t \in Maps /\ DOMAIN t = DOMAIN m
           /\ \A j \in DOMAIN m : t[j].offset = m[j].offset
           /\ \A j \in DOMAIN m \ {n} : t[j] = m[j]
           /\ t[n].kind = attrs.kind /\ t[n].on = attrs.on
<1> DEFINE t == Attributed(m, n, attrs)
<1>1. m \in [DOMAIN m -> MapEntry] /\ DOMAIN m \subseteq Names /\ IsFiniteSet(DOMAIN m)
  BY MapsFacts
<1>2. [offset |-> m[n].offset, kind |-> attrs.kind, on |-> attrs.on] \in MapEntry
  BY <1>1 DEF MapEntry, Attributes
<1>3. /\ t \in [DOMAIN m -> MapEntry]
      /\ t[n] = [offset |-> m[n].offset, kind |-> attrs.kind, on |-> attrs.on]
      /\ \A j \in DOMAIN m \ {n} : t[j] = m[j]
  BY <1>1, <1>2 DEF Attributed
<1> HIDE DEF t
<1>4. t \in Maps /\ DOMAIN t = DOMAIN m
  BY <1>1, <1>3, MapsFacts
<1> QED
  BY <1>3, <1>4 DEF t

LEMMA DisposedLike ==
    ASSUME NEW m, NEW t, NEW D, Disposed(m, D), DOMAIN t = DOMAIN m,
           \A j \in DOMAIN m : t[j].offset = m[j].offset
    PROVE  Disposed(t, D)
BY DEF Disposed

\* The map without n.
Without(m, n) == [j \in DOMAIN m \ {n} |-> m[j]]

LEMMA WithoutFacts ==
    ASSUME NEW m \in Maps, NEW n \in DOMAIN m
    PROVE  /\ Without(m, n) \in Maps
           /\ DOMAIN Without(m, n) = DOMAIN m \ {n}
           /\ \A j \in DOMAIN m \ {n} : Without(m, n)[j] = m[j]
           /\ Cardinality(DOMAIN Without(m, n)) = Cardinality(DOMAIN m) - 1
           /\ Cardinality(DOMAIN m) \in Nat
<1> DEFINE t == Without(m, n)
<1>1. m \in [DOMAIN m -> MapEntry] /\ DOMAIN m \subseteq Names /\ IsFiniteSet(DOMAIN m)
  BY MapsFacts
<1>2. t \in [DOMAIN m \ {n} -> MapEntry] /\ \A j \in DOMAIN m \ {n} : t[j] = m[j]
  BY <1>1 DEF Without
<1>3. DOMAIN t = DOMAIN m \ {n}
  BY <1>2
<1>4. /\ IsFiniteSet(DOMAIN m \ {n})
      /\ Cardinality(DOMAIN m \ {n}) = Cardinality(DOMAIN m) - 1
      /\ Cardinality(DOMAIN m) \in Nat
  BY <1>1, FS_RemoveElement, FS_CardinalityType
<1> HIDE DEF t
<1>5. t \in Maps
  BY <1>1, <1>2, <1>3, <1>4, MapsFacts
<1> QED
  BY <1>2, <1>3, <1>4, <1>5 DEF t

\* A deleted property gives its slot to the deleted offsets.
LEMMA DisposedWithout ==
    ASSUME NEW m \in Maps, NEW D \in Seq(Nat), Disposed(m, D), NEW n \in DOMAIN m
    PROVE  LET t == Without(m, n)
               C == <<m[n].offset>> \o D
           IN  /\ Disposed(t, C) /\ C \in Seq(Nat)
               /\ Cardinality(DOMAIN t) + Len(C) = Cardinality(DOMAIN m) + Len(D)
<1> DEFINE t == Without(m, n)
           C == <<m[n].offset>> \o D
           c == Cardinality(DOMAIN m) + Len(D)
<1>1. m[n].offset \in Nat
  BY MapsFacts DEF MapEntry
<1>2. /\ C \in Seq(Nat) /\ Len(C) = Len(D) + 1 /\ C[1] = m[n].offset
      /\ \A k \in DOMAIN C : k = 1 \/ (k - 1 \in DOMAIN D /\ C[k] = D[k - 1])
      /\ \A k \in DOMAIN C : k \in Nat
  BY <1>1
<1>3. /\ DOMAIN t = DOMAIN m \ {n}
      /\ \A j \in DOMAIN m \ {n} : t[j] = m[j]
      /\ Cardinality(DOMAIN t) = Cardinality(DOMAIN m) - 1
      /\ Cardinality(DOMAIN m) \in Nat
  BY WithoutFacts
<1> HIDE DEF t, C
<1>4. Cardinality(DOMAIN t) + Len(C) = c
  BY <1>2, <1>3
<1>5. /\ \A i, j \in DOMAIN m : m[i].offset = m[j].offset => i = j
      /\ \A j \in DOMAIN m : m[j].offset < c
      /\ \A j, k \in DOMAIN D : D[j] = D[k] => j = k
      /\ \A k \in DOMAIN D : D[k] < c /\ \A j \in DOMAIN m : m[j].offset # D[k]
  BY DEF Disposed
<1> HIDE DEF c
<1>6. \A j, k \in DOMAIN C : C[j] = C[k] => j = k
  <2> SUFFICES ASSUME NEW j \in DOMAIN C, NEW k \in DOMAIN C, C[j] = C[k] PROVE j = k
    OBVIOUS
  <2>1. CASE j = 1 /\ k # 1
    BY <1>2, <1>5, <2>1
  <2>2. CASE j # 1 /\ k = 1
    BY <1>2, <1>5, <2>2
  <2>3. CASE j # 1 /\ k # 1
    <3>1. j - 1 = k - 1
      BY <1>2, <1>5, <2>3
    <3> QED
      BY <1>2, <3>1
  <2> QED
    BY <2>1, <2>2, <2>3
<1>7. \A k \in DOMAIN C : C[k] < c /\ \A j \in DOMAIN t : t[j].offset # C[k]
  <2> SUFFICES ASSUME NEW k \in DOMAIN C
               PROVE  C[k] < c /\ \A j \in DOMAIN t : t[j].offset # C[k]
    OBVIOUS
  <2>1. CASE k = 1
    BY <1>2, <1>3, <1>5, <2>1
  <2>2. CASE k # 1
    BY <1>2, <1>3, <1>5, <2>2
  <2> QED
    BY <2>1, <2>2
<1>8. Disposed(t, C)
  <2>1. \A i, j \in DOMAIN t : t[i].offset = t[j].offset => i = j
    BY <1>3, <1>5
  <2>2. \A j \in DOMAIN t : t[j].offset < c
    BY <1>3, <1>5
  <2> QED
    BY <1>4, <1>6, <1>7, <2>1, <2>2 DEF Disposed
<1> QED
  BY <1>2, <1>4, <1>8 DEF t, C, c

\* The slot of a new property, and the deleted offsets that are left.
SlotOf(m, D) == IF D # <<>> THEN Head(D) ELSE Cardinality(DOMAIN m)
Left(D) == IF D = <<>> THEN D ELSE Tail(D)

LEMMA DisposedBind ==
    ASSUME NEW m \in Maps, NEW D \in Seq(Nat), Disposed(m, D),
           NEW n \in Names, n \notin DOMAIN m, NEW attrs \in Attributes
    PROVE  LET t == Bind(m, n, Entry(SlotOf(m, D), attrs)) IN
           /\ t \in Maps /\ Disposed(t, Left(D)) /\ Left(D) \in Seq(Nat)
           /\ \A j \in DOMAIN m : m[j].offset # SlotOf(m, D)
           /\ SlotOf(m, D) \in Nat
<1> DEFINE k == SlotOf(m, D)
           t == Bind(m, n, Entry(k, attrs))
           C == Left(D)
           c == Cardinality(DOMAIN m) + Len(D)
           d == Cardinality(DOMAIN t) + Len(C)
<1>1. m \in [DOMAIN m -> MapEntry] /\ IsFiniteSet(DOMAIN m)
  BY MapsFacts
<1>2. /\ Cardinality(DOMAIN m) \in Nat
      /\ Cardinality(DOMAIN m \cup {n}) = Cardinality(DOMAIN m) + 1
  BY <1>1, FS_AddElement, FS_CardinalityType
<1>3. k \in Nat
  BY <1>2 DEF SlotOf
<1> HIDE DEF k
<1>4. Entry(k, attrs) \in MapEntry /\ Entry(k, attrs).offset = k
  BY <1>3 DEF Entry, MapEntry, Attributes
<1>5. /\ t \in Maps /\ DOMAIN t = DOMAIN m \cup {n}
      /\ t[n] = Entry(k, attrs) /\ \A j \in DOMAIN m : t[j] = m[j]
  <2> DEFINE e == Entry(k, attrs)
  <2>1. e \in MapEntry
    BY <1>4
  <2> HIDE DEF e
  <2>2. /\ Bind(m, n, e) \in Maps
        /\ DOMAIN Bind(m, n, e) = DOMAIN m \cup {n}
        /\ Bind(m, n, e)[n] = e
        /\ \A j \in DOMAIN m \ {n} : Bind(m, n, e)[j] = m[j]
    <3>1. m \in Maps /\ n \in Names
      OBVIOUS
    <3> QED
      BY ONLY <2>1, <3>1, BindFacts, Zenon
  <2> QED
    BY <2>2 DEF e
<1>6. /\ C \in Seq(Nat)
      /\ \/ D = <<>> /\ C = <<>> /\ k = Cardinality(DOMAIN m) /\ Len(D) = 0 /\ Len(C) = 0
         \/ /\ D # <<>> /\ Len(C) = Len(D) - 1 /\ Len(D) \in Nat /\ Len(D) >= 1
            /\ k = D[1] /\ 1 \in DOMAIN D
            /\ \A j \in DOMAIN C : j \in Nat /\ j + 1 \in DOMAIN D /\ C[j] = D[j + 1] /\ j + 1 # 1
  BY DEF Left, SlotOf, k
<1> HIDE DEF t, C
<1>7. /\ \A i, j \in DOMAIN m : m[i].offset = m[j].offset => i = j
      /\ \A j \in DOMAIN m : m[j].offset < c
      /\ \A i, j \in DOMAIN D : D[i] = D[j] => i = j
      /\ \A i \in DOMAIN D : D[i] < c /\ \A j \in DOMAIN m : m[j].offset # D[i]
  BY DEF Disposed
<1>8. c <= d /\ c \in Nat /\ d \in Nat /\ k < d
  <2>1. CASE D = <<>>
    BY <1>2, <1>5, <1>6, <2>1
  <2>2. CASE D # <<>>
    <3>1. c = d /\ c \in Nat
      <4>1. Cardinality(DOMAIN t) = Cardinality(DOMAIN m) + 1
        BY <1>2, <1>5
      <4>2. Len(C) = Len(D) - 1 /\ Len(D) \in Nat /\ Len(D) >= 1
        BY <1>6, <2>2
      <4> QED
        BY <1>2, <4>1, <4>2
    <3>2. D[1] < c
      BY <1>6, <1>7, <2>2
    <3> QED
      BY <1>6, <2>2, <3>1, <3>2
  <2> QED
    BY <2>1, <2>2
<1> HIDE DEF d
<1>9. \A j \in DOMAIN m : m[j].offset \in Nat /\ m[j].offset # k /\ m[j].offset < d
  <2> SUFFICES ASSUME NEW j \in DOMAIN m
               PROVE  m[j].offset \in Nat /\ m[j].offset # k /\ m[j].offset < d
    OBVIOUS
  <2>1. m[j].offset \in Nat
    BY <1>1 DEF MapEntry
  <2>2. m[j].offset < c
    BY <1>7
  <2>3. m[j].offset # k
    BY <1>2, <1>6, <1>7, <2>1
  <2> HIDE DEF c
  <2> QED
    BY <1>8, <2>1, <2>2, <2>3
<1>10. \A i, j \in DOMAIN t : t[i].offset = t[j].offset => i = j
  BY <1>4, <1>5, <1>7, <1>9
<1>11. \A j \in DOMAIN t : t[j].offset < d
  BY <1>4, <1>5, <1>8, <1>9
<1>12. \A i, j \in DOMAIN C : C[i] = C[j] => i = j
  <2> SUFFICES ASSUME NEW i \in DOMAIN C, NEW j \in DOMAIN C, C[i] = C[j] PROVE i = j
    OBVIOUS
  <2>1. /\ i + 1 \in DOMAIN D /\ C[i] = D[i + 1] /\ i \in Nat
        /\ j + 1 \in DOMAIN D /\ C[j] = D[j + 1] /\ j \in Nat
    BY <1>6
  <2>2. i + 1 = j + 1
    BY <1>7, <2>1
  <2> QED
    BY <2>1, <2>2
<1>13. \A i \in DOMAIN C : C[i] < d /\ \A j \in DOMAIN t : t[j].offset # C[i]
  <2> SUFFICES ASSUME NEW i \in DOMAIN C
               PROVE  C[i] < d /\ \A j \in DOMAIN t : t[j].offset # C[i]
    OBVIOUS
  <2>1. /\ i + 1 \in DOMAIN D /\ C[i] = D[i + 1] /\ k = D[1] /\ 1 \in DOMAIN D /\ i + 1 # 1
        /\ C[i] \in Nat
    <3>1. C # <<>>
      OBVIOUS
    <3>2. C \in Seq(Nat)
      BY <1>6
    <3>3. C[i] \in Nat
      BY ONLY <3>2, i \in DOMAIN C
    <3> HIDE DEF k
    <3> QED
      BY <1>6, <3>1, <3>3, Zenon
  <2>2. C[i] < c /\ C[i] # k /\ \A j \in DOMAIN m : m[j].offset # C[i]
    BY <1>7, <2>1
  <2>3. C[i] < d
    <3> HIDE DEF c
    <3> QED
      BY <1>8, <2>1, <2>2
  <2> QED
    BY <1>4, <1>5, <2>2, <2>3
<1>14. Disposed(t, C)
  BY <1>10, <1>11, <1>12, <1>13 DEF Disposed, d
<1> QED
  BY <1>3, <1>5, <1>6, <1>8, <1>9, <1>14 DEF k, t, C, d

-----------------------------------------------------------------------------
(* The operations on the table of one object.                                *)

\* The object o has a table of its own, with the structure i and the heap g.
Ready(h, g, ob, new, gic, pic, o, i, e) ==
    /\ Sound(g, new, gic, pic)
    /\ new[o] = Cell(i, e, ob[o].construct_struct, ob[o].slots)
    /\ i \in AliveIn(g) /\ g.st[i].unique /\ g.st[i].owner # None
    /\ Entries(g, i) = Entries(h, ob[o].structure)
    /\ g.st[i].deleted = h.st[ob[o].structure].deleted
    /\ g.st[i].proto = h.st[ob[o].structure].proto
    /\ \A t \in AliveIn(h) : g.st[t].proto = h.st[t].proto
    /\ \A p \in Objects : ExistsIn(ob, p) => ExistsIn(new, p)
    /\ \A y : With(new, o, y) = With(ob, o, y)
    /\ \A y : With(SeenIn(g, new), o, y) = With(SeenIn(h, ob), o, y)

LEMMA Readied ==
    ASSUME NEW h, NEW ob, NEW gic, NEW pic, Sound(h, ob, gic, pic),
           NEW o \in Objects, ExistsIn(ob, o),
           NEW i \in Structure, h.st[i] = None, NEW e \in BOOLEAN
    PROVE  LET g == WithTable(NewUnique(h, ob[o].structure, i), i)
               new == With(ob, o, Cell(i, e, ob[o].construct_struct, ob[o].slots))
           IN  Ready(h, g, ob, new, gic, pic, o, i, e) /\ ~Cached(gic, pic, i)
<1> DEFINE s == ob[o].structure
           f == NewUnique(h, s, i)
           g == WithTable(f, i)
           y == Cell(i, e, ob[o].construct_struct, ob[o].slots)
           new == With(ob, o, y)
<1>1. /\ Sound(f, new, gic, pic)
      /\ MovedTo(h, f, ob, gic, pic, o, i)
      /\ SeenIn(f, new) = With(SeenIn(h, ob), o, View(f, y))
  BY Moved
<1>2. o \in DOMAIN ob
  BY DEF Sound, ObjectsSound
<1>3. new[o] = y
  BY <1>2 DEF With
<1> HIDE DEF f, s, new
<1>4. /\ new[o].structure = i /\ i \in AliveIn(f) /\ f.st[i].unique /\ ExistsIn(new, o)
      /\ ~Cached(gic, pic, i)
      /\ Entries(f, i) = Entries(h, s) /\ f.st[i].deleted = h.st[s].deleted
      /\ f.st[i].proto = h.st[s].proto
  BY <1>1, <1>3, MarksAssumption DEF Cell, MovedTo, ExistsIn, AliveIn, s
<1> HIDE DEF y
<1>5. /\ Sound(g, new, gic, pic) /\ AllStay(f, g) /\ g.st[i].owner # None
      /\ SeenIn(g, new) = SeenIn(f, new)
  BY <1>1, <1>4, TableBuilt
<1>6. Stays(f, g, i)
  BY <1>4, <1>5 DEF AllStay
<1>7. \A z : With(new, o, z) = With(ob, o, z)
  BY WithFacts DEF new
<1>8. \A z : With(SeenIn(g, new), o, z) = With(SeenIn(h, ob), o, z)
  BY <1>1, <1>5, WithFacts
<1> HIDE DEF g
<1>10. \A t \in AliveIn(h) : g.st[t].proto = h.st[t].proto
  BY <1>1, <1>5 DEF MovedTo, AllStay, Stays, Same
<1>11. \A p \in Objects : ExistsIn(ob, p) => ExistsIn(new, p)
  <2>1. \A p \in Objects : p # o => new[p] = ob[p]
    <3>1. \A p \in Objects : p \in DOMAIN ob
      BY Zenon DEF Sound, ObjectsSound
    <3>2. \A p \in DOMAIN ob : p # o => With(ob, o, y)[p] = ob[p]
      BY DEF With
    <3> QED
      BY <3>1, <3>2, Zenon DEF new
  <2> QED
    BY <1>4, <2>1 DEF ExistsIn
<1>9. Ready(h, g, ob, new, gic, pic, o, i, e)
  BY <1>3, <1>4, <1>5, <1>6, <1>7, <1>8, <1>10, <1>11 DEF Ready, Stays, Same, s, y
<1> QED
  BY <1>4, <1>9 DEF g, f, s, new, y

\* A heap with another table, and with other deleted offsets.
Tabling(h, i, m) == [h EXCEPT !.tb[h.st[i].owner] = m]
Disposing(h, i, m, D) == [h EXCEPT !.tb[h.st[i].owner] = m, !.st[i].deleted = D]

LEMMA ChangedBy ==
    ASSUME NEW h \in Heap, NEW i \in AliveIn(h), h.st[i].owner \in Structure,
           NEW m \in Maps, NEW D \in Seq(Nat)
    PROVE  /\ Changed(h, Disposing(h, i, m, D), i, m, D) /\ Disposing(h, i, m, D).tr = h.tr
           /\ D = h.st[i].deleted =>
                Changed(h, Tabling(h, i, m), i, m, D) /\ Tabling(h, i, m).tr = h.tr
<1> DEFINE k == h.st[i].owner
           g == [h EXCEPT !.tb[k] = m, !.st[i].deleted = D]
           f == [h EXCEPT !.tb[k] = m]
           y == WithDeleted(h.st[i], D)
<1>1. h = [st |-> h.st, tb |-> h.tb, tr |-> h.tr]
      /\ h.st \in [Structure -> StructureRecord \cup {None}]
      /\ h.tb \in [Structure -> Maps] /\ h.tr \in [Structure -> Links]
      /\ h.st[i] \in StructureRecord /\ i \in Structure
  BY DEF Heap, AliveIn
<1>a. [h.st EXCEPT ![i].deleted = D] = [h.st EXCEPT ![i] = y]
  BY DEF WithDeleted
<1> HIDE DEF y, k
<1>3. f = [st |-> h.st, tb |-> [h.tb EXCEPT ![k] = m], tr |-> h.tr]
  <2> DEFINE B == [h.tb EXCEPT ![k] = m]
  <2>1. f = [h EXCEPT !.tb = B]
    BY Zenon
  <2>2. h = [st |-> h.st, tb |-> h.tb, tr |-> h.tr]
    BY <1>1
  <2> HIDE DEF B, f, g
  <2>3. [h EXCEPT !.tb = B] = [st |-> h.st, tb |-> B, tr |-> h.tr]
    BY <2>2
  <2> QED
    BY <2>1, <2>3 DEF B
<1>2. g = [st |-> [h.st EXCEPT ![i] = y], tb |-> [h.tb EXCEPT ![k] = m], tr |-> h.tr]
  <2> DEFINE B == [h.tb EXCEPT ![k] = m]
             A == [h.st EXCEPT ![i].deleted = D]
             q == [st |-> h.st, tb |-> B, tr |-> h.tr]
  <2>1. g = [f EXCEPT !.st[i].deleted = D]
    OBVIOUS
  <2>2. [q EXCEPT !.st[i].deleted = D] = [q EXCEPT !.st = A]
    BY Zenon
  <2>3. [q EXCEPT !.st = A] = [st |-> A, tb |-> B, tr |-> h.tr]
    <3> HIDE DEF A, B
    <3> QED
      OBVIOUS
  <2>4. f = q
    BY <1>3
  <2>5. A = [h.st EXCEPT ![i] = y]
    BY <1>a
  <2> HIDE DEF A, q, f, g
  <2> QED
    BY <2>1, <2>2, <2>3, <2>4, <2>5
<1>4. y \in StructureRecord
  BY <1>1, WithDeletedFields DEF y
<1> HIDE DEF g, f
<1>5. [h.st EXCEPT ![i] = y] \in [Structure -> StructureRecord \cup {None}]
  BY <1>1, <1>4
<1>6. [h.tb EXCEPT ![k] = m] \in [Structure -> Maps]
  BY <1>1
<1>7. g \in Heap /\ f \in Heap
  BY <1>1, <1>2, <1>3, <1>5, <1>6 DEF Heap
<1>8. D = h.st[i].deleted => [h.st EXCEPT ![i] = y] = h.st
  <2> SUFFICES ASSUME D = h.st[i].deleted PROVE [h.st EXCEPT ![i] = y] = h.st
    OBVIOUS
  <2>1. y = h.st[i]
    BY <1>1 DEF WithDeleted, StructureRecord, y
  <2> QED
    BY <1>1, <2>1
<1>9. Changed(h, g, i, m, D) /\ g.tr = h.tr
  BY <1>2, <1>7 DEF Changed, y, k
<1>10. D = h.st[i].deleted => Changed(h, f, i, m, D) /\ f.tr = h.tr
  BY <1>3, <1>7, <1>8 DEF Changed, y, k
<1> QED
  BY <1>9, <1>10 DEF g, f, k, Tabling, Disposing

\* What becomes of an object that is ready when its table becomes m, in f, and
\* the object y.
Becomes(h, g, f, ob, gic, pic, o, i, m, D, y) ==
    /\ Changed(g, f, i, m, D) /\ f.tr = g.tr
    /\ Disposed(m, D)
    /\ y = Cell(i, y.extensible, y.construct_struct, y.slots)
    /\ y.extensible \in BOOLEAN
    /\ SlotsFit(m, Cardinality(DOMAIN m) + Len(D), y.slots)
    /\ y.construct_struct \in {None, ob[o].construct_struct}
    /\ o \in Constructors => FunctionFits(h, m, ob, y)
    /\ Cached(gic, pic, i) =>
        LET E == Entries(h, ob[o].structure) IN \A n \in DOMAIN E : n \in DOMAIN m /\ m[n] = E[n]

LEMMA TableBecomes ==
    ASSUME NEW h, NEW g, NEW f, NEW ob, NEW new, NEW gic, NEW pic, NEW o \in Objects, NEW i, NEW e,
           Sound(h, ob, gic, pic), ExistsIn(ob, o), Ready(h, g, ob, new, gic, pic, o, i, e),
           NEW m \in Maps, NEW D \in Seq(Nat), NEW y,
           Becomes(h, g, f, ob, gic, pic, o, i, m, D, y)
    PROVE  /\ Sound(f, With(ob, o, y), gic, pic)
           /\ Entries(f, i) = m
           /\ SeenIn(f, With(ob, o, y)) =
                With(SeenIn(h, ob), o, Viewed(h.st[ob[o].structure].proto, y.extensible, m, y.slots))
<1>1. /\ Sound(g, new, gic, pic)
      /\ new[o].structure = i /\ new[o].construct_struct = ob[o].construct_struct
      /\ g.st[i].unique /\ g.st[i].owner # None /\ i \in AliveIn(g) /\ ExistsIn(new, o)
      /\ Entries(g, i) = Entries(h, ob[o].structure)
      /\ g.st[i].proto = h.st[ob[o].structure].proto
  BY MarksAssumption DEF Ready, Cell, ExistsIn, AliveIn
<1>2. o \in Constructors => FunctionFits(g, m, new, y)
  <2> SUFFICES ASSUME o \in Constructors PROVE FunctionFits(g, m, new, y)
    OBVIOUS
  <2>1. FunctionFits(h, m, ob, y)
    BY DEF Becomes
  <2>2. y.construct_struct # None => y.construct_struct \in AliveIn(h)
    BY DEF Becomes, Sound, ObjectsSound, ObjectSound, RecordSound, ConstructSound
  <2>3. y.construct_struct # None =>
            g.st[y.construct_struct].proto = h.st[y.construct_struct].proto
    BY <2>2 DEF Ready
  <2>4. \A v : CurrentIn(ob, v) => CurrentIn(new, v)
    BY DEF Ready, CurrentIn
  <2> QED
    BY <2>1, <2>3, <2>4 DEF FunctionFits
<1>3. Retabled(g, f, new, gic, pic, o, m, D, y)
  BY <1>1, <1>2 DEF Becomes, Retabled
<1>4. /\ Sound(f, With(new, o, y), gic, pic)
      /\ Entries(f, i) = m
      /\ SeenIn(f, With(new, o, y)) =
            With(SeenIn(g, new), o, Viewed(g.st[i].proto, y.extensible, m, y.slots))
  <2>1. g.st[new[o].structure].unique /\ g.st[new[o].structure].owner # None
    BY <1>1
  <2>2. /\ Sound(f, With(new, o, y), gic, pic)
        /\ Entries(f, new[o].structure) = m
        /\ SeenIn(f, With(new, o, y)) =
            With(SeenIn(g, new), o, Viewed(g.st[new[o].structure].proto, y.extensible, m, y.slots))
    BY <1>1, <1>3, <2>1, TableStep
  <2> QED
    BY <1>1, <2>2
<1>5. With(new, o, y) = With(ob, o, y)
  BY DEF Ready
<1>6. \A v : With(SeenIn(g, new), o, v) = With(SeenIn(h, ob), o, v)
  BY DEF Ready
<1> QED
  BY <1>1, <1>4, <1>5, <1>6

-----------------------------------------------------------------------------
(* A property gets another value and other attributes.                       *)

\* In the map m, which has the offsets of E, n is another property, and its
\* slot in the new slots has v.
Rewrites(E, m, n, slots, v, new) ==
    /\ \A i, j \in DOMAIN E : E[i].offset = E[j].offset => i = j
    /\ n \in DOMAIN E /\ DOMAIN m = DOMAIN E
    /\ \A j \in DOMAIN E : m[j].offset = E[j].offset
    /\ \A j \in DOMAIN E \ {n} : m[j] = E[j]
    /\ E[n].offset \in DOMAIN slots
    /\ new = With(slots, E[n].offset, v)

\* A property with the attributes of the entry e and the value v.
Having(e, v) == [kind |-> e.kind, on |-> e.on, value |-> v]

LEMMA RewritesFacts ==
    ASSUME NEW E, NEW m, NEW n, NEW slots, NEW v, NEW new, Rewrites(E, m, n, slots, v, new)
    PROVE  /\ DOMAIN new = DOMAIN slots
           /\ new[E[n].offset] = v
           /\ \A j \in DOMAIN E \ {n} : new[E[j].offset] = slots[E[j].offset]
           /\ InSlot(m[n], new) = Having(m[n], v)
           /\ \A j \in DOMAIN E \ {n} : InSlot(m[j], new) = InSlot(E[j], slots)
<1> DEFINE k == E[n].offset
<1>1. /\ k \in DOMAIN slots /\ new = [slots EXCEPT ![k] = v]
      /\ m[n].offset = k
      /\ \A j \in DOMAIN E \ {n} : m[j] = E[j] /\ E[j].offset # k
  BY DEF Rewrites, With
<1> HIDE DEF k
<1>2. DOMAIN new = DOMAIN slots /\ new[k] = v /\ \A i : i # k => new[i] = slots[i]
  <2>1. ASSUME NEW i, i # k PROVE new[i] = slots[i]
    <3>1. CASE i \in DOMAIN slots
      BY <1>1, <2>1, <3>1
    <3>2. CASE i \notin DOMAIN slots
      BY <1>1, <2>1, <3>2
    <3> QED
      BY <3>1, <3>2
  <2> QED
    BY <1>1, <2>1
<1>3. \A j \in DOMAIN E \ {n} : new[E[j].offset] = slots[E[j].offset]
  BY <1>1, <1>2
<1>4. InSlot(m[n], new) = Having(m[n], v)
  BY <1>1, <1>2 DEF InSlot, Having
<1>5. \A j \in DOMAIN E \ {n} : InSlot(m[j], new) = InSlot(E[j], slots)
  BY <1>1, <1>3 DEF InSlot
<1> QED
  BY <1>2, <1>3, <1>4, <1>5 DEF k

LEMMA RewritesFit ==
    ASSUME NEW E, NEW m, NEW n, NEW slots, NEW v, NEW new, Rewrites(E, m, n, slots, v, new),
           NEW c, SlotsFit(E, c, slots),
           Having(m[n], v) \in StoredSlot
    PROVE  SlotsFit(m, c, new)
<1>1. /\ DOMAIN new = DOMAIN slots
      /\ InSlot(m[n], new) \in StoredSlot
      /\ \A j \in DOMAIN E \ {n} : InSlot(m[j], new) = InSlot(E[j], slots)
  BY RewritesFacts
<1>2. DOMAIN m = DOMAIN E
  BY DEF Rewrites
<1> QED
  BY <1>1, <1>2 DEF SlotsFit

Rebound(x, n, p) == [x EXCEPT !.props[n] = p]

LEMMA RewritesViewed ==
    ASSUME NEW E, NEW m, NEW n, NEW slots, NEW v, NEW new, Rewrites(E, m, n, slots, v, new),
           NEW proto, NEW e
    PROVE  Viewed(proto, e, m, new) =
            Rebound(Viewed(proto, e, E, slots), n, Having(m[n], v))
<1> DEFINE p == Having(m[n], v)
           F == [j \in DOMAIN E |-> InSlot(E[j], slots)]
           G == [j \in DOMAIN m |-> InSlot(m[j], new)]
<1>1. /\ InSlot(m[n], new) = p
      /\ \A j \in DOMAIN E \ {n} : InSlot(m[j], new) = InSlot(E[j], slots)
  BY RewritesFacts
<1>2. DOMAIN m = DOMAIN E /\ n \in DOMAIN E
  BY DEF Rewrites
<1>3. G = [F EXCEPT ![n] = p]
  <2> HIDE DEF p
  <2> QED
    BY <1>1, <1>2
<1>4. Rebound([proto |-> proto, extensible |-> e, props |-> F], n, p)
        = [proto |-> proto, extensible |-> e, props |-> [F EXCEPT ![n] = p]]
  <2> HIDE DEF F, p
  <2> QED
    BY DEF Rebound
<1> QED
  BY <1>3, <1>4 DEF Viewed

\* A function whose properties are redefined keeps its prototype property.
LEMMA RewritesFunction ==
    ASSUME NEW E, NEW m, NEW n, NEW slots, NEW v, NEW new, Rewrites(E, m, n, slots, v, new),
           NEW h, NEW ob, NEW x, x.slots = slots, FunctionFits(h, E, ob, x),
           NEW y, y.slots = new, y.construct_struct \in {None, x.construct_struct},
           n = Prototype => /\ CurrentIn(ob, v)
                            /\ m[n].kind = "data" /\ "C" \notin m[n].on
    PROVE  FunctionFits(h, m, ob, y)
<1>1. /\ new[E[n].offset] = v
      /\ \A j \in DOMAIN E \ {n} : new[E[j].offset] = slots[E[j].offset]
  BY RewritesFacts
<1>2. /\ DOMAIN m = DOMAIN E /\ n \in DOMAIN E
      /\ \A j \in DOMAIN E : m[j].offset = E[j].offset
      /\ \A j \in DOMAIN E \ {n} : m[j] = E[j]
  BY DEF Rewrites
<1>3. CASE n = Prototype
  BY <1>1, <1>2, <1>3 DEF FunctionFits
<1>4. CASE n # Prototype
  <2>1. m[Prototype] = E[Prototype] /\ new[m[Prototype].offset] = slots[E[Prototype].offset]
    BY <1>1, <1>2, <1>4 DEF FunctionFits
  <2> QED
    BY <1>2, <2>1 DEF FunctionFits
<1> QED
  BY <1>3, <1>4

\* What may be stored as the property n of o, c being what o remembers then.
Storable(ob, o, n, t, c) ==
    /\ t \in StoredSlot
    /\ c \in {None, ob[o].construct_struct}
    /\ o \in Constructors /\ n = Prototype =>
        /\ CurrentIn(ob, t.value) /\ t.kind = "data" /\ "C" \notin t.on

\* Every property has its slot.
LEMMA SlotThere ==
    ASSUME NEW h, NEW ob, NEW gic, NEW pic, Sound(h, ob, gic, pic),
           NEW o \in Objects, ExistsIn(ob, o)
    PROVE  LET s == ob[o].structure
               E == Entries(h, s)
           IN  /\ s \in AliveIn(h) /\ E \in Maps /\ Disposed(E, h.st[s].deleted)
               /\ h.st[s].deleted \in Seq(Nat) /\ h.st[s].proto \in Objects \cup {NoObject}
               /\ SlotsFit(E, Cardinality(DOMAIN E) + Len(h.st[s].deleted), ob[o].slots)
               /\ \A n \in DOMAIN E : E[n].offset \in Nat /\ E[n].offset \in DOMAIN ob[o].slots
               /\ ob[o] = Cell(s, ob[o].extensible, ob[o].construct_struct, ob[o].slots)
               /\ ob[o].extensible \in BOOLEAN
               /\ o \in Constructors => FunctionFits(h, E, ob, ob[o])
<1> DEFINE s == ob[o].structure
           E == Entries(h, s)
           D == h.st[s].deleted
<1>1. /\ Shaped(h) /\ ObjectSound(h, ob, o) /\ s \in AliveIn(h) /\ Layout(h, s)
      /\ SlotsSound(h, s, ob[o].slots)
      /\ ob[o] = Cell(s, ob[o].extensible, ob[o].construct_struct, ob[o].slots)
      /\ ob[o].extensible \in BOOLEAN
      /\ o \in Constructors => FunctionFits(h, E, ob, ob[o])
  BY DEF Sound, HeapSound, ObjectsSound, ObjectSound, RecordSound, HolderSound, FunctionSound
<1> HIDE DEF s
<1>2. /\ Disposed(E, D) /\ D \in Seq(Nat) /\ E \in Maps
      /\ SlotsSize(h, s) = Cardinality(DOMAIN E) + Len(D)
      /\ h.st[s].proto \in Objects \cup {NoObject}
  <2>1. h.st[s] \in StructureRecord
    BY <1>1 DEF Shaped, Heap, AliveIn
  <2> QED
    BY <1>1, <2>1, EntriesStep, LayoutDisposed DEF StructureRecord
<1> HIDE DEF E, D
<1>3. SlotsFit(E, Cardinality(DOMAIN E) + Len(D), ob[o].slots)
  BY <1>1, <1>2 DEF SlotsFit, SlotsSound, E
<1>4. \A n \in DOMAIN E : E[n].offset \in Nat /\ E[n].offset \in DOMAIN ob[o].slots
  <2> SUFFICES ASSUME NEW n \in DOMAIN E
               PROVE  E[n].offset \in Nat /\ E[n].offset \in DOMAIN ob[o].slots
    OBVIOUS
  <2>1. E[n].offset \in Nat
    BY <1>2, MapsFacts DEF MapEntry
  <2>2. E[n].offset < Cardinality(DOMAIN E) + Len(D)
    BY <1>2 DEF Disposed
  <2> QED
    BY <1>3, <2>1, <2>2 DEF SlotsFit
<1> QED
  BY <1>1, <1>2, <1>3, <1>4 DEF s, E, D

\* A value is stored in the slot of a property that keeps its attributes.
LEMMA ValueChanged ==
    ASSUME NEW h, NEW ob, NEW gic, NEW pic, Sound(h, ob, gic, pic),
           NEW o \in Objects, ExistsIn(ob, o), NEW n \in DOMAIN Entries(h, ob[o].structure),
           NEW t, NEW c, Storable(ob, o, n, t, c),
           t = Having(Entries(h, ob[o].structure)[n], t.value)
    PROVE  LET s == ob[o].structure
               y == Cell(s, ob[o].extensible, c,
                         With(ob[o].slots, Entries(h, s)[n].offset, t.value))
           IN  /\ Sound(h, With(ob, o, y), gic, pic)
               /\ SeenIn(h, With(ob, o, y)) = With(SeenIn(h, ob), o, Rebound(View(h, ob[o]), n, t))
<1> DEFINE s == ob[o].structure
           E == Entries(h, s)
           slots == ob[o].slots
           z == With(slots, E[n].offset, t.value)
           y == Cell(s, ob[o].extensible, c, z)
           D == h.st[s].deleted
<1>1. /\ s \in AliveIn(h) /\ E \in Maps /\ Disposed(E, D)
      /\ SlotsFit(E, Cardinality(DOMAIN E) + Len(D), slots)
      /\ \A j \in DOMAIN E : E[j].offset \in Nat /\ E[j].offset \in DOMAIN slots
      /\ ob[o].extensible \in BOOLEAN
      /\ o \in Constructors => FunctionFits(h, E, ob, ob[o])
  BY SlotThere
<1>2. /\ y = Cell(y.structure, y.extensible, y.construct_struct, y.slots)
      /\ y.structure = s /\ y.extensible = ob[o].extensible /\ y.construct_struct = c /\ y.slots = z
  BY DEF Cell
<1>3. RecordSound(h, ob, ob[o]) /\ HolderSound(h, ob, s) /\ Layout(h, s)
  BY DEF Sound, ObjectsSound, ObjectSound, RecordSound, HolderSound
<1> HIDE DEF y, E
<1>4. Rewrites(E, E, n, slots, t.value, z)
  BY <1>1 DEF Rewrites, Disposed, E
<1> HIDE DEF z
<1>5. SlotsFit(E, Cardinality(DOMAIN E) + Len(D), z)
  <2>1. Having(E[n], t.value) \in StoredSlot
    BY DEF Storable, E
  <2> QED
    BY <1>1, <1>4, <2>1, RewritesFit
<1>6. RecordSound(h, ob, y)
  <2>1. SlotsSound(h, s, z)
    <3>1. SlotsSize(h, s) = Cardinality(DOMAIN E) + Len(D)
      BY <1>3 DEF Layout, E
    <3> QED
      BY <1>5, <3>1 DEF SlotsFit, SlotsSound, E
  <2>2. ConstructSound(h, ob, c)
    BY <1>3 DEF RecordSound, ConstructSound, Storable
  <2> QED
    BY <1>1, <1>2, <1>3, <2>1, <2>2 DEF RecordSound
<1>7. o \in Constructors => FunctionSound(h, ob, y)
  <2> SUFFICES ASSUME o \in Constructors PROVE FunctionFits(h, E, ob, y)
    BY <1>2 DEF FunctionSound, E
  <2>1. E[n].kind = t.kind /\ E[n].on = t.on
    BY DEF Having, E
  <2>2. n = Prototype => /\ CurrentIn(ob, t.value)
                         /\ E[n].kind = "data" /\ "C" \notin E[n].on
    BY <1>2, <2>1 DEF Storable
  <2>3. y.construct_struct \in {None, ob[o].construct_struct}
    BY <1>2 DEF Storable
  <2> QED
    BY <1>1, <1>2, <1>4, <2>2, <2>3, RewritesFunction
<1>8. View(h, y) = Rebound(View(h, ob[o]), n, t)
  <2>1. Having(E[n], t.value) = t
    BY DEF E
  <2>2. Viewed(h.st[s].proto, ob[o].extensible, E, z)
            = Rebound(Viewed(h.st[s].proto, ob[o].extensible, E, slots), n, Having(E[n], t.value))
    BY <1>4, RewritesViewed
  <2> QED
    BY <1>2, <2>1, <2>2 DEF View, E
<1>9. y.structure = ob[o].structure
  BY <1>2
<1>10. /\ Sound(h, With(ob, o, y), gic, pic)
       /\ SeenIn(h, With(ob, o, y)) = With(SeenIn(h, ob), o, View(h, y))
  BY <1>6, <1>7, <1>9, PlacedHere
<1> QED
  BY <1>8, <1>10 DEF y, z, E

\* A property gets another value and other attributes: the object moves to a
\* new unique structure.
LEMMA AttributesChanged ==
    ASSUME NEW h, NEW ob, NEW gic, NEW pic, Sound(h, ob, gic, pic),
           NEW o \in Objects, ExistsIn(ob, o), NEW n \in DOMAIN Entries(h, ob[o].structure),
           NEW t, NEW c, Storable(ob, o, n, t, c),
           NEW i \in Structure, h.st[i] = None
    PROVE  LET E == Entries(h, ob[o].structure)
               g == ChangeAttributes(h, ob[o].structure, i, n, Attrs(t))
               y == Cell(i, ob[o].extensible, c, With(ob[o].slots, E[n].offset, t.value))
           IN  /\ Sound(g, With(ob, o, y), gic, pic)
               /\ Entries(g, i) = Attributed(E, n, Attrs(t))
               /\ SeenIn(g, With(ob, o, y)) = With(SeenIn(h, ob), o, Rebound(View(h, ob[o]), n, t))
<1> DEFINE s == ob[o].structure
           e == ob[o].extensible
           E == Entries(h, s)
           slots == ob[o].slots
           D == h.st[s].deleted
           z == With(slots, E[n].offset, t.value)
           y == Cell(i, e, c, z)
           m == Attributed(E, n, Attrs(t))
           f == WithTable(NewUnique(h, s, i), i)
           g == ChangeAttributes(h, s, i, n, Attrs(t))
           new == With(ob, o, Cell(i, e, ob[o].construct_struct, slots))
<1>1. /\ s \in AliveIn(h) /\ E \in Maps /\ Disposed(E, D) /\ D \in Seq(Nat)
      /\ SlotsFit(E, Cardinality(DOMAIN E) + Len(D), slots)
      /\ \A j \in DOMAIN E : E[j].offset \in Nat /\ E[j].offset \in DOMAIN slots
      /\ e \in BOOLEAN
      /\ o \in Constructors => FunctionFits(h, E, ob, ob[o])
  BY SlotThere
<1>2. Ready(h, f, ob, new, gic, pic, o, i, e) /\ ~Cached(gic, pic, i)
  BY <1>1, Readied
<1> HIDE DEF f, new
<1>3. /\ f \in Heap /\ i \in AliveIn(f) /\ f.st[i].owner \in Structure
      /\ f.st[i].deleted = D /\ Entries(f, i) = E /\ f.st[i].owner # None
      /\ Shaped(f)
  BY <1>2 DEF Ready, Sound, HeapSound, Shaped, Linked, AliveIn
<1>4. f.tb[f.st[i].owner] = E
  BY <1>3, EntriesStep
<1>5. Attrs(t) \in Attributes /\ Attrs(t).kind = t.kind /\ Attrs(t).on = t.on
  BY DEF Attrs, Attributes, Storable, StoredSlot
<1> HIDE DEF E
<1>6. /\ m \in Maps /\ DOMAIN m = DOMAIN E
      /\ \A j \in DOMAIN E : m[j].offset = E[j].offset
      /\ \A j \in DOMAIN E \ {n} : m[j] = E[j]
      /\ m[n].kind = t.kind /\ m[n].on = t.on
  <2>1. n \in DOMAIN E
    BY DEF E
  <2> QED
    BY <1>1, <1>5, <2>1, AttributedFacts
<1>7. g = [f EXCEPT !.tb[f.st[i].owner] = m]
  <2> DEFINE a == Attrs(t)
             k == f.st[i].owner
  <2>1. g = [f EXCEPT !.tb[k][n] = [offset |-> @.offset, kind |-> a.kind, on |-> a.on]]
    BY DEF ChangeAttributes, f
  <2> HIDE DEF a, k
  <2>2. [f EXCEPT !.tb[k][n] = [offset |-> @.offset, kind |-> a.kind, on |-> a.on]]
         = [f EXCEPT !.tb[k] = Attributed(f.tb[k], n, a)]
    BY Zenon DEF Attributed
  <2>3. Attributed(f.tb[k], n, a) = m
    BY <1>4 DEF a, k
  <2> QED
    BY <2>1, <2>2, <2>3 DEF k
<1> HIDE DEF m, g
<1>8. Changed(f, g, i, m, D) /\ g.tr = f.tr
  BY <1>1, <1>3, <1>6, <1>7, ChangedBy DEF Tabling
<1>9. Disposed(m, D) /\ Cardinality(DOMAIN m) = Cardinality(DOMAIN E)
  BY <1>1, <1>6, DisposedLike
<1>10. Rewrites(E, m, n, slots, t.value, z)
  BY <1>1, <1>6 DEF Rewrites, Disposed, E
<1> HIDE DEF z
<1>11. Having(m[n], t.value) = t
  BY <1>6 DEF Having, Storable, StoredSlot
<1>12. SlotsFit(m, Cardinality(DOMAIN m) + Len(D), z)
  <2>1. Having(m[n], t.value) \in StoredSlot
    BY <1>11 DEF Storable
  <2> QED
    BY <1>1, <1>9, <1>10, <2>1, RewritesFit
<1>13. /\ y.structure = i /\ y.extensible = e /\ y.construct_struct = c /\ y.slots = z
       /\ y = Cell(i, y.extensible, y.construct_struct, y.slots)
  BY DEF Cell
<1> HIDE DEF y
<1>14. c \in {None, ob[o].construct_struct}
  BY DEF Storable
<1>15. o \in Constructors => FunctionFits(h, m, ob, y)
  <2> SUFFICES ASSUME o \in Constructors PROVE FunctionFits(h, m, ob, y)
    OBVIOUS
  <2>1. n = Prototype => /\ CurrentIn(ob, t.value)
                         /\ m[n].kind = "data" /\ "C" \notin m[n].on
    BY <1>6, <1>13 DEF Storable
  <2>2. y.construct_struct \in {None, ob[o].construct_struct}
    BY <1>13, <1>14
  <2> QED
    BY <1>1, <1>10, <1>13, <2>1, <2>2, RewritesFunction
<1>16. Becomes(h, f, g, ob, gic, pic, o, i, m, D, y)
  BY <1>1, <1>2, <1>8, <1>9, <1>12, <1>13, <1>14, <1>15 DEF Becomes
<1>17. /\ Sound(g, With(ob, o, y), gic, pic)
       /\ Entries(g, i) = m
       /\ SeenIn(g, With(ob, o, y)) =
            With(SeenIn(h, ob), o, Viewed(h.st[s].proto, y.extensible, m, y.slots))
  <2>1. Sound(h, ob, gic, pic) /\ ExistsIn(ob, o) /\ o \in Objects
    OBVIOUS
  <2>2. m \in Maps /\ D \in Seq(Nat)
    BY <1>1, <1>6
  <2> QED
    BY ONLY <1>2, <1>16, <2>1, <2>2, TableBecomes
<1>18. Viewed(h.st[s].proto, y.extensible, m, y.slots) = Rebound(View(h, ob[o]), n, t)
  <2>1. Viewed(h.st[s].proto, e, m, z)
            = Rebound(Viewed(h.st[s].proto, e, E, slots), n, Having(m[n], t.value))
    BY <1>10, RewritesViewed
  <2> QED
    BY <1>11, <1>13, <2>1 DEF View, E
<1> QED
  BY <1>17, <1>18 DEF y, g, m, E, z

Removed(x, n) == [x EXCEPT !.props = [j \in DOMAIN @ \ {n} |-> @[j]]]

\* A configurable property is deleted.
LEMMA Deleted ==
    ASSUME NEW h, NEW ob, NEW gic, NEW pic, Sound(h, ob, gic, pic),
           NEW o \in Objects, ExistsIn(ob, o), NEW n \in DOMAIN Entries(h, ob[o].structure),
           "C" \in Entries(h, ob[o].structure)[n].on,
           NEW i \in Structure, h.st[i] = None
    PROVE  LET E == Entries(h, ob[o].structure)
               g == DeleteProperty(h, ob[o].structure, i, n)
               y == Cell(i, ob[o].extensible, ob[o].construct_struct,
                         With(ob[o].slots, E[n].offset, Hole))
           IN  /\ Sound(g, With(ob, o, y), gic, pic)
               /\ SeenIn(g, With(ob, o, y)) = With(SeenIn(h, ob), o, Removed(View(h, ob[o]), n))
<1> DEFINE s == ob[o].structure
           e == ob[o].extensible
           c == ob[o].construct_struct
           E == Entries(h, s)
           slots == ob[o].slots
           D == h.st[s].deleted
           z == With(slots, E[n].offset, Hole)
           y == Cell(i, e, c, z)
           m == Without(E, n)
           C == <<E[n].offset>> \o D
           f == WithTable(NewUnique(h, s, i), i)
           g == DeleteProperty(h, s, i, n)
           new == With(ob, o, Cell(i, e, c, slots))
<1>1. /\ s \in AliveIn(h) /\ E \in Maps /\ Disposed(E, D) /\ D \in Seq(Nat)
      /\ SlotsFit(E, Cardinality(DOMAIN E) + Len(D), slots)
      /\ \A j \in DOMAIN E : E[j].offset \in Nat /\ E[j].offset \in DOMAIN slots
      /\ e \in BOOLEAN
      /\ o \in Constructors => FunctionFits(h, E, ob, ob[o])
  BY SlotThere
<1>2. Ready(h, f, ob, new, gic, pic, o, i, e) /\ ~Cached(gic, pic, i)
  BY <1>1, Readied
<1> HIDE DEF f, new
<1>3. /\ f \in Heap /\ i \in AliveIn(f) /\ f.st[i].owner \in Structure
      /\ f.st[i].deleted = D /\ Entries(f, i) = E /\ f.st[i].owner # None
      /\ Shaped(f)
  BY <1>2 DEF Ready, Sound, HeapSound, Shaped, Linked, AliveIn
<1>4. f.tb[f.st[i].owner] = E
  BY <1>3, EntriesStep
<1> HIDE DEF E
<1>5. n \in DOMAIN E
  BY DEF E
<1>6. /\ m \in Maps /\ DOMAIN m = DOMAIN E \ {n}
      /\ \A j \in DOMAIN E \ {n} : m[j] = E[j]
  BY <1>1, <1>5, WithoutFacts
<1>7. g = [f EXCEPT !.tb[f.st[i].owner] = m, !.st[i].deleted = C]
  <2> DEFINE k == f.st[i].owner
             q == [f EXCEPT !.tb[k] = m]
  <2>1. g = [f EXCEPT !.tb[k] = [j \in DOMAIN @ \ {n} |-> @[j]],
                      !.st[i].deleted = <<f.tb[k][n].offset>> \o @]
    BY DEF DeleteProperty, f
  <2>2. [f EXCEPT !.tb[k] = [j \in DOMAIN @ \ {n} |-> @[j]],
                      !.st[i].deleted = <<f.tb[k][n].offset>> \o @]
        = [[f EXCEPT !.tb[k] = Without(f.tb[k], n)]
                EXCEPT !.st[i].deleted = <<f.tb[k][n].offset>> \o @]
    BY Zenon DEF Without
  <2>3. f.tb[k] = E
    BY <1>4
  <2>4. q.st[i].deleted = D
    BY <1>3 DEF Heap
  <2>5. [q EXCEPT !.st[i].deleted = <<E[n].offset>> \o @] = [q EXCEPT !.st[i].deleted = C]
    <3> HIDE DEF q
    <3> QED
      BY <2>4, Zenon
  <2> HIDE DEF k, C
  <2> QED
    BY <2>1, <2>2, <2>3, <2>5, Zenon DEF k
<1> HIDE DEF g
<1>8. Disposed(m, C) /\ C \in Seq(Nat) /\ Cardinality(DOMAIN m) + Len(C) = Cardinality(DOMAIN E) + Len(D)
  BY <1>1, <1>5, DisposedWithout
<1> HIDE DEF m, C
<1>9. Changed(f, g, i, m, C) /\ g.tr = f.tr
  <2>1. Changed(f, Disposing(f, i, m, C), i, m, C) /\ Disposing(f, i, m, C).tr = f.tr
    BY <1>3, <1>6, <1>8, ChangedBy
  <2> QED
    BY <1>7, <2>1 DEF Disposing
<1>10. \A j \in DOMAIN m : E[j].offset # E[n].offset
  BY <1>1, <1>5, <1>6 DEF Disposed
<1>11. DOMAIN z = DOMAIN slots /\ \A j \in DOMAIN m : InSlot(m[j], z) = InSlot(E[j], slots)
  <2>1. DOMAIN z = DOMAIN slots
    BY DEF With
  <2>2. ASSUME NEW j \in DOMAIN m PROVE z[E[j].offset] = slots[E[j].offset]
    BY <1>1, <1>6, <1>10 DEF With
  <2> QED
    BY <1>6, <2>1, <2>2 DEF InSlot
<1>12. SlotsFit(m, Cardinality(DOMAIN m) + Len(C), z)
  BY <1>1, <1>6, <1>8, <1>11 DEF SlotsFit
<1>13. /\ y.structure = i /\ y.extensible = e /\ y.construct_struct = c /\ y.slots = z
       /\ y = Cell(i, y.extensible, y.construct_struct, y.slots)
  BY DEF Cell
<1> HIDE DEF y, z
<1>15. o \in Constructors => FunctionFits(h, m, ob, y)
  <2> SUFFICES ASSUME o \in Constructors PROVE FunctionFits(h, m, ob, y)
    OBVIOUS
  <2>1. Prototype \in DOMAIN m
    BY <1>1, <1>6 DEF FunctionFits, E
  <2>2. m[Prototype] = E[Prototype] /\ z[m[Prototype].offset] = slots[E[Prototype].offset]
    BY <1>6, <1>11, <2>1 DEF InSlot
  <2> QED
    BY <1>1, <1>13, <2>1, <2>2 DEF FunctionFits
<1>16. Becomes(h, f, g, ob, gic, pic, o, i, m, C, y)
  BY <1>1, <1>2, <1>8, <1>9, <1>12, <1>13, <1>15 DEF Becomes
<1>17. /\ Sound(g, With(ob, o, y), gic, pic)
       /\ SeenIn(g, With(ob, o, y)) =
            With(SeenIn(h, ob), o, Viewed(h.st[s].proto, y.extensible, m, y.slots))
  BY <1>1, <1>2, <1>6, <1>8, <1>16, TableBecomes
<1>18. Viewed(h.st[s].proto, e, m, z) = Removed(Viewed(h.st[s].proto, e, E, slots), n)
  <2> DEFINE p == h.st[s].proto
             P == [j \in DOMAIN E |-> InSlot(E[j], slots)]
  <2>1. [j \in DOMAIN m |-> InSlot(m[j], z)] = [j \in DOMAIN P \ {n} |-> P[j]]
    BY <1>6, <1>11
  <2> HIDE DEF p, P
  <2>2. Removed([proto |-> p, extensible |-> e, props |-> P], n)
         = [proto |-> p, extensible |-> e, props |-> [j \in DOMAIN P \ {n} |-> P[j]]]
    BY DEF Removed
  <2> QED
    BY <2>1, <2>2 DEF Viewed, p, P
<1>19. Viewed(h.st[s].proto, y.extensible, m, y.slots) = Removed(View(h, ob[o]), n)
  BY <1>13, <1>18 DEF View, E
<1> QED
  BY <1>17, <1>19 DEF y, g, E, z

-----------------------------------------------------------------------------
(* Storage.                                                                  *)

\* What clp2 is by its value for a smaller argument.
Doubled(f, n) == IF n <= 1 THEN 1 ELSE 2 * f[(n + 1) \div 2]

DoubledTo(N, f) == f \in [0..N -> Nat] /\ \A n \in 0..N : f[n] = Doubled(f, n)

LEMMA DoublingExists ==
    ASSUME NEW N \in Nat
    PROVE  \E f : DoubledTo(N, f)
<1> DEFINE S == 0..N
           B == {0, 1}
           up == [t \in S |-> (t + 1) \div 2]
           base == [t \in S |-> 1]
           double == [v \in Nat |-> 2 * v]
           step == [t \in S |-> double]
<1>1. Chained(S, B, up)
  <2> DEFINE rank == [t \in S |-> t]
  <2>1. \A t \in S : t \notin B => up[t] \in S /\ rank[up[t]] < rank[t]
    OBVIOUS
  <2>2. rank \in [S -> 0..N]
    OBVIOUS
  <2> HIDE DEF rank, up, S, B
  <2> QED
    BY <2>1, <2>2 DEF Chained
<1>2. Recursion(S, Nat, B, up, base, step)
  <2>1. base \in [S -> Nat] /\ double \in [Nat -> Nat]
    OBVIOUS
  <2>2. step \in [S -> [Nat -> Nat]]
    <3> HIDE DEF double
    <3> QED
      BY <2>1
  <2> HIDE DEF base, step, up, S, B
  <2> QED
    BY <1>1, <2>1, <2>2 DEF Recursion
<1>3. PICK f : Solution(S, Nat, B, up, base, step, f)
  <2> HIDE DEF base, step, up, S, B
  <2> QED
    BY <1>2, LinearRecursion
<1>4. f \in [S -> Nat]
  BY <1>3 DEF Solution
<1>5. ASSUME NEW n \in S PROVE f[n] = Doubled(f, n)
  <2>1. f[n] = IF n \in B THEN base[n] ELSE step[n][f[up[n]]]
    BY <1>3 DEF Solution
  <2>2. CASE n <= 1
    BY <2>1, <2>2 DEF Doubled
  <2>3. CASE n > 1
    <3>1. up[n] = (n + 1) \div 2 /\ up[n] \in S
      BY <2>3
    <3>2. f[up[n]] \in Nat
      BY <1>4, <3>1
    <3> QED
      BY <2>1, <2>3, <3>1, <3>2 DEF Doubled
  <2> QED
    BY <2>2, <2>3
<1> QED
  BY <1>4, <1>5 DEF DoubledTo

LEMMA DoublingUnique ==
    ASSUME NEW N \in Nat, NEW M \in Nat, NEW f, NEW g, DoubledTo(N, f), DoubledTo(M, g)
    PROVE  \A n \in 0..N : n <= M => f[n] = g[n]
<1> DEFINE T == {n \in 0..N : n <= M /\ f[n] # g[n]}
<1>1. SUFFICES T = {}
  OBVIOUS
<1>2. SUFFICES ASSUME T # {} PROVE FALSE
  OBVIOUS
<1>3. PICK n \in T : \A k \in T : n <= k
  <2>1. T \in SUBSET Nat
    OBVIOUS
  <2> HIDE DEF T
  <2> QED
    BY <1>2, <2>1, Smallest
<1>4. n \in 0..N /\ n \in 0..M /\ f[n] # g[n]
  BY <1>3
<1>5. f[n] = Doubled(f, n) /\ g[n] = Doubled(g, n)
  BY <1>4 DEF DoubledTo
<1>6. n > 1
  BY <1>4, <1>5 DEF Doubled
<1> DEFINE k == (n + 1) \div 2
<1>7. k \in 0..N /\ k <= M /\ k < n
  BY <1>4, <1>6
<1>8. f[k] = g[k]
  <2>1. k \notin T
    <3> HIDE DEF k, T
    <3> QED
      BY <1>3, <1>4, <1>7
  <2> QED
    BY <1>7, <2>1
<1> QED
  BY <1>4, <1>5, <1>6, <1>8 DEF Doubled

\* The least power of two is as defined, and not below its argument.
LEMMA CeilingOfLog ==
    \A n \in Nat : clp2[n] \in Nat /\ clp2[n] >= n
<1> DEFINE F == [n \in Nat |-> (CHOOSE d : DoubledTo(n, d))[n]]
<1>1. \A n \in Nat : F[n] = Doubled(F, n)
  <2> SUFFICES ASSUME NEW n \in Nat PROVE F[n] = Doubled(F, n)
    OBVIOUS
  <2> DEFINE f == CHOOSE d : DoubledTo(n, d)
             k == (n + 1) \div 2
             g == CHOOSE d : DoubledTo(k, d)
  <2>1. DoubledTo(n, f)
    BY DoublingExists
  <2>2. F[n] = f[n] /\ f[n] = Doubled(f, n)
    <3>1. F[n] = f[n]
      OBVIOUS
    <3> HIDE DEF f, F
    <3>2. n \in 0..n
      OBVIOUS
    <3> QED
      BY <2>1, <3>1, <3>2 DEF DoubledTo
  <2>3. CASE n <= 1
    BY <2>2, <2>3 DEF Doubled
  <2>4. CASE n > 1
    <3>1. k \in Nat /\ k \in 0..n /\ k <= k
      BY <2>4
    <3>2. DoubledTo(k, g)
      BY <3>1, DoublingExists
    <3>3. F[k] = g[k]
      BY <3>1
    <3> HIDE DEF F, f, g, k
    <3>4. f[k] = g[k]
      BY <2>1, <3>1, <3>2, DoublingUnique
    <3> QED
      BY <2>2, <2>4, <3>3, <3>4 DEF Doubled, k
  <2> QED
    BY <2>3, <2>4
<1>2. F = [n \in Nat |-> Doubled(F, n)]
  <2>1. F = [n \in Nat |-> F[n]]
    OBVIOUS
  <2> HIDE DEF F
  <2> QED
    BY <1>1, <2>1
<1> HIDE DEF F
<1>3. F = [n \in Nat |-> IF n <= 1 THEN 1 ELSE 2 * F[(n + 1) \div 2]]
  BY <1>2 DEF Doubled
<1>4. clp2 = [n \in Nat |-> IF n <= 1 THEN 1 ELSE 2 * clp2[(n + 1) \div 2]]
  BY <1>3, Zenon DEF clp2
<1>5. \A n \in Nat : clp2[n] = IF n <= 1 THEN 1 ELSE 2 * clp2[(n + 1) \div 2]
  BY <1>4, Zenon
<1> DEFINE T == {n \in Nat : ~(clp2[n] \in Nat /\ clp2[n] >= n)}
<1>6. SUFFICES ASSUME T # {} PROVE FALSE
  OBVIOUS
<1>7. PICK n \in T : \A k \in T : n <= k
  BY <1>6, Smallest
<1>8. n \in Nat /\ ~(clp2[n] \in Nat /\ clp2[n] >= n)
  BY <1>7
<1>9. n > 1
  <2>1. n <= 1 => clp2[n] = 1
    BY <1>5, <1>8
  <2> QED
    BY <1>8, <2>1
<1> DEFINE k == (n + 1) \div 2
<1>10. k \in Nat /\ k < n /\ 2 * k >= n
  BY <1>8, <1>9
<1>11. clp2[k] \in Nat /\ clp2[k] >= k
  <2>1. k \notin T
    <3> HIDE DEF k, T
    <3> QED
      BY <1>7, <1>8, <1>10
  <2> QED
    BY <1>10, <2>1
<1>12. clp2[n] = 2 * clp2[k]
  BY <1>5, <1>8, <1>9
<1> HIDE DEF k
<1> QED
  BY <1>8, <1>10, <1>11, <1>12

\* The storage has room for the slots.
LEMMA CapacityFits ==
    ASSUME NEW h, NEW s, SlotsSize(h, s) \in Nat
    PROVE  Capacity(h, s) \in Nat /\ SlotsSize(h, s) <= Capacity(h, s)
<1> DEFINE n == SlotsSize(h, s)
<1>1. clp2[n] \in Nat /\ clp2[n] >= n
  BY CeilingOfLog
<1>2. Capacity(h, s) = IF n = 0 THEN 0 ELSE IF n < FirstCapacity THEN FirstCapacity ELSE clp2[n]
  BY DEF Capacity
<1> HIDE DEF n
<1> QED
  BY <1>1, <1>2, StructuresAssumption DEF n

\* The map m has the entry e of the property n besides those of E, and the new
\* slots, c of them, have v for it.
Adds(E, m, n, e, c, slots, v, new) ==
    /\ n \notin DOMAIN E /\ m = Bind(E, n, e)
    /\ \A j \in DOMAIN E : /\ E[j].offset \in 0..(c - 1) /\ E[j].offset # e.offset
                           /\ E[j].offset \in DOMAIN slots
    /\ c \in Nat /\ e.offset \in 0..(c - 1)
    /\ new = Stored(slots, c, e.offset, v)

LEMMA AddsDomain ==
    ASSUME NEW E, NEW m, NEW n, NEW e, NEW c, NEW slots, NEW v, NEW new,
           Adds(E, m, n, e, c, slots, v, new)
    PROVE  DOMAIN m = DOMAIN E \cup {n} /\ n \notin DOMAIN E
BY DEF Adds, Bind

LEMMA AddsFacts ==
    ASSUME NEW E, NEW m, NEW n, NEW e, NEW c, NEW slots, NEW v, NEW new,
           Adds(E, m, n, e, c, slots, v, new)
    PROVE  /\ m[n] = e
           /\ \A j \in DOMAIN E : m[j] = E[j]
           /\ \A j \in DOMAIN E : new[E[j].offset] = slots[E[j].offset]
           /\ \A j \in DOMAIN E : InSlot(m[j], new) = InSlot(E[j], slots)
           /\ InSlot(m[n], new) = Having(e, v)
<1>1. DOMAIN m = DOMAIN E \cup {n} /\ m[n] = e /\ \A j \in DOMAIN E : m[j] = E[j]
  BY DEF Adds, Bind
<1>2. new[e.offset] = v
  BY DEF Adds, Stored
<1>3. \A j \in DOMAIN E : new[E[j].offset] = slots[E[j].offset]
  BY DEF Adds, Stored
<1> QED
  BY <1>1, <1>2, <1>3 DEF InSlot, Having

LEMMA AddsFit ==
    ASSUME NEW E, NEW m, NEW n, NEW e, NEW c, NEW slots, NEW v, NEW new,
           Adds(E, m, n, e, c, slots, v, new),
           NEW k \in Nat, k <= c, NEW l, SlotsFit(E, l, slots),
           Having(e, v) \in StoredSlot
    PROVE  SlotsFit(m, k, new)
<1>1. c \in Nat
  BY DEF Adds
<1>2. \A j \in Nat : j < k => j \in DOMAIN new
  BY <1>1 DEF Adds, Stored
<1>3. \A j \in DOMAIN m : InSlot(m[j], new) \in StoredSlot
  <2>1. DOMAIN m = DOMAIN E \cup {n}
    BY AddsDomain
  <2>2. /\ \A j \in DOMAIN E : InSlot(m[j], new) = InSlot(E[j], slots)
        /\ InSlot(m[n], new) = Having(e, v)
    BY AddsFacts
  <2> QED
    BY <2>1, <2>2 DEF SlotsFit
<1> QED
  BY <1>2, <1>3 DEF SlotsFit

Extended(x, n, p) == [x EXCEPT !.props = Bind(@, n, p)]

LEMMA AddsViewed ==
    ASSUME NEW E, NEW m, NEW n, NEW e, NEW c, NEW slots, NEW v, NEW new,
           Adds(E, m, n, e, c, slots, v, new), NEW proto, NEW x
    PROVE  Viewed(proto, x, m, new) = Extended(Viewed(proto, x, E, slots), n, Having(e, v))
<1> DEFINE P == [j \in DOMAIN E |-> InSlot(E[j], slots)]
           Q == [j \in DOMAIN m |-> InSlot(m[j], new)]
<1>1. DOMAIN m = DOMAIN E \cup {n} /\ n \notin DOMAIN E
  BY AddsDomain
<1>2. Q = Bind(P, n, Having(e, v))
  <2>1. /\ \A j \in DOMAIN E : InSlot(m[j], new) = InSlot(E[j], slots)
        /\ InSlot(m[n], new) = Having(e, v)
    BY AddsFacts
  <2> QED
    BY <1>1, <2>1 DEF Bind
<1> HIDE DEF P, Q
<1>3. Extended([proto |-> proto, extensible |-> x, props |-> P], n, Having(e, v))
       = [proto |-> proto, extensible |-> x, props |-> Bind(P, n, Having(e, v))]
  BY DEF Extended
<1> QED
  BY <1>2, <1>3 DEF Viewed, P, Q

\* A function keeps its prototype property when it gets another property.
LEMMA AddsFunction ==
    ASSUME NEW E, NEW m, NEW n, NEW e, NEW c, NEW slots, NEW v, NEW new,
           Adds(E, m, n, e, c, slots, v, new),
           NEW h, NEW ob, NEW x, x.slots = slots, FunctionFits(h, E, ob, x),
           NEW y, y.slots = new, y.construct_struct \in {None, x.construct_struct}
    PROVE  FunctionFits(h, m, ob, y)
<1>1. DOMAIN m = DOMAIN E \cup {n}
  BY AddsDomain
<1>4. /\ \A j \in DOMAIN E : m[j] = E[j]
      /\ \A j \in DOMAIN E : new[E[j].offset] = slots[E[j].offset]
  BY AddsFacts
<1>2. Prototype \in DOMAIN E
  BY DEF FunctionFits
<1>3. m[Prototype] = E[Prototype] /\ new[m[Prototype].offset] = slots[E[Prototype].offset]
  BY <1>2, <1>4
<1> QED
  BY <1>1, <1>2, <1>3 DEF FunctionFits

\* A property is added in place to the unique structure of an object.
LEMMA AddedInPlace ==
    ASSUME NEW h, NEW ob, NEW gic, NEW pic, Sound(h, ob, gic, pic),
           NEW o \in Objects, ExistsIn(ob, o), h.st[ob[o].structure].unique,
           NEW n \in Names, n \notin DOMAIN Entries(h, ob[o].structure),
           NEW t \in StoredSlot, NEW c \in {None, ob[o].construct_struct}
    PROVE  LET s == ob[o].structure
               g == AddInPlace(h, s, n, Attrs(t))
               y == Cell(s, ob[o].extensible, c,
                         Stored(ob[o].slots, Capacity(g, s), Entries(g, s)[n].offset, t.value))
           IN  /\ Sound(g, With(ob, o, y), gic, pic)
               /\ SeenIn(g, With(ob, o, y)) = With(SeenIn(h, ob), o, Extended(View(h, ob[o]), n, t))
<1> DEFINE s == ob[o].structure
           e == ob[o].extensible
           E == Entries(h, s)
           slots == ob[o].slots
           D == h.st[s].deleted
           a == Attrs(t)
           p == Entry(SlotOf(E, D), a)
           m == Bind(E, n, p)
           C == Left(D)
           f == WithTable(h, s)
           g == AddInPlace(h, s, n, a)
           r == Capacity(g, s)
           z == Stored(slots, r, Entries(g, s)[n].offset, t.value)
           y == Cell(s, e, c, z)
<1>1. /\ s \in AliveIn(h) /\ E \in Maps /\ Disposed(E, D) /\ D \in Seq(Nat)
      /\ SlotsFit(E, Cardinality(DOMAIN E) + Len(D), slots)
      /\ \A j \in DOMAIN E : E[j].offset \in Nat /\ E[j].offset \in DOMAIN slots
      /\ e \in BOOLEAN
      /\ o \in Constructors => FunctionFits(h, E, ob, ob[o])
  BY SlotThere
<1>b. ob[o] = Cell(s, e, ob[o].construct_struct, slots)
  BY DEF Sound, ObjectsSound, ObjectSound, RecordSound
<1>2. /\ Sound(f, ob, gic, pic) /\ AllStay(h, f) /\ f.st[s].owner # None
      /\ SeenIn(f, ob) = SeenIn(h, ob)
  BY TableBuilt
<1> HIDE DEF f, s
<1>3. /\ Shaped(f) /\ f \in Heap /\ Stays(h, f, s) /\ Entries(f, s) = E /\ f.st[s].deleted = D
      /\ s \in AliveIn(f) /\ f.st[s].unique
      /\ f.st[s].owner \in Structure
  BY <1>1, <1>2 DEF AllStay, Stays, Same, HeapSound, Shaped, Linked, AliveIn, s
<1>4. Ready(h, f, ob, ob, gic, pic, o, s, e)
  BY <1>1, <1>b, <1>2, <1>3 DEF Ready, AllStay, Stays, Same, s
<1>5. f.tb[f.st[s].owner] = E
  BY <1>2, <1>3, EntriesStep
<1>6. NextOffset(f, s) = SlotOf(E, D)
  <2>1. SlotsSize(f, s) = Cardinality(DOMAIN E) + Len(D)
    BY <1>2, <1>3, SlotsSizeStep
  <2>2. D = <<>> => SlotsSize(f, s) = Cardinality(DOMAIN E)
    <3>1. Cardinality(DOMAIN E) \in Nat
      BY <1>1, MapsFacts, FS_CardinalityType
    <3>2. D = <<>> => Len(D) = 0
      OBVIOUS
    <3> HIDE DEF D, E
    <3> QED
      BY <2>1, <3>1, <3>2
  <2> HIDE DEF D, E
  <2> QED
    BY <1>3, <2>2 DEF NextOffset, SlotOf
<1> HIDE DEF E
<1>7. a \in Attributes /\ a.kind = t.kind /\ a.on = t.on
  BY DEF Attrs, Attributes, StoredSlot
<1> HIDE DEF a
<1>8. /\ m \in Maps /\ Disposed(m, C) /\ C \in Seq(Nat)
      /\ \A j \in DOMAIN E : E[j].offset # SlotOf(E, D)
      /\ SlotOf(E, D) \in Nat
  <2>1. n \notin DOMAIN E
    BY DEF E, s
  <2> QED
    BY <1>1, <1>7, <2>1, DisposedBind
<1>c. m[n] = p /\ DOMAIN m = DOMAIN E \cup {n} /\ \A j \in DOMAIN E : m[j] = E[j]
  <2>1. n \notin DOMAIN E
    BY DEF E, s
  <2> QED
    BY <2>1 DEF Bind
<1>9. g = Disposing(f, s, m, C)
  <2> DEFINE k == f.st[s].owner
             q == [f EXCEPT !.tb[k] = m]
  <2>1. g = [f EXCEPT !.tb[k] = Bind(@, n, Entry(NextOffset(f, s), a)),
                      !.st[s].deleted = IF @ = <<>> THEN @ ELSE Tail(@)]
    BY DEF AddInPlace, f, s
  <2>2. [f EXCEPT !.tb[k] = Bind(@, n, Entry(NextOffset(f, s), a)),
                  !.st[s].deleted = IF @ = <<>> THEN @ ELSE Tail(@)]
        = [[f EXCEPT !.tb[k] = Bind(f.tb[k], n, Entry(NextOffset(f, s), a))]
                EXCEPT !.st[s].deleted = IF @ = <<>> THEN @ ELSE Tail(@)]
    BY Zenon
  <2>3. Bind(f.tb[k], n, Entry(NextOffset(f, s), a)) = m
    BY <1>5, <1>6
  <2>4. q.st[s].deleted = D
    BY <1>3 DEF Heap
  <2>5. [q EXCEPT !.st[s].deleted = IF @ = <<>> THEN @ ELSE Tail(@)] = [q EXCEPT !.st[s].deleted = C]
    <3> HIDE DEF q, D
    <3> QED
      BY <2>4, Zenon DEF Left
  <2> HIDE DEF k, C, m
  <2> QED
    BY <2>1, <2>2, <2>3, <2>5, Zenon DEF k, Disposing
<1> HIDE DEF g, m, C
<1>10. Changed(f, g, s, m, C) /\ g.tr = f.tr
  BY <1>3, <1>8, <1>9, ChangedBy
<1>11. Shaped(g) /\ s \in AliveIn(g) /\ Entries(g, s) = m
      /\ g.st[s] = WithDeleted(f.st[s], C)
  <2>1. /\ Shaped(g) /\ AliveIn(g) = AliveIn(f)
        /\ \A i \in AliveIn(f) : f.st[i].owner # f.st[s].owner => Same(f, g, i)
        /\ \A i \in AliveIn(f) : i # s => g.st[i] = f.st[i]
        /\ g.st[s] = WithDeleted(f.st[s], C)
        /\ Entries(g, s) = m
    <3>1. Shaped(f) /\ s \in AliveIn(f) /\ f.st[s].unique /\ f.st[s].owner # None
      BY <1>2, <1>3
    <3>2. m \in Maps /\ C \in Seq(Nat) /\ Changed(f, g, s, m, C)
      BY <1>8, <1>10
    <3> QED
      BY ONLY <3>1, <3>2, TableChanged, Zenon
  <2> QED
    BY <1>3, <2>1
<1>12. r \in Nat /\ Cardinality(DOMAIN m) + Len(C) \in Nat /\ Cardinality(DOMAIN m) + Len(C) <= r
  <2>1. f.st[s] \in StructureRecord
    BY <1>3 DEF Heap, AliveIn
  <2>2. g.st[s].owner = f.st[s].owner /\ g.st[s].deleted = C
    BY <1>8, <1>11, <2>1 DEF WithDeleted, StructureRecord
  <2>3. SlotsSize(g, s) = Cardinality(DOMAIN m) + Len(C)
    BY <1>2, <1>11, <2>2, SlotsSizeStep
  <2>4. Cardinality(DOMAIN m) \in Nat /\ Len(C) \in Nat
    BY <1>8, MapsFacts, FS_CardinalityType
  <2>5. SlotsSize(g, s) \in Nat
    BY <2>3, <2>4
  <2>6. r \in Nat /\ SlotsSize(g, s) <= r
    BY <2>5, CapacityFits
  <2> QED
    BY <2>3, <2>5, <2>6
<1> HIDE DEF r
<1>13. p.offset = SlotOf(E, D) /\ p.kind = t.kind /\ p.on = t.on
  BY <1>7 DEF Entry
<1> HIDE DEF p
<1>14. Adds(E, m, n, p, r, slots, t.value, z)
  <2>1. ASSUME NEW j \in DOMAIN E PROVE E[j].offset \in 0..(r - 1)
    <3>1. m[j] = E[j] /\ j \in DOMAIN m
      BY <1>c
    <3>2. m[j].offset < Cardinality(DOMAIN m) + Len(C)
      BY <1>8, <3>1 DEF Disposed
    <3> QED
      BY <1>1, <1>12, <3>1, <3>2
  <2>2. p.offset \in 0..(r - 1)
    <3>1. m[n].offset < Cardinality(DOMAIN m) + Len(C)
      BY <1>8, <1>c DEF Disposed
    <3> QED
      BY <1>8, <1>c, <1>12, <1>13, <3>1
  <2>3. z = Stored(slots, r, p.offset, t.value)
    BY <1>c, <1>11
  <2>4. m = Bind(E, n, p) /\ n \notin DOMAIN E
    BY DEF m, E, s
  <2> HIDE DEF z
  <2> QED
    BY <1>1, <1>8, <1>12, <1>13, <2>1, <2>2, <2>3, <2>4 DEF Adds
<1> HIDE DEF z
<1>15. Having(p, t.value) = t
  BY <1>13 DEF Having, StoredSlot
<1>16. SlotsFit(m, Cardinality(DOMAIN m) + Len(C), z)
  BY <1>1, <1>12, <1>14, <1>15, AddsFit
<1>17. /\ y.structure = s /\ y.extensible = e /\ y.construct_struct = c /\ y.slots = z
       /\ y = Cell(s, y.extensible, y.construct_struct, y.slots)
  BY DEF Cell
<1> HIDE DEF y
<1>18. o \in Constructors => FunctionFits(h, m, ob, y)
  BY <1>1, <1>14, <1>17, AddsFunction
<1>19. \A j \in DOMAIN E : j \in DOMAIN m /\ m[j] = E[j]
  BY <1>c
<1>20. Becomes(h, f, g, ob, gic, pic, o, s, m, C, y)
  BY <1>1, <1>8, <1>10, <1>16, <1>17, <1>18, <1>19 DEF Becomes, E, s
<1>21. /\ Sound(g, With(ob, o, y), gic, pic)
       /\ SeenIn(g, With(ob, o, y)) =
            With(SeenIn(h, ob), o, Viewed(h.st[s].proto, y.extensible, m, y.slots))
  BY <1>4, <1>8, <1>20, TableBecomes DEF s
<1>22. Viewed(h.st[s].proto, y.extensible, m, y.slots) = Extended(View(h, ob[o]), n, t)
  <2>1. Viewed(h.st[s].proto, e, m, z) = Extended(Viewed(h.st[s].proto, e, E, slots), n, Having(p, t.value))
    BY <1>14, AddsViewed
  <2> QED
    BY <1>15, <1>17, <2>1 DEF View, E, s
<1> QED
  BY <1>21, <1>22 DEF y, g, z, r, E, s, a

\* A function forgets the structure for its instances.
LEMMA Forgotten ==
    ASSUME NEW h, NEW ob, NEW gic, NEW pic, Sound(h, ob, gic, pic),
           NEW o \in Objects, ExistsIn(ob, o), NEW c \in {None, ob[o].construct_struct}
    PROVE  LET y == Cell(ob[o].structure, ob[o].extensible, c, ob[o].slots) IN
           /\ Sound(h, With(ob, o, y), gic, pic)
           /\ SeenIn(h, With(ob, o, y)) = SeenIn(h, ob)
<1> DEFINE y == Cell(ob[o].structure, ob[o].extensible, c, ob[o].slots)
<1>1. RecordSound(h, ob, ob[o]) /\ (o \in Constructors => FunctionSound(h, ob, ob[o]))
  BY DEF Sound, ObjectsSound, ObjectSound
<1>2. /\ y.structure = ob[o].structure /\ y.extensible = ob[o].extensible
      /\ y.construct_struct = c /\ y.slots = ob[o].slots
      /\ y = Cell(y.structure, y.extensible, y.construct_struct, y.slots)
  BY DEF Cell
<1> HIDE DEF y
<1>3. RecordSound(h, ob, y)
  BY <1>1, <1>2 DEF RecordSound, ConstructSound
<1>4. o \in Constructors => FunctionSound(h, ob, y)
  BY <1>1, <1>2 DEF FunctionSound, FunctionFits
<1>5. /\ Sound(h, With(ob, o, y), gic, pic)
      /\ SeenIn(h, With(ob, o, y)) = With(SeenIn(h, ob), o, View(h, y))
  BY <1>2, <1>3, <1>4, PlacedHere
<1>6. View(h, y) = SeenIn(h, ob)[o]
  BY <1>2 DEF View, SeenIn
<1>7. With(SeenIn(h, ob), o, SeenIn(h, ob)[o]) = SeenIn(h, ob)
  <2> DEFINE f == SeenIn(h, ob)
  <2>1. f = [q \in Objects |-> f[q]]
    BY DEF SeenIn
  <2> HIDE DEF f
  <2>2. With(f, o, f[o]) = f
    BY <2>1 DEF With
  <2> QED
    BY <2>2 DEF f
<1> QED
  BY <1>5, <1>6, <1>7 DEF y

\* An object without the flags fs, that is extensible or not.
Locked(x, b, fs) == [x EXCEPT !.extensible = b, !.props = Unset(@, fs)]

LEMMA UnsetFacts ==
    ASSUME NEW m \in Maps, NEW fs
    PROVE  /\ Unset(m, fs) \in Maps
           /\ DOMAIN Unset(m, fs) = DOMAIN m
           /\ \A n \in DOMAIN m : /\ Unset(m, fs)[n].offset = m[n].offset
                                  /\ Unset(m, fs)[n].kind = m[n].kind
                                  /\ Unset(m, fs)[n].on = m[n].on \ fs
<1>1. m \in [DOMAIN m -> MapEntry] /\ DOMAIN m \subseteq Names /\ IsFiniteSet(DOMAIN m)
  BY MapsFacts
<1>2. ASSUME NEW n \in DOMAIN m
      PROVE  LET e == [m[n] EXCEPT !.on = @ \ fs] IN
             e \in MapEntry /\ e.offset = m[n].offset /\ e.kind = m[n].kind /\ e.on = m[n].on \ fs
  BY <1>1 DEF MapEntry
<1>3. DOMAIN Unset(m, fs) = DOMAIN m
  BY DEF Unset
<1>4. \A n \in DOMAIN m : Unset(m, fs)[n] = [m[n] EXCEPT !.on = @ \ fs]
  BY DEF Unset
<1>5. Unset(m, fs) \in [DOMAIN m -> MapEntry]
  BY <1>2 DEF Unset
<1>6. Unset(m, fs) \in Maps
  BY <1>1, <1>3, <1>5, MapsFacts
<1> QED
  BY <1>2, <1>3, <1>4, <1>6

UnsetSlot(p, fs) == [p EXCEPT !.on = @ \ fs]

LEMMA UnsetViewed ==
    ASSUME NEW E \in Maps, NEW fs, NEW slots, NEW proto, NEW e, NEW b
    PROVE  Viewed(proto, b, Unset(E, fs), slots) = Locked(Viewed(proto, e, E, slots), b, fs)
<1> DEFINE m == Unset(E, fs)
           P == [j \in DOMAIN E |-> InSlot(E[j], slots)]
<1>1. [j \in DOMAIN m |-> InSlot(m[j], slots)] = Unset(P, fs)
  <2>1. /\ DOMAIN m = DOMAIN E
        /\ \A n \in DOMAIN E : /\ m[n].offset = E[n].offset /\ m[n].kind = E[n].kind
                               /\ m[n].on = E[n].on \ fs
    BY UnsetFacts
  <2> HIDE DEF m
  <2>2. ASSUME NEW j \in DOMAIN E
        PROVE  InSlot(m[j], slots) = UnsetSlot(P[j], fs)
    <3>1. P[j] = [kind |-> E[j].kind, on |-> E[j].on, value |-> slots[E[j].offset]]
      BY DEF InSlot
    <3>2. \A k, l, v : UnsetSlot([kind |-> k, on |-> l, value |-> v], fs)
                        = [kind |-> k, on |-> l \ fs, value |-> v]
      BY DEF UnsetSlot
    <3> HIDE DEF P
    <3>3. UnsetSlot(P[j], fs)
           = [kind |-> E[j].kind, on |-> E[j].on \ fs, value |-> slots[E[j].offset]]
      BY <3>1, <3>2
    <3> QED
      BY <2>1, <3>3 DEF InSlot
  <2> QED
    BY <2>1, <2>2 DEF Unset, UnsetSlot
<1> HIDE DEF P, m
<1>2. Locked([proto |-> proto, extensible |-> e, props |-> P], b, fs)
       = [proto |-> proto, extensible |-> b, props |-> Unset(P, fs)]
  <2> DEFINE x == [proto |-> proto, extensible |-> e, props |-> P]
             y == [proto |-> proto, extensible |-> b, props |-> P]
             Q == Unset(P, fs)
  <2>1. [x EXCEPT !.extensible = b] = y
    OBVIOUS
  <2>2. x.props = P
    OBVIOUS
  <2>3. Locked(x, b, fs) = [[x EXCEPT !.extensible = b] EXCEPT !.props = Unset(x.props, fs)]
    BY Zenon DEF Locked
  <2>4. [y EXCEPT !.props = Q] = [proto |-> proto, extensible |-> b, props |-> Q]
    <3> HIDE DEF Q
    <3> QED
      OBVIOUS
  <2> HIDE DEF x, y
  <2> QED
    BY <2>1, <2>2, <2>3, <2>4, Zenon DEF x
<1> QED
  BY <1>1, <1>2 DEF Viewed, P, m

LEMMA Weakened ==
    ASSUME NEW h, NEW ob, NEW gic, NEW pic, Sound(h, ob, gic, pic),
           NEW o \in Objects, ExistsIn(ob, o),
           NEW i \in Structure, h.st[i] = None, NEW fs,
           NEW c \in {None, ob[o].construct_struct}, NEW b \in BOOLEAN
    PROVE  LET s == ob[o].structure
               g == Restricted(WithTable(NewUnique(h, s, i), i), i, fs)
               y == Cell(i, b, c, ob[o].slots)
           IN  /\ Sound(g, With(ob, o, y), gic, pic)
               /\ SeenIn(g, With(ob, o, y)) = With(SeenIn(h, ob), o, Locked(View(h, ob[o]), b, fs))
<1> DEFINE s == ob[o].structure
           E == Entries(h, s)
           slots == ob[o].slots
           D == h.st[s].deleted
           y == Cell(i, b, c, slots)
           m == Unset(E, fs)
           f == WithTable(NewUnique(h, s, i), i)
           g == Restricted(f, i, fs)
           new == With(ob, o, Cell(i, b, ob[o].construct_struct, slots))
<1>1. /\ s \in AliveIn(h) /\ E \in Maps /\ Disposed(E, D) /\ D \in Seq(Nat)
      /\ SlotsFit(E, Cardinality(DOMAIN E) + Len(D), slots)
      /\ o \in Constructors => FunctionFits(h, E, ob, ob[o])
  BY SlotThere
<1>2. Ready(h, f, ob, new, gic, pic, o, i, b) /\ ~Cached(gic, pic, i)
  BY <1>1, Readied
<1> HIDE DEF f, new
<1>3. /\ f \in Heap /\ i \in AliveIn(f) /\ f.st[i].owner \in Structure
      /\ f.st[i].deleted = D /\ Entries(f, i) = E /\ f.st[i].owner # None
      /\ Shaped(f)
  BY <1>2 DEF Ready, Sound, HeapSound, Shaped, Linked, AliveIn
<1>4. f.tb[f.st[i].owner] = E
  BY <1>3, EntriesStep
<1> HIDE DEF E
<1>5. m \in Maps
  BY <1>1, UnsetFacts
<1>6. /\ DOMAIN m = DOMAIN E
      /\ \A n \in DOMAIN E : /\ m[n].offset = E[n].offset /\ m[n].kind = E[n].kind
                             /\ m[n].on = E[n].on \ fs
  BY <1>1, UnsetFacts
<1>7. g = Tabling(f, i, m)
  BY <1>4 DEF Restricted, Tabling
<1> HIDE DEF m, g
<1>8. Changed(f, g, i, m, D) /\ g.tr = f.tr
  BY <1>1, <1>3, <1>5, <1>7, ChangedBy
<1>9. Disposed(m, D) /\ Cardinality(DOMAIN m) = Cardinality(DOMAIN E)
  BY <1>1, <1>6, DisposedLike
<1>10. SlotsFit(m, Cardinality(DOMAIN m) + Len(D), slots)
  <2>1. ASSUME NEW n \in DOMAIN m PROVE InSlot(m[n], slots) \in StoredSlot
    <3>1. InSlot(E[n], slots) \in StoredSlot
      BY <1>1, <1>6 DEF SlotsFit
    <3> QED
      BY <1>6, <3>1 DEF InSlot, StoredSlot
  <2> QED
    BY <1>1, <1>9, <2>1 DEF SlotsFit
<1>11. /\ y.structure = i /\ y.extensible = b /\ y.construct_struct = c /\ y.slots = slots
       /\ y = Cell(i, y.extensible, y.construct_struct, y.slots)
  BY DEF Cell
<1> HIDE DEF y
<1>12. o \in Constructors => FunctionFits(h, m, ob, y)
  <2> SUFFICES ASSUME o \in Constructors PROVE FunctionFits(h, m, ob, y)
    OBVIOUS
  <2>1. Prototype \in DOMAIN E
    BY <1>1 DEF FunctionFits
  <2>2. /\ m[Prototype].offset = E[Prototype].offset /\ m[Prototype].kind = E[Prototype].kind
        /\ m[Prototype].on = E[Prototype].on \ fs
    BY <1>6, <2>1
  <2> QED
    BY <1>1, <1>6, <1>11, <2>1, <2>2 DEF FunctionFits
<1>13. Becomes(h, f, g, ob, gic, pic, o, i, m, D, y)
  BY <1>1, <1>2, <1>8, <1>9, <1>10, <1>11, <1>12 DEF Becomes
<1>14. /\ Sound(g, With(ob, o, y), gic, pic)
       /\ SeenIn(g, With(ob, o, y)) =
            With(SeenIn(h, ob), o, Viewed(h.st[s].proto, y.extensible, m, y.slots))
  BY <1>1, <1>2, <1>5, <1>13, TableBecomes
<1>15. Viewed(h.st[s].proto, y.extensible, m, y.slots) = Locked(View(h, ob[o]), b, fs)
  <2>1. Viewed(h.st[s].proto, b, m, slots) = Locked(Viewed(h.st[s].proto, ob[o].extensible, E, slots), b, fs)
    BY <1>1, UnsetViewed DEF m
  <2> QED
    BY <1>11, <2>1 DEF View, E
<1> QED
  BY <1>14, <1>15 DEF y, g, f

\* An object that moves may also forget what it remembers for instances.
LEMMA MovedForgets ==
    ASSUME NEW h, NEW ob, NEW gic, NEW pic, Sound(h, ob, gic, pic),
           NEW o \in Objects, ExistsIn(ob, o),
           NEW i \in Structure, h.st[i] = None,
           NEW c \in {None, ob[o].construct_struct}, NEW b \in BOOLEAN
    PROVE  LET s == ob[o].structure
               g == NewUnique(h, s, i)
               y == Cell(i, b, c, ob[o].slots)
           IN  /\ Sound(g, With(ob, o, y), gic, pic)
               /\ SeenIn(g, With(ob, o, y)) =
                    With(SeenIn(h, ob), o, Viewed(h.st[s].proto, b, Entries(h, s), ob[o].slots))
<1> DEFINE s == ob[o].structure
           g == NewUnique(h, s, i)
           x == Cell(i, b, ob[o].construct_struct, ob[o].slots)
           y == Cell(i, b, c, ob[o].slots)
           new == With(ob, o, x)
<1>1. /\ Sound(g, new, gic, pic)
      /\ MovedTo(h, g, ob, gic, pic, o, i)
      /\ SeenIn(g, new) = With(SeenIn(h, ob), o, View(g, x))
  BY Moved
<1>2. o \in DOMAIN ob
  BY DEF Sound, ObjectsSound
<1> HIDE DEF x, g
<1>3. new[o] = x
  BY <1>2 DEF With
<1>4. \A z : With(new, o, z) = With(ob, o, z)
  BY WithFacts
<1> HIDE DEF new
<1>5. /\ x.structure = i /\ x.extensible = b /\ x.construct_struct = ob[o].construct_struct
      /\ x.slots = ob[o].slots
  BY DEF Cell, x
<1>6. ExistsIn(new, o)
  BY <1>3, <1>5, MarksAssumption DEF ExistsIn
<1>7. /\ Sound(g, With(new, o, y), gic, pic)
      /\ SeenIn(g, With(new, o, y)) = SeenIn(g, new)
  <2>1. y = Cell(new[o].structure, new[o].extensible, c, new[o].slots)
    BY <1>3, <1>5
  <2>2. c \in {None, new[o].construct_struct}
    BY <1>3, <1>5
  <2> HIDE DEF y
  <2> QED
    BY <1>1, <1>6, <2>1, <2>2, Forgotten
<1>8. View(g, x) = Viewed(h.st[s].proto, b, Entries(h, s), ob[o].slots)
  BY <1>1, <1>5 DEF View, MovedTo
<1> QED
  BY <1>1, <1>4, <1>7, <1>8 DEF g

\* Objects that lose the flags fs, be there any or not.
LEMMA Restricting ==
    ASSUME NEW h, NEW ob, NEW gic, NEW pic, Sound(h, ob, gic, pic),
           NEW o \in Objects, ExistsIn(ob, o),
           NEW fs, \A n \in DOMAIN Entries(h, ob[o].structure) :
                        Entries(h, ob[o].structure)[n].on \cap fs = {}
    PROVE  \A b : Viewed(h.st[ob[o].structure].proto, b, Entries(h, ob[o].structure), ob[o].slots)
                    = Locked(View(h, ob[o]), b, fs)
<1> DEFINE s == ob[o].structure
           E == Entries(h, s)
<1>1. E \in Maps
  BY SlotThere
<1> HIDE DEF E, s
<1>2. E \in [DOMAIN E -> MapEntry]
  BY <1>1, MapsFacts
<1>3. ASSUME NEW n \in DOMAIN E PROVE [E[n] EXCEPT !.on = @ \ fs] = E[n]
  <2>1. E[n].on \ fs = E[n].on
    BY DEF E, s
  <2>2. E[n] = [offset |-> E[n].offset, kind |-> E[n].kind, on |-> E[n].on]
    BY <1>2 DEF MapEntry
  <2> QED
    BY <2>1, <2>2
<1>4. Unset(E, fs) = E
  BY <1>2, <1>3 DEF Unset
<1> SUFFICES ASSUME NEW b
             PROVE  Viewed(h.st[s].proto, b, E, ob[o].slots) = Locked(View(h, ob[o]), b, fs)
  BY DEF E, s
<1>5. Viewed(h.st[s].proto, b, Unset(E, fs), ob[o].slots)
        = Locked(Viewed(h.st[s].proto, ob[o].extensible, E, ob[o].slots), b, fs)
  BY <1>1, UnsetViewed
<1> QED
  BY <1>4, <1>5 DEF View, E, s

-----------------------------------------------------------------------------
(* Transitions.                                                              *)

\* A shared structure has no deleted offsets, and as many slots as entries.
LEMMA SharedSize ==
    ASSUME NEW h, HeapSound(h), NEW s \in AliveIn(h), ~h.st[s].unique
    PROVE  /\ h.st[s].deleted = <<>> /\ Layout(h, s)
           /\ Entries(h, s) \in Maps /\ IsFiniteSet(DOMAIN Entries(h, s))
           /\ SlotsSize(h, s) = Cardinality(DOMAIN Entries(h, s))
           /\ Cardinality(DOMAIN Entries(h, s)) \in Nat
<1>1. Shaped(h) /\ Layout(h, s) /\ h.st[s].deleted = <<>>
  BY DEF HeapSound, Shaped, Linked
<1>2. Entries(h, s) \in Maps
  BY <1>1, EntriesStep
<1>3. SlotsSize(h, s) = Cardinality(DOMAIN Entries(h, s)) + Len(h.st[s].deleted)
      /\ Cardinality(DOMAIN Entries(h, s)) \in Nat /\ IsFiniteSet(DOMAIN Entries(h, s))
  BY <1>1, LayoutSize
<1>4. Len(<<>>) = 0
  OBVIOUS
<1> QED
  BY <1>1, <1>2, <1>3, <1>4

\* An object of a shared structure moves along a transition.
LEMMA Transited ==
    ASSUME NEW h, NEW ob, NEW gic, NEW pic, Sound(h, ob, gic, pic),
           NEW o \in Objects, ExistsIn(ob, o),
           NEW n \in Names, NEW t \in StoredSlot, NEW c \in {None, ob[o].construct_struct},
           NEW i, Leads(h, ob[o].structure, <<n, Attrs(t)>>, i)
    PROVE  LET y == Cell(i, ob[o].extensible, c,
                         Stored(ob[o].slots, Capacity(h, i), Entries(h, i)[n].offset, t.value))
           IN  /\ Sound(h, With(ob, o, y), gic, pic)
               /\ SeenIn(h, With(ob, o, y)) = With(SeenIn(h, ob), o, Extended(View(h, ob[o]), n, t))
<1> DEFINE s == ob[o].structure
           e == ob[o].extensible
           slots == ob[o].slots
           E == Entries(h, s)
           a == Attrs(t)
           p == Entry(Cardinality(DOMAIN E), a)
           m == Bind(E, n, p)
           r == Capacity(h, i)
           z == Stored(slots, r, Entries(h, i)[n].offset, t.value)
           y == Cell(i, e, c, z)
<1>1. /\ HeapSound(h) /\ Shaped(h) /\ RecordSound(h, ob, ob[o]) /\ HolderSound(h, ob, s)
      /\ s \in AliveIn(h) /\ Layout(h, s)
      /\ e \in BOOLEAN /\ SlotsSound(h, s, slots) /\ ConstructSound(h, ob, ob[o].construct_struct)
      /\ o \in Constructors => FunctionFits(h, E, ob, ob[o])
  BY DEF Sound, HeapSound, ObjectsSound, ObjectSound, RecordSound, HolderSound, FunctionSound
<1>2. /\ i \in AliveIn(h) /\ ~h.st[s].unique /\ ~h.st[i].unique
      /\ h.st[i].proto = h.st[s].proto
      /\ n \notin DOMAIN E
      /\ Entries(h, i) = m
  BY DEF Leads
<1> HIDE DEF s
<1>3. /\ E \in Maps /\ IsFiniteSet(DOMAIN E) /\ SlotsSize(h, s) = Cardinality(DOMAIN E)
      /\ Cardinality(DOMAIN E) \in Nat
  BY <1>1, <1>2, SharedSize
<1>4. /\ SlotsSize(h, i) = Cardinality(DOMAIN m) /\ Cardinality(DOMAIN m) \in Nat /\ Layout(h, i)
  BY <1>1, <1>2, SharedSize
<1> HIDE DEF E
<1>5. a.kind = t.kind /\ a.on = t.on /\ a \in Attributes
  BY DEF Attrs, Attributes, StoredSlot
<1> HIDE DEF a
<1>6. p.offset = Cardinality(DOMAIN E) /\ p.kind = t.kind /\ p.on = t.on
  BY <1>5 DEF Entry
<1> HIDE DEF p
<1>7. m[n] = p /\ DOMAIN m = DOMAIN E \cup {n} /\ \A j \in DOMAIN E : m[j] = E[j]
  BY <1>2 DEF Bind
<1>8. r \in Nat /\ SlotsSize(h, i) <= r
  BY <1>4, CapacityFits
<1>9. \A j \in DOMAIN m : m[j].offset < SlotsSize(h, i)
  BY <1>2, <1>4 DEF Layout
<1>10. \A j \in DOMAIN E : /\ E[j].offset \in Nat /\ E[j].offset < Cardinality(DOMAIN E)
                           /\ E[j].offset \in DOMAIN slots
  <2> SUFFICES ASSUME NEW j \in DOMAIN E
               PROVE  /\ E[j].offset \in Nat /\ E[j].offset < Cardinality(DOMAIN E)
                      /\ E[j].offset \in DOMAIN slots
    OBVIOUS
  <2>1. E[j].offset \in Nat
    BY <1>3, MapsFacts DEF MapEntry
  <2>2. E[j].offset < SlotsSize(h, s)
    BY <1>1 DEF Layout, E
  <2> QED
    BY <1>1, <1>3, <2>1, <2>2 DEF SlotsSound
<1> HIDE DEF m, r
<1>11. Adds(E, m, n, p, r, slots, t.value, z)
  <2>1. ASSUME NEW j \in DOMAIN E PROVE E[j].offset \in 0..(r - 1) /\ E[j].offset # p.offset
    <3>1. m[j] = E[j] /\ j \in DOMAIN m
      BY <1>7
    <3>2. E[j].offset < SlotsSize(h, i) /\ E[j].offset \in Nat /\ E[j].offset < Cardinality(DOMAIN E)
      BY <1>9, <1>10, <3>1
    <3>3. E[j].offset \in 0..(r - 1)
      BY <1>4, <1>8, <3>2
    <3>4. E[j].offset # p.offset
      BY <1>3, <1>6, <3>2
    <3> QED
      BY <3>3, <3>4
  <2>2. p.offset \in 0..(r - 1)
    <3>1. p.offset < SlotsSize(h, i)
      BY <1>7, <1>9
    <3> QED
      BY <1>3, <1>4, <1>6, <1>8, <3>1
  <2>3. z = Stored(slots, r, p.offset, t.value)
    BY <1>2, <1>7
  <2>4. m = Bind(E, n, p) /\ n \notin DOMAIN E
    BY <1>2 DEF m
  <2> HIDE DEF z
  <2> QED
    BY <1>8, <1>10, <2>1, <2>2, <2>3, <2>4 DEF Adds
<1> HIDE DEF z
<1>12. Having(p, t.value) = t
  BY <1>6 DEF Having, StoredSlot
<1>13. SlotsFit(m, SlotsSize(h, i), z)
  <2>1. SlotsFit(E, SlotsSize(h, s), slots)
    BY <1>1 DEF SlotsFit, SlotsSound, E
  <2> QED
    BY <1>4, <1>8, <1>11, <1>12, <2>1, AddsFit
<1>14. /\ y.structure = i /\ y.extensible = e /\ y.construct_struct = c /\ y.slots = z
       /\ y = Cell(y.structure, y.extensible, y.construct_struct, y.slots)
  BY DEF Cell
<1> HIDE DEF y
<1>15. RecordSound(h, ob, y)
  <2>1. HolderSound(h, ob, i)
    BY <1>1, <1>2, <1>4 DEF HolderSound, Private, ProtoIn
  <2>2. SlotsSound(h, i, z)
    BY <1>2, <1>13 DEF SlotsSound, SlotsFit
  <2>3. ConstructSound(h, ob, c)
    BY <1>1 DEF ConstructSound
  <2> QED
    BY <1>1, <1>14, <2>1, <2>2, <2>3 DEF RecordSound
<1>16. o \in Constructors => FunctionSound(h, ob, y)
  <2> SUFFICES ASSUME o \in Constructors PROVE FunctionFits(h, m, ob, y)
    BY <1>2, <1>14 DEF FunctionSound
  <2>1. y.construct_struct \in {None, ob[o].construct_struct}
    BY <1>14
  <2> QED
    BY <1>1, <1>11, <1>14, <2>1, AddsFunction
<1>17. h.st[y.structure].proto = h.st[ob[o].structure].proto /\ ~h.st[y.structure].unique
  BY <1>2, <1>14 DEF s
<1>18. /\ Sound(h, With(ob, o, y), gic, pic)
       /\ SeenIn(h, With(ob, o, y)) = With(SeenIn(h, ob), o, View(h, y))
  BY <1>15, <1>16, <1>17, PlacedHere
<1>19. View(h, y) = Extended(View(h, ob[o]), n, t)
  <2>1. Viewed(h.st[s].proto, e, m, z) = Extended(Viewed(h.st[s].proto, e, E, slots), n, Having(p, t.value))
    BY <1>11, AddsViewed
  <2>2. View(h, y) = Viewed(h.st[s].proto, e, m, z)
    BY <1>2, <1>14 DEF View
  <2> QED
    BY <1>12, <2>1, <2>2 DEF View, E, s
<1> QED
  BY <1>18, <1>19 DEF y, z, r

\* The record of the new structure to which a transition leads.
Child(h, s, n, attrs) ==
    [unique |-> FALSE, proto |-> h.st[s].proto, owner |-> None,
     deleted |-> <<>>,
     added |-> [name |-> n, entry |-> Entry(NextOffset(h, s), attrs)],
     previous |-> s, size |-> SlotsSize(h, s) + 1]

LEMMA ChildFields ==
    ASSUME NEW h, HeapSound(h), NEW s \in AliveIn(h), ~h.st[s].unique,
           NEW n \in Names, NEW attrs \in Attributes
    PROVE  LET x == Child(h, s, n, attrs)
               k == Cardinality(DOMAIN Entries(h, s))
           IN  /\ x \in StructureRecord /\ Joinable(h, x)
               /\ ~x.unique /\ x.proto = h.st[s].proto /\ x.owner = None /\ x.deleted = <<>>
               /\ x.previous = s /\ x.previous # None /\ x.size = k + 1
               /\ x.added # None /\ x.added.name = n /\ x.added.entry = Entry(k, attrs)
               /\ Entry(k, attrs) \in MapEntry
<1> DEFINE x == Child(h, s, n, attrs)
           k == Cardinality(DOMAIN Entries(h, s))
<1>1. /\ h.st[s].deleted = <<>> /\ SlotsSize(h, s) = k /\ k \in Nat
  BY SharedSize
<1>2. h.st[s] \in StructureRecord /\ s \in Structure /\ h.st[s].proto \in Objects \cup {NoObject}
  BY DEF HeapSound, Shaped, Heap, AliveIn, StructureRecord
<1>3. NextOffset(h, s) = k
  BY <1>1 DEF NextOffset
<1> HIDE DEF k
<1>4. Entry(k, attrs) \in MapEntry
  BY <1>1 DEF Entry, MapEntry, Attributes
<1> DEFINE e == Entry(k, attrs)
<1>5. x = [unique |-> FALSE, proto |-> h.st[s].proto, owner |-> None, deleted |-> <<>>,
           added |-> [name |-> n, entry |-> e], previous |-> s, size |-> k + 1]
  BY <1>1, <1>3 DEF Child
<1> HIDE DEF e, x
<1>6. [name |-> n, entry |-> e] \in [name : Names, entry : MapEntry]
  BY <1>4 DEF e
<1>7. [name |-> n, entry |-> e] # None /\ s # None
  BY <1>2, <1>6, MarksAssumption
<1>8. <<>> \in Seq(Nat)
  OBVIOUS
<1>9. x \in StructureRecord
  BY <1>1, <1>2, <1>5, <1>6, <1>8 DEF StructureRecord
<1>10. /\ ~x.unique /\ x.proto = h.st[s].proto /\ x.owner = None /\ x.deleted = <<>>
       /\ x.previous = s /\ x.size = k + 1
       /\ x.added = [name |-> n, entry |-> e]
  BY <1>5
<1>11. Joinable(h, x)
  BY <1>10 DEF Joinable
<1> QED
  BY <1>4, <1>7, <1>9, <1>10, <1>11 DEF k, x, e

\* The heap in which s has a new child.
LEMMA ChildAdded ==
    ASSUME NEW h, HeapSound(h), NEW s \in AliveIn(h), ~h.st[s].unique,
           NEW n \in Names, NEW attrs \in Attributes, n \notin DOMAIN Entries(h, s),
           NEW i \in Structure, h.st[i] = None
    PROVE  LET g == AddChild(h, s, i, n, attrs) IN
           AllStay(h, g) /\ Leads(g, s, <<n, attrs>>, i)
<1> DEFINE x == Child(h, s, n, attrs)
           k == Cardinality(DOMAIN Entries(h, s))
           key == <<n, attrs>>
           l == Bind(h.tr[s], key, i)
           g == AddChild(h, s, i, n, attrs)
<1>1. /\ x \in StructureRecord /\ Joinable(h, x)
      /\ ~x.unique /\ x.proto = h.st[s].proto /\ x.owner = None /\ x.deleted = <<>>
      /\ x.previous = s /\ x.previous # None /\ x.size = k + 1
      /\ x.added # None /\ x.added.name = n /\ x.added.entry = Entry(k, attrs)
      /\ Entry(k, attrs) \in MapEntry
  BY ChildFields
<1>2. /\ Shaped(h) /\ h \in Heap /\ s \in Structure
      /\ h = [st |-> h.st, tb |-> h.tb, tr |-> h.tr]
      /\ h.st \in [Structure -> StructureRecord \cup {None}]
      /\ h.tb \in [Structure -> Maps] /\ h.tr \in [Structure -> Links]
  BY DEF HeapSound, Shaped, Heap, AliveIn
<1>3. g = [st |-> [h.st EXCEPT ![i] = x], tb |-> h.tb, tr |-> [h.tr EXCEPT ![s] = l]]
  <2> DEFINE A == [h.st EXCEPT ![i] = x]
             B == [h.tr EXCEPT ![s] = l]
             q == [st |-> A, tb |-> h.tb, tr |-> h.tr]
  <2>1. g = [h EXCEPT !.st[i] = x, !.tr[s] = Bind(@, key, i)]
    BY DEF AddChild, Child
  <2> HIDE DEF x, key
  <2>2. [h EXCEPT !.st[i] = x, !.tr[s] = Bind(@, key, i)]
         = [[h EXCEPT !.st[i] = x] EXCEPT !.tr[s] = Bind(@, key, i)]
    OBVIOUS
  <2>3. [h EXCEPT !.st[i] = x] = [h EXCEPT !.st = A]
    BY Zenon
  <2>4. [h EXCEPT !.st = A] = q
    <3> HIDE DEF A
    <3> QED
      BY <1>2
  <2>5. [q EXCEPT !.tr[s] = Bind(@, key, i)] = [q EXCEPT !.tr = [q.tr EXCEPT ![s] = Bind(q.tr[s], key, i)]]
    BY Zenon
  <2>6. q.tr = h.tr
    OBVIOUS
  <2>7. [q EXCEPT !.tr = B] = [st |-> A, tb |-> h.tb, tr |-> B]
    <3> HIDE DEF A, B
    <3> QED
      OBVIOUS
  <2>8. [q.tr EXCEPT ![s] = Bind(q.tr[s], key, i)] = B
    <3> HIDE DEF q
    <3> QED
      BY <2>6
  <2> HIDE DEF q, g, A, B
  <2> QED
    BY <2>1, <2>2, <2>3, <2>4, <2>5, <2>7, <2>8 DEF A, B
<1> HIDE DEF g
<1>4. key \in Names \X Attributes
  OBVIOUS
<1>5. l \in Links
  <2>1. PICK K \in SUBSET (Names \X Attributes) : h.tr[s] \in [K -> Structure]
    <3> DEFINE f == h.tr[s]
    <3>1. f \in Links
      BY <1>2
    <3> HIDE DEF f
    <3>2. \E K \in SUBSET (Names \X Attributes) : f \in [K -> Structure]
      BY <3>1 DEF Links
    <3> QED
      BY <3>2 DEF f
  <2> HIDE DEF key
  <2>2. l \in [K \cup {key} -> Structure]
    BY <2>1 DEF Bind
  <2>3. K \cup {key} \in SUBSET (Names \X Attributes)
    BY <1>4, <2>1
  <2> HIDE DEF l
  <2> QED
    BY <2>2, <2>3 DEF Links
<1> HIDE DEF l, x
<1>6. g \in Heap
  BY <1>1, <1>2, <1>3, <1>5 DEF Heap
<1>7. Grown(h, g, i, x)
  BY <1>3, <1>6 DEF Grown
<1>8. /\ Shaped(g)
      /\ AliveIn(g) = AliveIn(h) \cup {i}
      /\ \A t \in AliveIn(h) : g.st[t] = h.st[t] /\ Same(h, g, t)
      /\ g.st[i] = x
  <2>1. /\ Shaped(h) /\ x \in StructureRecord /\ Joinable(h, x) /\ Grown(h, g, i, x)
    BY <1>1, <1>2, <1>7
  <2> QED
    BY <2>1, Grow DEF AliveIn
<1>9. i \in AliveIn(g) /\ s \in AliveIn(g) /\ s # i
  BY <1>8 DEF AliveIn
<1>10. Entries(g, s) = Entries(h, s) /\ SlotsSize(g, s) = k
  BY <1>8, SharedSize DEF Same
<1> DEFINE E == Entries(h, s)
           p == Entry(k, attrs)
           m == Bind(E, n, p)
<1>11. Entries(g, i) = m
  <2>1. Entries(g, i) = Bind(Entries(g, x.previous), x.added.name, x.added.entry)
    BY <1>1, <1>8, <1>9, EntriesStep
  <2> QED
    BY <1>1, <1>10, <2>1
<1>12. SlotsSize(g, i) = k + 1
  BY <1>1, <1>8, <1>9, SlotsSizeStep
<1> HIDE DEF p, E
<1>13. /\ h.st[s].deleted = <<>> /\ Layout(h, s) /\ E \in Maps /\ IsFiniteSet(DOMAIN E)
       /\ SlotsSize(h, s) = k /\ k \in Nat
  BY SharedSize DEF E
<1>14. m[n] = p /\ DOMAIN m = DOMAIN E \cup {n} /\ \A j \in DOMAIN E : m[j] = E[j]
  BY DEF Bind, E
<1>15. p.offset = k
  BY DEF p, Entry
<1> HIDE DEF m
<1>16. Layout(g, i)
  <2>1. Cardinality(DOMAIN m) = k + 1
    <3>1. n \notin DOMAIN E /\ k = Cardinality(DOMAIN E)
      BY DEF E
    <3> HIDE DEF k
    <3> QED
      BY <1>13, <1>14, <3>1, FS_AddElement
  <2> HIDE DEF k
  <2>2. g.st[i].deleted = <<>>
    BY <1>1, <1>8
  <2>3. ASSUME NEW j \in DOMAIN E PROVE E[j].offset \in Nat /\ E[j].offset < k
    <3>1. E[j].offset \in Nat
      BY <1>13, MapsFacts DEF MapEntry
    <3> QED
      BY <1>13, <3>1 DEF Layout, E
  <2>4. \A a, b \in DOMAIN E : E[a].offset = E[b].offset => a = b
    BY <1>13 DEF Layout, E
  <2>5. \A a, b \in DOMAIN m : m[a].offset = m[b].offset => a = b
    <3> SUFFICES ASSUME NEW a \in DOMAIN m, NEW b \in DOMAIN m, m[a].offset = m[b].offset
                 PROVE  a = b
      OBVIOUS
    <3>1. CASE a = n /\ b \in DOMAIN E
      BY <1>13, <1>14, <1>15, <2>3, <3>1
    <3>2. CASE b = n /\ a \in DOMAIN E
      BY <1>13, <1>14, <1>15, <2>3, <3>2
    <3>3. CASE a \in DOMAIN E /\ b \in DOMAIN E
      BY <1>14, <2>4, <3>3
    <3> QED
      BY <1>14, <3>1, <3>2, <3>3
  <2>6. \A j \in DOMAIN m : m[j].offset < k + 1
    BY <1>13, <1>14, <1>15, <2>3
  <2>7. Len(<<>>) = 0
    OBVIOUS
  <2> QED
    BY <1>11, <1>12, <1>13, <2>1, <2>2, <2>5, <2>6, <2>7 DEF Layout
<1>17. Leads(g, s, key, i)
  <2>1. key[1] = n /\ key[2] = attrs
    OBVIOUS
  <2> HIDE DEF key, k
  <2>2. Cardinality(DOMAIN Entries(g, s)) = k
    BY <1>10 DEF k
  <2> QED
    BY <1>1, <1>8, <1>9, <1>10, <1>11, <2>1, <2>2 DEF Leads, m, p, E
<1>18. Leading(h, g)
  <2>1. g.tr = [h.tr EXCEPT ![s] = l]
    BY <1>3
  <2>2. l[key] = i /\ DOMAIN l = DOMAIN h.tr[s] \cup {key}
        /\ \A j \in DOMAIN h.tr[s] : j # key => l[j] = h.tr[s][j]
    BY DEF l, Bind
  <2>3. ASSUME NEW t \in Structure, NEW j \in DOMAIN g.tr[t]
        PROVE  Leads(g, t, j, g.tr[t][j]) \/ (j \in DOMAIN h.tr[t] /\ g.tr[t][j] = h.tr[t][j])
    <3>1. CASE t # s
      BY <1>2, <2>1, <3>1
    <3>2. CASE t = s
      <4>1. g.tr[t] = l
        BY <1>2, <2>1, <3>2
      <4> HIDE DEF key
      <4> QED
        BY <1>17, <2>2, <3>2, <4>1
    <3> QED
      BY <3>1, <3>2
  <2> QED
    BY <2>3 DEF Leading
<1>19. HeapSound(g) /\ \A t \in AliveIn(h) : ~h.st[t].unique \/ t # x.previous => Stays(h, g, t)
  BY <1>1, <1>7, <1>16, <1>18, GrownSound
<1>20. AllStay(h, g)
  BY <1>1, <1>19 DEF AllStay
<1> QED
  BY <1>17, <1>20 DEF g

LEMMA FreshFacts ==
    ASSUME NEW h, HasFresh(h)
    PROVE  Fresh(h) \in Structure /\ h.st[Fresh(h)] = None
<1> DEFINE T == {i \in Structure : h.st[i] = None}
<1>1. T \in SUBSET Nat /\ T # {}
  BY StructuresAssumption DEF Structure, HasFresh
<1>2. \E c \in T : \A d \in T : c <= d
  <2> HIDE DEF T
  <2> QED
    BY <1>1, Smallest
<1>3. \E i \in Structure : h.st[i] = None /\ \A j \in Structure : h.st[j] = None => i <= j
  BY <1>2
<1> QED
  BY <1>3, Zenon DEF Fresh

\* What the objects are in a heap that has changed for none of them.
LEMMA SameView ==
    ASSUME NEW h, NEW g, NEW ob, SeenIn(g, ob) = SeenIn(h, ob), NEW o \in Objects, ExistsIn(ob, o)
    PROVE  View(g, ob[o]) = View(h, ob[o])
<1>1. SeenIn(g, ob)[o] = View(g, ob[o]) /\ SeenIn(h, ob)[o] = View(h, ob[o])
  BY DEF SeenIn
<1> QED
  BY <1>1

\* A property is added, in whatever way.
LEMMA PropertyAdded ==
    ASSUME NEW h, NEW ob, NEW gic, NEW pic, Sound(h, ob, gic, pic),
           NEW o \in Objects, ExistsIn(ob, o),
           NEW n \in Names, n \notin DOMAIN Entries(h, ob[o].structure),
           NEW t \in StoredSlot, NEW c \in {None, ob[o].construct_struct},
           NeedsChild(h, ob[o].structure, n, Attrs(t)) => HasFresh(h)
    PROVE  LET a == AddProperty(h, ob[o].structure, n, Attrs(t))
               y == Cell(a.to, ob[o].extensible, c,
                         Stored(ob[o].slots, Capacity(a.heap, a.to),
                                Entries(a.heap, a.to)[n].offset, t.value))
           IN  /\ Sound(a.heap, With(ob, o, y), gic, pic)
               /\ SeenIn(a.heap, With(ob, o, y)) =
                    With(SeenIn(h, ob), o, Extended(View(h, ob[o]), n, t))
<1> DEFINE s == ob[o].structure
           k == Attrs(t)
           a == AddProperty(h, s, n, k)
           y(g, i) == Cell(i, ob[o].extensible, c,
                           Stored(ob[o].slots, Capacity(g, i), Entries(g, i)[n].offset, t.value))
           Good(g, i) == /\ Sound(g, With(ob, o, y(g, i)), gic, pic)
                         /\ SeenIn(g, With(ob, o, y(g, i))) =
                                With(SeenIn(h, ob), o, Extended(View(h, ob[o]), n, t))
<1>1. SUFFICES Good(a.heap, a.to)
  OBVIOUS
<1>2. HeapSound(h) /\ s \in AliveIn(h) /\ s \in Structure
  BY DEF Sound, ObjectsSound, ObjectSound, RecordSound, HolderSound, AliveIn
<1>3. k \in Attributes
  BY DEF Attrs, Attributes, StoredSlot
<1>4. CASE h.st[s].unique
  <2>1. Good(AddInPlace(h, s, n, k), s)
    BY <1>4, AddedInPlace
  <2>2. a.heap = AddInPlace(h, s, n, k) /\ a.to = s
    BY <1>4 DEF AddProperty
  <2> HIDE DEF Good, a
  <2> QED
    BY <2>1, <2>2
<1>5. CASE ~h.st[s].unique /\ Transition(h, s, n, k) # None
  <2> DEFINE i == Transition(h, s, n, k)
  <2>1. <<n, k>> \in DOMAIN h.tr[s] /\ i = h.tr[s][<<n, k>>]
    BY <1>5 DEF Transition
  <2>2. Leads(h, s, <<n, k>>, i)
    BY <1>2, <2>1 DEF HeapSound
  <2>3. Good(h, i)
    <3> HIDE DEF i
    <3> QED
      BY <2>2, Transited
  <2>4. a.heap = h /\ a.to = i
    BY <1>5 DEF AddProperty, NeedsChild
  <2> HIDE DEF Good, a
  <2> QED
    BY <2>3, <2>4
<1>6. CASE ~h.st[s].unique /\ Transition(h, s, n, k) = None
  <2> DEFINE i == Fresh(h)
             g == AddChild(h, s, i, n, k)
  <2>1. i \in Structure /\ h.st[i] = None
    <3>1. HasFresh(h)
      BY <1>6 DEF NeedsChild
    <3> QED
      BY <3>1, FreshFacts
  <2>2. a.heap = g /\ a.to = i
    BY <1>6 DEF AddProperty, NeedsChild
  <2> HIDE DEF i, a
  <2>3. AllStay(h, g) /\ Leads(g, s, <<n, k>>, i)
    <3> HIDE DEF s, k
    <3> QED
      BY <1>2, <1>3, <1>6, <2>1, ChildAdded DEF s
  <2> HIDE DEF g
  <2>4. Sound(g, ob, gic, pic) /\ SeenIn(g, ob) = SeenIn(h, ob)
    BY <2>3, HeapChanged
  <2>5. View(g, ob[o]) = View(h, ob[o])
    BY <2>4, SameView
  <2>6. /\ Sound(g, With(ob, o, y(g, i)), gic, pic)
        /\ SeenIn(g, With(ob, o, y(g, i))) =
                With(SeenIn(g, ob), o, Extended(View(g, ob[o]), n, t))
    BY <2>3, <2>4, Transited
  <2>7. Good(g, i)
    BY <2>4, <2>5, <2>6
  <2> HIDE DEF Good
  <2> QED
    BY <2>2, <2>7
<1> QED
  BY <1>4, <1>5, <1>6

-----------------------------------------------------------------------------
(* Lookups.                                                                  *)

\* Where the lookup of n ends, by where it ends from the prototype.
HolderBody(h, n, f) ==
    [q \in Objects |->
        IF ~Exists(q) THEN NoObject
        ELSE IF HasOwn(h, q, n) THEN q
        ELSE LET p == h.st[object[q].structure].proto IN
             IF p = NoObject THEN NoObject ELSE f[p]]

\* The objects at which a lookup ends.
Ends(h, n) ==
    {q \in Objects : ~Exists(q) \/ HasOwn(h, q, n) \/ h.st[object[q].structure].proto = NoObject}

Onward(h) == [q \in Objects |-> h.st[object[q].structure].proto]

LEMMA LookupsEnd ==
    ASSUME NEW h, ObjectsSound(h, object), NEW n
    PROVE  /\ Chained(Objects, Ends(h, n), Onward(h))
           /\ \A q \in Objects : q \notin Ends(h, n) =>
                Onward(h)[q] \in Objects /\ Exists(Onward(h)[q])
<1> DEFINE B == {q \in Objects : object[q].structure = None \/ h.st[object[q].structure].proto = NoObject}
<1>1. Chained(Objects, B, Onward(h))
  BY DEF ObjectsSound, ProtosEnd, Onward
<1>2. \A q \in Objects : q \notin Ends(h, n) => q \notin B
  BY DEF Ends, Exists
<1> HIDE DEF B
<1>3. Chained(Objects, Ends(h, n), Onward(h))
  BY <1>1, <1>2, ChainedShorter
<1>4. ASSUME NEW q \in Objects, q \notin Ends(h, n)
      PROVE  Onward(h)[q] \in Objects /\ Exists(Onward(h)[q])
  <2>1. Exists(q) /\ h.st[object[q].structure].proto # NoObject
    BY <1>4 DEF Ends
  <2>2. ProtoIn(h, object, object[q].structure)
    BY <2>1 DEF ObjectsSound, ObjectSound, RecordSound, HolderSound, Exists, ExistsIn
  <2> QED
    BY <2>1, <2>2 DEF ProtoIn, Onward, Exists, ExistsIn
<1> QED
  BY <1>3, <1>4

LEMMA HolderExists ==
    ASSUME NEW h, ObjectsSound(h, object), NEW n
    PROVE  \E f : f = HolderBody(h, n, f)
<1> DEFINE V == Objects \cup {NoObject}
           B == Ends(h, n)
           up == Onward(h)
           base == [q \in Objects |-> IF Exists(q) /\ HasOwn(h, q, n) THEN q ELSE NoObject]
           id == [v \in V |-> v]
           step == [q \in Objects |-> id]
<1>1. Chained(Objects, B, up) /\ \A q \in Objects : q \notin B => up[q] \in Objects
  BY LookupsEnd
<1>2. Recursion(Objects, V, B, up, base, step)
  <2>1. base \in [Objects -> V]
    OBVIOUS
  <2>2. id \in [V -> V]
    OBVIOUS
  <2>3. step \in [Objects -> [V -> V]]
    <3> HIDE DEF id
    <3> QED
      BY <2>2
  <2> HIDE DEF V, B, up, base, step
  <2> QED
    BY <1>1, <2>1, <2>3 DEF Recursion
<1>3. PICK f : Solution(Objects, V, B, up, base, step, f)
  <2> HIDE DEF V, B, up, base, step
  <2> QED
    BY <1>2, LinearRecursion
<1>4. f \in [Objects -> V]
  BY <1>3 DEF Solution
<1>5. ASSUME NEW q \in Objects PROVE f[q] = HolderBody(h, n, f)[q]
  <2>1. f[q] = IF q \in B THEN base[q] ELSE step[q][f[up[q]]]
    BY <1>3 DEF Solution
  <2>2. q \notin B => f[up[q]] \in V
    BY <1>1, <1>4
  <2>3. q \notin B => f[q] = f[up[q]]
    BY <2>1, <2>2
  <2>4. q \in B => f[q] = base[q]
    BY <2>1
  <2>5. CASE q \in B
    <3>1. HolderBody(h, n, f)[q] = IF Exists(q) /\ HasOwn(h, q, n) THEN q ELSE NoObject
      BY <2>5 DEF HolderBody, Ends
    <3> QED
      BY <2>4, <2>5, <3>1
  <2>6. CASE q \notin B
    <3>1. HolderBody(h, n, f)[q] = f[up[q]]
      BY <2>6 DEF HolderBody, Ends, Onward
    <3> QED
      BY <2>3, <2>6, <3>1
  <2> QED
    BY <2>5, <2>6
<1>6. f = HolderBody(h, n, f)
  <2>1. HolderBody(h, n, f) = [q \in Objects |-> HolderBody(h, n, f)[q]]
    BY DEF HolderBody
  <2> QED
    BY <1>4, <1>5, <2>1
<1> QED
  BY <1>6

LEMMA HolderUnique ==
    ASSUME NEW h, ObjectsSound(h, object), NEW n,
           NEW f, f = HolderBody(h, n, f), NEW g, g = HolderBody(h, n, g)
    PROVE  \A q \in Objects : f[q] = g[q]
<1> DEFINE T == {q \in Objects : f[q] = g[q]}
           B == Ends(h, n)
           up == Onward(h)
<1>1. Chained(Objects, B, up) /\ \A q \in Objects : q \notin B => up[q] \in Objects
  BY LookupsEnd
<1>2. ASSUME NEW q \in Objects, q \in B \/ (up[q] \in Objects /\ up[q] \in T) PROVE q \in T
  <2>1. f[q] = HolderBody(h, n, f)[q] /\ g[q] = HolderBody(h, n, g)[q]
    BY Zenon
  <2>2. CASE q \in B
    <3>1. HolderBody(h, n, f)[q] = HolderBody(h, n, g)[q]
      BY <2>2 DEF HolderBody, Ends
    <3> QED
      BY <2>1, <3>1
  <2>3. CASE q \notin B
    <3>1. HolderBody(h, n, f)[q] = f[up[q]] /\ HolderBody(h, n, g)[q] = g[up[q]]
      BY <2>3 DEF HolderBody, Ends, Onward
    <3>2. f[up[q]] = g[up[q]]
      BY <1>2, <2>3
    <3> QED
      BY <2>1, <3>1, <3>2
  <2> QED
    BY <2>2, <2>3
<1> HIDE DEF B, up, T
<1>3. Objects \subseteq T
  BY <1>1, <1>2, ChainInduction
<1> QED
  BY <1>3 DEF T

LEMMA HolderIs ==
    ASSUME NEW h, ObjectsSound(h, object), NEW n
    PROVE  \E f : f = HolderBody(h, n, f) /\ \A q \in Objects : Holder(h, q, n) = f[q]
<1> DEFINE f == CHOOSE g : g = HolderBody(h, n, g)
<1>1. f = HolderBody(h, n, f)
  BY HolderExists
<1>2. ASSUME NEW q \in Objects PROVE Holder(h, q, n) = f[q]
  BY DEF Holder, HolderBody
<1> QED
  BY <1>1, <1>2

\* A lookup ends at an object that has the property, or at none.
LEMMA HolderFacts ==
    ASSUME NEW h, ObjectsSound(h, object), NEW n, NEW o \in Objects
    PROVE  Holder(h, o, n) # NoObject =>
            /\ Holder(h, o, n) \in Objects /\ Exists(Holder(h, o, n))
            /\ HasOwn(h, Holder(h, o, n), n)
<1>1. PICK f : f = HolderBody(h, n, f) /\ \A q \in Objects : Holder(h, q, n) = f[q]
  BY HolderIs
<1> DEFINE T == {q \in Objects : f[q] # NoObject => f[q] \in Objects /\ Exists(f[q]) /\ HasOwn(h, f[q], n)}
           B == Ends(h, n)
           up == Onward(h)
<1>2. Chained(Objects, B, up)
  BY LookupsEnd
<1>3. ASSUME NEW q \in Objects, q \in B \/ (up[q] \in Objects /\ up[q] \in T) PROVE q \in T
  <2>1. f[q] = HolderBody(h, n, f)[q]
    BY <1>1, Zenon
  <2>2. CASE q \in B
    <3>1. HolderBody(h, n, f)[q] = IF Exists(q) /\ HasOwn(h, q, n) THEN q ELSE NoObject
      BY <2>2 DEF HolderBody, Ends
    <3> QED
      BY <2>1, <3>1
  <2>3. CASE q \notin B
    <3>1. HolderBody(h, n, f)[q] = f[up[q]]
      BY <2>3 DEF HolderBody, Ends, Onward
    <3> QED
      BY <1>3, <2>1, <2>3, <3>1
  <2> QED
    BY <2>2, <2>3
<1> HIDE DEF B, up, T
<1>4. Objects \subseteq T
  BY <1>2, <1>3, ChainInduction
<1> QED
  BY <1>1, <1>4 DEF T

\* What a lookup of n visits, by what it visits from the prototype.
VisitedBody(h, n, f) ==
    [q \in Objects |->
        IF ~Exists(q) THEN {}
        ELSE LET p == h.st[object[q].structure].proto IN
             IF HasOwn(h, q, n) \/ p = NoObject THEN {q} ELSE {q} \cup f[p]]

LEMMA VisitedExists ==
    ASSUME NEW h, ObjectsSound(h, object), NEW n
    PROVE  \E f : f = VisitedBody(h, n, f)
<1> DEFINE V == SUBSET Objects
           B == Ends(h, n)
           up == Onward(h)
           base == [q \in Objects |-> IF Exists(q) THEN {q} ELSE {}]
           step == [q \in Objects |-> [v \in V |-> {q} \cup v]]
<1>1. Chained(Objects, B, up) /\ \A q \in Objects : q \notin B => up[q] \in Objects
  BY LookupsEnd
<1>2. Recursion(Objects, V, B, up, base, step)
  <2>1. base \in [Objects -> V]
    OBVIOUS
  <2>2. step \in [Objects -> [V -> V]]
    <3>1. ASSUME NEW q \in Objects PROVE [v \in V |-> {q} \cup v] \in [V -> V]
      OBVIOUS
    <3> QED
      BY <3>1
  <2> HIDE DEF V, B, up, base, step
  <2> QED
    BY <1>1, <2>1, <2>2 DEF Recursion
<1>3. PICK f : Solution(Objects, V, B, up, base, step, f)
  <2> HIDE DEF V, B, up, base, step
  <2> QED
    BY <1>2, LinearRecursion
<1>4. f \in [Objects -> V]
  BY <1>3 DEF Solution
<1>5. ASSUME NEW q \in Objects PROVE f[q] = VisitedBody(h, n, f)[q]
  <2>1. f[q] = IF q \in B THEN base[q] ELSE step[q][f[up[q]]]
    BY <1>3 DEF Solution
  <2>2. q \notin B => f[up[q]] \in V
    BY <1>1, <1>4
  <2>3. q \notin B => f[q] = {q} \cup f[up[q]]
    BY <2>1, <2>2
  <2>4. q \in B => f[q] = base[q]
    BY <2>1
  <2>5. CASE q \in B
    <3>1. VisitedBody(h, n, f)[q] = IF Exists(q) THEN {q} ELSE {}
      BY <2>5 DEF VisitedBody, Ends
    <3> QED
      BY <2>4, <2>5, <3>1
  <2>6. CASE q \notin B
    <3>1. VisitedBody(h, n, f)[q] = {q} \cup f[up[q]]
      BY <2>6 DEF VisitedBody, Ends, Onward
    <3> QED
      BY <2>3, <2>6, <3>1
  <2> QED
    BY <2>5, <2>6
<1>6. f = VisitedBody(h, n, f)
  <2>1. VisitedBody(h, n, f) = [q \in Objects |-> VisitedBody(h, n, f)[q]]
    BY DEF VisitedBody
  <2> QED
    BY <1>4, <1>5, <2>1
<1> QED
  BY <1>6

\* A lookup visits objects that exist.
LEMMA VisitedFacts ==
    ASSUME NEW h, ObjectsSound(h, object), NEW n, NEW o \in Objects
    PROVE  \A s \in Visited(h, o, n) : \E q \in Objects : Exists(q) /\ s = object[q].structure
<1> DEFINE f == CHOOSE g : g = VisitedBody(h, n, g)
           T == {q \in Objects : \A p \in f[q] : p \in Objects /\ Exists(p)}
           B == Ends(h, n)
           up == Onward(h)
<1>1. f = VisitedBody(h, n, f)
  BY VisitedExists
<1>2. Visited(h, o, n) = {object[q].structure : q \in f[o]}
  BY DEF Visited, VisitedBody
<1> HIDE DEF f
<1>3. Chained(Objects, B, up)
  BY LookupsEnd
<1>4. ASSUME NEW q \in Objects, q \in B \/ (up[q] \in Objects /\ up[q] \in T) PROVE q \in T
  <2>1. f[q] = VisitedBody(h, n, f)[q]
    BY <1>1, Zenon
  <2>2. CASE q \in B
    <3>1. VisitedBody(h, n, f)[q] = IF Exists(q) THEN {q} ELSE {}
      BY <2>2 DEF VisitedBody, Ends
    <3> QED
      BY <2>1, <3>1
  <2>3. CASE q \notin B
    <3>1. VisitedBody(h, n, f)[q] = {q} \cup f[up[q]] /\ Exists(q)
      BY <2>3 DEF VisitedBody, Ends, Onward
    <3> QED
      BY <1>4, <2>1, <2>3, <3>1
  <2> QED
    BY <2>2, <2>3
<1> HIDE DEF B, up, T
<1>5. Objects \subseteq T
  BY <1>3, <1>4, ChainInduction
<1> QED
  BY <1>2, <1>5 DEF T

\* Looking a property up changes no structure for an object.
LEMMA LookupStays ==
    ASSUME NEW gic, NEW pic, Sound(heap, object, gic, pic), NEW n,
           NEW S, \A s \in S : \E q \in Objects : Exists(q) /\ s = object[q].structure
    PROVE  LET h == Looked(heap, S, n) IN
           /\ AllStay(heap, h) /\ Sound(h, object, gic, pic)
           /\ SeenIn(h, object) = SeenIn(heap, object)
<1> DEFINE U == {s \in S : NeedsTable(heap, s, n)}
<1>1. ASSUME NEW s \in U
      PROVE  /\ s \in AliveIn(heap)
             /\ heap.st[s].owner = None /\ Layout(heap, s) /\ Private(heap, s)
             /\ heap.st[s].previous # None
  <2>1. PICK q \in Objects : Exists(q) /\ s = object[q].structure
    OBVIOUS
  <2>2. HolderSound(heap, object, s)
    BY <2>1 DEF Sound, ObjectsSound, ObjectSound, RecordSound, Exists, ExistsIn
  <2>3. NeedsTable(heap, s, n)
    OBVIOUS
  <2> QED
    BY <2>2, <2>3 DEF HolderSound, NeedsTable
<1>2. Looked(heap, S, n) = AllocateTables(heap, U)
  BY DEF Looked
<1> HIDE DEF U
<1>3. AllStay(heap, AllocateTables(heap, U))
  <2>1. U \subseteq AliveIn(heap)
    BY <1>1
  <2>2. \A s \in U : /\ heap.st[s].owner = None /\ Layout(heap, s) /\ Private(heap, s)
                     /\ heap.st[s].unique \/ heap.st[s].previous # None
    BY <1>1
  <2>3. HeapSound(heap)
    BY DEF Sound
  <2> HIDE DEF heap
  <2> QED
    BY <2>1, <2>2, <2>3, Built
<1> QED
  BY <1>2, <1>3, HeapChanged

LEMMA LookedUpStays ==
    ASSUME NEW gic, NEW pic, Sound(heap, object, gic, pic), NEW n, NEW o \in Objects
    PROVE  /\ AllStay(heap, LookedUp(o, n)) /\ Sound(LookedUp(o, n), object, gic, pic)
           /\ SeenIn(LookedUp(o, n), object) = SeenIn(heap, object)
<1> DEFINE S == Visited(heap, o, n)
<1>1. \A s \in S : \E q \in Objects : Exists(q) /\ s = object[q].structure
  BY VisitedFacts DEF Sound
<1>2. LookedUp(o, n) = Looked(heap, S, n)
  BY DEF LookedUp
<1> HIDE DEF S
<1> QED
  BY <1>1, <1>2, LookupStays

LEMMA LookedUpOwnStays ==
    ASSUME NEW gic, NEW pic, Sound(heap, object, gic, pic), NEW n, NEW o \in Objects, Exists(o)
    PROVE  /\ AllStay(heap, LookedUpOwn(o, n)) /\ Sound(LookedUpOwn(o, n), object, gic, pic)
           /\ SeenIn(LookedUpOwn(o, n), object) = SeenIn(heap, object)
<1> DEFINE S == {object[o].structure}
<1>1. \A s \in S : \E q \in Objects : Exists(q) /\ s = object[q].structure
  OBVIOUS
<1>2. LookedUpOwn(o, n) = Looked(heap, S, n)
  BY DEF LookedUpOwn
<1> HIDE DEF S
<1> QED
  BY <1>1, <1>2, LookupStays

-----------------------------------------------------------------------------
(* New objects.                                                              *)

\* A new object as a program sees it.
Bare(p) == [proto |-> p, extensible |-> TRUE, props |-> [n \in {} |-> Undefined]]

Blank(h, s) == [j \in 0..(Capacity(h, s) - 1) |-> Hole]

LEMMA BareViewed ==
    ASSUME NEW p, NEW slots
    PROVE  Viewed(p, TRUE, EmptyMap, slots) = Bare(p)
<1>1. [n \in DOMAIN EmptyMap |-> InSlot(EmptyMap[n], slots)] = [n \in {} |-> Undefined]
  BY DEF EmptyMap
<1> QED
  BY <1>1 DEF Viewed, Bare

LEMMA NewRecord ==
    ASSUME NEW h, HeapSound(h), NEW ob, NEW s, HolderSound(h, ob, s),
           Entries(h, s) = EmptyMap
    PROVE  LET y == New(h, s) IN
           /\ RecordSound(h, ob, y) /\ y.structure = s
           /\ View(h, y) = Bare(h.st[s].proto)
<1> DEFINE y == New(h, s)
<1>1. y = Cell(s, TRUE, None, Blank(h, s))
  BY DEF New, Cell, Blank
<1>2. /\ y.structure = s /\ y.extensible = TRUE /\ y.construct_struct = None
      /\ y.slots = Blank(h, s)
  BY <1>1 DEF Cell
<1> HIDE DEF y
<1>3. SlotsSound(h, s, y.slots)
  <2>1. SlotsSize(h, s) \in Nat
    BY LayoutSize DEF HolderSound, HeapSound
  <2>2. Capacity(h, s) \in Nat /\ SlotsSize(h, s) <= Capacity(h, s)
    BY <2>1, CapacityFits
  <2>3. \A j \in Nat : j < SlotsSize(h, s) => j \in DOMAIN y.slots
    BY <1>2, <2>1, <2>2 DEF Blank
  <2>4. DOMAIN Entries(h, s) = {}
    BY DEF EmptyMap
  <2> QED
    BY <2>3, <2>4 DEF SlotsSound
<1>4. RecordSound(h, ob, y)
  <2>1. y = Cell(y.structure, y.extensible, y.construct_struct, y.slots)
    BY <1>1, <1>2
  <2>2. ConstructSound(h, ob, y.construct_struct)
    BY <1>2 DEF ConstructSound
  <2> QED
    BY <1>2, <1>3, <2>1, <2>2 DEF RecordSound
<1>5. View(h, y) = Bare(h.st[s].proto)
  BY <1>2, BareViewed DEF View
<1> QED
  BY <1>2, <1>4, <1>5 DEF y

\* A structure without a previous one and without properties, for new objects.
LEMMA RootHolder ==
    ASSUME NEW h, HeapSound(h), NEW s \in AliveIn(h), NEW ob,
           h.st[s] = Root(h.st[s].unique, h.st[s].proto), Private(h, s), ProtoIn(h, ob, s)
    PROVE  /\ HolderSound(h, ob, s) /\ Entries(h, s) = EmptyMap
           /\ h.st[s].owner = None
<1>1. /\ h.st[s].owner = None /\ h.st[s].previous = None
      /\ h.st[s].deleted = <<>> /\ h.st[s].size = 0
  BY DEF Root
<1>2. Entries(h, s) = EmptyMap
  BY <1>1, EntriesStep DEF HeapSound
<1>3. Layout(h, s)
  <2>1. SlotsSize(h, s) = 0
    BY <1>1 DEF SlotsSize
  <2>2. DOMAIN Entries(h, s) = {} /\ DOMAIN h.st[s].deleted = {} /\ Len(h.st[s].deleted) = 0
    BY <1>1, <1>2 DEF EmptyMap
  <2>3. Cardinality(DOMAIN Entries(h, s)) = 0
    BY <2>2, FS_EmptySet
  <2> QED
    BY <2>1, <2>2, <2>3 DEF Layout
<1> QED
  BY <1>1, <1>2, <1>3 DEF HolderSound

\* The heap with a new root.
LEMMA RootAdded ==
    ASSUME NEW h, HeapSound(h), NEW i \in Structure, h.st[i] = None,
           NEW unique \in BOOLEAN, NEW p \in Objects \cup {NoObject}
    PROVE  LET g == [h EXCEPT !.st[i] = Root(unique, p)] IN
           /\ AllStay(h, g) /\ i \in AliveIn(g) /\ g.st[i] = Root(unique, p) /\ Private(g, i)
<1> DEFINE x == Root(unique, p)
           g == [h EXCEPT !.st[i] = x]
<1>1. x \in StructureRecord /\ x # None
  BY RootRecord
<1>2. x.unique = unique /\ x.owner = None /\ x.previous = None /\ x.deleted = <<>> /\ x.added = None
  BY DEF Root
<1>3. Joinable(h, x)
  BY <1>2 DEF Joinable
<1>4. h \in Heap /\ Shaped(h)
  BY DEF HeapSound, Shaped
<1> HIDE DEF x
<1>5. g \in Heap /\ g.st = [h.st EXCEPT ![i] = x] /\ g.tb = h.tb /\ g.tr = h.tr
  BY <1>1, <1>4, WithStructure
<1> HIDE DEF g
<1>6. Grown(h, g, i, x)
  BY <1>5 DEF Grown
<1>7. /\ Shaped(g) /\ AliveIn(g) = AliveIn(h) \cup {i}
      /\ \A s \in AliveIn(h) : g.st[s] = h.st[s] /\ Same(h, g, s)
      /\ g.st[i] = x
  BY <1>1, <1>3, <1>4, <1>6, Grow
<1>8. Layout(g, i)
  <2>1. SlotsSize(g, i) = 0
    BY <1>7 DEF SlotsSize, x, Root
  <2>2. Entries(g, i) = EmptyMap
    BY <1>2, <1>7, EntriesStep
  <2>3. DOMAIN Entries(g, i) = {} /\ DOMAIN g.st[i].deleted = {} /\ Len(g.st[i].deleted) = 0
    BY <1>2, <1>7, <2>2 DEF EmptyMap
  <2>4. Cardinality(DOMAIN Entries(g, i)) = 0
    BY <2>3, FS_EmptySet
  <2> QED
    BY <2>1, <2>3, <2>4 DEF Layout
<1>9. Leading(h, g)
  BY <1>5 DEF Leading
<1>10. HeapSound(g) /\ \A s \in AliveIn(h) : ~h.st[s].unique \/ s # x.previous => Stays(h, g, s)
  BY <1>1, <1>3, <1>6, <1>8, <1>9, GrownSound
<1>11. AllStay(h, g)
  <2>1. \A s \in AliveIn(h) : s # None
    <3>1. None \notin Structure
      BY MarksAssumption
    <3> QED
      BY <3>1 DEF AliveIn
  <2> QED
    BY <1>2, <1>10, <2>1 DEF AllStay
<1>12. Private(g, i)
  <2> SUFFICES ASSUME NEW t \in AliveIn(g) PROVE g.st[t].previous # i
    BY DEF Private
  <2>1. i # None /\ i \notin AliveIn(h)
    BY MarksAssumption DEF AliveIn
  <2>2. CASE t = i
    BY <1>2, <1>7, <2>1, <2>2
  <2>3. CASE t # i
    <3>1. t \in AliveIn(h) /\ g.st[t] = h.st[t]
      BY <1>7, <2>3
    <3>2. h.st[t].previous # None => h.st[t].previous \in AliveIn(h)
      BY <1>4, <3>1 DEF Shaped, Linked
    <3> QED
      BY <2>1, <3>1, <3>2
  <2> QED
    BY <2>2, <2>3
<1> QED
  BY <1>7, <1>11, <1>12 DEF g, x

\* A new object of a structure without properties.
LEMMA Created ==
    ASSUME NEW h, NEW ob, NEW gic, NEW pic, Sound(h, ob, gic, pic),
           NEW o \in Objects, o \notin Constructors, ~ExistsIn(ob, o),
           NEW s, HolderSound(h, ob, s), Entries(h, s) = EmptyMap,
           \/ ~h.st[s].unique
           \/ /\ ~Cached(gic, pic, s) /\ h.st[s].owner = None
              /\ \A q \in Objects : ob[q].structure # s
    PROVE  /\ Sound(h, With(ob, o, New(h, s)), gic, pic)
           /\ SeenIn(h, With(ob, o, New(h, s))) = With(SeenIn(h, ob), o, Bare(h.st[s].proto))
<1> DEFINE y == New(h, s)
<1>1. HeapSound(h)
  BY DEF Sound
<1>2. RecordSound(h, ob, y) /\ y.structure = s /\ View(h, y) = Bare(h.st[s].proto)
  BY <1>1, NewRecord
<1> HIDE DEF y
<1>3. /\ Sound(h, With(ob, o, y), gic, pic)
      /\ SeenIn(h, With(ob, o, y)) = With(SeenIn(h, ob), o, View(h, y))
  BY <1>2, PlacedHere
<1> QED
  BY <1>2, <1>3 DEF y

\* The roots of the virtual machine.
LEMMA TopRoots ==
    ASSUME NEW h, HeapSound(h), NEW ob, NEW s \in {empty_object_struct, function_struct}
    PROVE  /\ HolderSound(h, ob, s) /\ Entries(h, s) = EmptyMap
           /\ ~h.st[s].unique /\ h.st[s].proto = NoObject /\ s \in AliveIn(h)
<1>1. h.st[s] = Root(FALSE, NoObject)
  BY DEF HeapSound
<1>3. ~h.st[s].unique /\ h.st[s].proto = NoObject
  BY <1>1 DEF Root
<1>4. h.st[s] = Root(h.st[s].unique, h.st[s].proto)
  BY <1>1 DEF Root
<1>5. Private(h, s) /\ ProtoIn(h, ob, s)
  BY <1>3 DEF Private, ProtoIn
<1>2. s \in AliveIn(h)
  <2>1. Root(FALSE, NoObject) # None
    BY RootRecord
  <2>2. s \in Structure
    BY StructuresAssumption DEF Structure, empty_object_struct, function_struct
  <2> QED
    BY <1>1, <2>1, <2>2 DEF AliveIn
<1> QED
  BY <1>2, <1>3, <1>4, <1>5, RootHolder

LEMMA CreatedEmpty ==
    ASSUME NEW h, NEW ob, NEW gic, NEW pic, Sound(h, ob, gic, pic),
           NEW o \in Objects, o \notin Constructors, ~ExistsIn(ob, o)
    PROVE  LET y == New(h, empty_object_struct) IN
           /\ Sound(h, With(ob, o, y), gic, pic)
           /\ SeenIn(h, With(ob, o, y)) = With(SeenIn(h, ob), o, Bare(NoObject))
<1> DEFINE s == empty_object_struct
<1>1. HolderSound(h, ob, s) /\ Entries(h, s) = EmptyMap /\ ~h.st[s].unique /\ h.st[s].proto = NoObject
  BY TopRoots DEF Sound
<1> HIDE DEF s
<1>2. /\ Sound(h, With(ob, o, New(h, s)), gic, pic)
      /\ SeenIn(h, With(ob, o, New(h, s))) = With(SeenIn(h, ob), o, Bare(h.st[s].proto))
  BY <1>1, Created
<1> QED
  BY <1>1, <1>2 DEF s

\* A structure that is not alive is not in a cache, and no object has it.
LEMMA FreeUnknown ==
    ASSUME NEW h, NEW ob, NEW gic, NEW pic, Sound(h, ob, gic, pic),
           NEW i \in Structure, h.st[i] = None
    PROVE  ~Cached(gic, pic, i) /\ \A q \in Objects : ob[q].structure # i
<1>1. i \notin AliveIn(h) /\ i # None
  BY MarksAssumption DEF AliveIn
<1>2. ~Cached(gic, pic, i)
  BY <1>1 DEF Sound, CachesSound, GetSound, PutSound, Cached
<1>3. ASSUME NEW q \in Objects PROVE ob[q].structure # i
  BY <1>1 DEF Sound, ObjectsSound, ObjectSound, RecordSound, HolderSound, ExistsIn
<1> QED
  BY <1>2, <1>3

\* The heap with a new unique structure without properties.
RootedAlone(h, i, p) == [h EXCEPT !.st[i] = Root(TRUE, p)]

\* Object.create: a new object of a unique structure of its own.
LEMMA CreatedUnique ==
    ASSUME NEW h, NEW ob, NEW gic, NEW pic, Sound(h, ob, gic, pic),
           NEW o \in Objects, o \notin Constructors, ~ExistsIn(ob, o),
           NEW p \in Objects, ExistsIn(ob, p), NEW i \in Structure, h.st[i] = None
    PROVE  LET g == RootedAlone(h, i, p)
               y == New(g, i)
           IN  /\ Sound(g, With(ob, o, y), gic, pic)
               /\ SeenIn(g, With(ob, o, y)) = With(SeenIn(h, ob), o, Bare(p))
<1> DEFINE g == RootedAlone(h, i, p)
<1>1. AllStay(h, g) /\ i \in AliveIn(g) /\ g.st[i] = Root(TRUE, p) /\ Private(g, i)
  BY RootAdded DEF Sound, RootedAlone
<1> HIDE DEF g
<1>2. Sound(g, ob, gic, pic) /\ SeenIn(g, ob) = SeenIn(h, ob)
  BY <1>1, HeapChanged
<1>6. g.st[i].proto = p /\ g.st[i] = Root(g.st[i].unique, g.st[i].proto)
  BY <1>1 DEF Root
<1>7. ProtoIn(g, ob, i)
  BY <1>6 DEF ProtoIn
<1>3. /\ HolderSound(g, ob, i) /\ Entries(g, i) = EmptyMap
      /\ g.st[i].proto = p /\ g.st[i].owner = None
  BY <1>1, <1>2, <1>6, <1>7, RootHolder DEF Sound
<1>4. ~Cached(gic, pic, i) /\ \A q \in Objects : ob[q].structure # i
  BY FreeUnknown
<1>5. /\ Sound(g, With(ob, o, New(g, i)), gic, pic)
      /\ SeenIn(g, With(ob, o, New(g, i))) = With(SeenIn(g, ob), o, Bare(g.st[i].proto))
  BY <1>2, <1>3, <1>4, Created
<1> QED
  BY <1>2, <1>3, <1>5 DEF g

\* The heap and the structure with a property more than the shared structure s.
LEMMA TransitionMade ==
    ASSUME NEW h, HeapSound(h), NEW s \in AliveIn(h), ~h.st[s].unique,
           NEW n \in Names, n \notin DOMAIN Entries(h, s), NEW attrs \in Attributes,
           NeedsChild(h, s, n, attrs) => HasFresh(h)
    PROVE  LET a == AddProperty(h, s, n, attrs) IN
           AllStay(h, a.heap) /\ Leads(a.heap, s, <<n, attrs>>, a.to)
<1> DEFINE a == AddProperty(h, s, n, attrs)
           Good(g, i) == AllStay(h, g) /\ Leads(g, s, <<n, attrs>>, i)
<1> SUFFICES Good(a.heap, a.to)
  OBVIOUS
<1>1. CASE Transition(h, s, n, attrs) # None
  <2> DEFINE i == Transition(h, s, n, attrs)
  <2>1. <<n, attrs>> \in DOMAIN h.tr[s] /\ i = h.tr[s][<<n, attrs>>]
    BY <1>1 DEF Transition
  <2>2. Leads(h, s, <<n, attrs>>, i)
    BY <2>1 DEF HeapSound, AliveIn
  <2>3. a.heap = h /\ a.to = i
    BY <1>1 DEF AddProperty, NeedsChild
  <2>4. AllStay(h, h)
    BY DEF AllStay, Stays, Same
  <2>5. Good(h, i)
    BY <2>2, <2>4
  <2> HIDE DEF i, a, Good
  <2> QED
    BY <2>3, <2>5
<1>2. CASE Transition(h, s, n, attrs) = None
  <2> DEFINE i == Fresh(h)
  <2>1. NeedsChild(h, s, n, attrs) /\ HasFresh(h)
    BY <1>2 DEF NeedsChild
  <2>2. i \in Structure /\ h.st[i] = None
    BY <2>1, FreshFacts
  <2>3. a.heap = AddChild(h, s, i, n, attrs) /\ a.to = i
    BY <2>1 DEF AddProperty
  <2> HIDE DEF i, a
  <2>4. Good(AddChild(h, s, i, n, attrs), i)
    BY <1>2, <2>2, ChildAdded
  <2> HIDE DEF Good
  <2> QED
    BY <2>3, <2>4
<1> QED
  BY <1>1, <1>2

\* What becomes of the object o that gets the prototype property p.
FunctionCell(g, i, p) ==
    Cell(i, TRUE, None, Stored(<<>>, Capacity(g, i), Entries(g, i)[Prototype].offset, p))

Protoed(p) == [kind |-> "data", on |-> {"W"}, value |-> p]

\* A new function.
LEMMA FunctionPlaced ==
    ASSUME NEW h, NEW ob, NEW gic, NEW pic, Sound(h, ob, gic, pic),
           NEW f \in Objects, ~ExistsIn(ob, f), Prototype \in Names,
           NEW p \in Objects, ExistsIn(ob, p), p \in Values,
           NEW i, Leads(h, function_struct, <<Prototype, Attrs(Protoed(p))>>, i)
    PROVE  LET y == FunctionCell(h, i, p) IN
           /\ Sound(h, With(ob, f, y), gic, pic)
           /\ SeenIn(h, With(ob, f, y)) =
                With(SeenIn(h, ob), f, Extended(Bare(NoObject), Prototype, Protoed(p)))
<1> DEFINE s == function_struct
           c == Capacity(h, i)
           k == Attrs(Protoed(p))
           e == Entry(0, k)
           E == Entries(h, i)
           new == Stored(<<>>, c, e.offset, p)
           y == FunctionCell(h, i, p)
<1>1. /\ Entries(h, s) = EmptyMap /\ ~h.st[s].unique /\ h.st[s].proto = NoObject
      /\ s \in AliveIn(h) /\ HeapSound(h)
  BY TopRoots DEF Sound
<1>2. Cardinality(DOMAIN Entries(h, s)) = 0
  BY <1>1, FS_EmptySet DEF EmptyMap
<1>3. /\ i \in AliveIn(h) /\ ~h.st[i].unique /\ h.st[i].proto = NoObject
      /\ E = Bind(EmptyMap, Prototype, e)
  BY <1>1, <1>2 DEF Leads
<1>4. /\ e.offset = 0 /\ e.kind = "data" /\ e.on = {"W"} /\ Having(e, p) = Protoed(p)
  BY DEF Entry, Attrs, Protoed, Having
<1>5. DOMAIN E = {Prototype} /\ E[Prototype] = e
  BY <1>3 DEF Bind, EmptyMap
<1>6. Layout(h, i) /\ SlotsSize(h, i) = Cardinality(DOMAIN E) /\ h.st[i].deleted = <<>>
  BY <1>1, <1>3, SharedSize
<1>7. SlotsSize(h, i) = 1
  BY <1>5, <1>6, FS_Singleton
<1>8. c \in Nat /\ 1 <= c
  BY <1>7, CapacityFits
<1> HIDE DEF s, c, e, k, E
<1>9. Adds(EmptyMap, E, Prototype, e, c, <<>>, p, new)
  <2>1. DOMAIN EmptyMap = {}
    BY DEF EmptyMap
  <2> QED
    BY <1>3, <1>4, <1>8, <2>1 DEF Adds
<1>10. /\ y.structure = i /\ y.extensible = TRUE /\ y.construct_struct = None /\ y.slots = new
       /\ y = Cell(y.structure, y.extensible, y.construct_struct, y.slots)
  BY <1>5 DEF FunctionCell, Cell, E, c
<1>11. InSlot(E[Prototype], new) = Protoed(p)
  BY <1>4, <1>9, AddsFacts
<1>12. new[e.offset] = p
  <2>1. InSlot(E[Prototype], new).value = p
    BY <1>11 DEF Protoed
  <2> QED
    BY <1>5, <2>1 DEF InSlot
<1>13. Protoed(p) \in StoredSlot
  BY DEF Protoed, StoredSlot, Flags
<1> HIDE DEF y
<1>14. SlotsSound(h, i, y.slots)
  <2>1. DOMAIN new = 0..(c - 1)
    BY DEF Stored
  <2>2. \A j \in Nat : j < SlotsSize(h, i) => j \in DOMAIN new
    BY <1>7, <1>8, <2>1
  <2> HIDE DEF new
  <2>3. \A n \in DOMAIN E : InSlot(E[n], new) \in StoredSlot
    BY <1>5, <1>11, <1>13
  <2> QED
    BY <1>10, <2>2, <2>3 DEF SlotsSound, E
<1> HIDE DEF new
<1>15. RecordSound(h, ob, y)
  <2>1. Private(h, i) /\ ProtoIn(h, ob, i)
    BY <1>3 DEF Private, ProtoIn
  <2>2. HolderSound(h, ob, i)
    BY <1>3, <1>6, <2>1 DEF HolderSound
  <2>3. ConstructSound(h, ob, y.construct_struct)
    BY <1>10 DEF ConstructSound
  <2> QED
    BY <1>10, <1>14, <2>2, <2>3 DEF RecordSound
<1>16. FunctionSound(h, ob, y)
  <2>1. y.slots[E[Prototype].offset] = p /\ CurrentIn(ob, p)
    BY <1>5, <1>10, <1>12 DEF CurrentIn
  <2> QED
    BY <1>4, <1>5, <1>10, <2>1 DEF FunctionSound, FunctionFits, E
<1>17. /\ Sound(h, With(ob, f, y), gic, pic)
       /\ SeenIn(h, With(ob, f, y)) = With(SeenIn(h, ob), f, View(h, y))
  BY <1>3, <1>10, <1>15, <1>16, PlacedHere
<1>18. View(h, y) = Extended(Bare(NoObject), Prototype, Protoed(p))
  <2>1. View(h, y) = Viewed(NoObject, TRUE, E, new)
    BY <1>3, <1>10 DEF View, E
  <2>2. \A x : Viewed(NoObject, x, E, new)
                = Extended(Viewed(NoObject, x, EmptyMap, <<>>), Prototype, Having(e, p))
    BY <1>9, AddsViewed
  <2>3. Viewed(NoObject, TRUE, EmptyMap, <<>>) = Bare(NoObject)
    BY BareViewed
  <2> QED
    BY <1>4, <2>1, <2>2, <2>3
<1> QED
  BY <1>17, <1>18 DEF y

\* The function and the object that is its prototype property.
LEMMA FunctionMade ==
    ASSUME NEW h, NEW ob, NEW gic, NEW pic, Sound(h, ob, gic, pic),
           NEW f \in Constructors, f \in Objects, ~ExistsIn(ob, f),
           Prototype \in Names,
           NEW p \in Objects, p \notin Constructors, ~ExistsIn(ob, p), p \in Values,
           NeedsChild(h, function_struct, Prototype, Attrs(Protoed(p))) => HasFresh(h)
    PROVE  LET a == AddProperty(h, function_struct, Prototype, Attrs(Protoed(p)))
               new == With(With(ob, p, New(h, empty_object_struct)), f, FunctionCell(a.heap, a.to, p))
           IN  /\ Sound(a.heap, new, gic, pic)
               /\ SeenIn(a.heap, new) =
                    With(With(SeenIn(h, ob), p, Bare(NoObject)),
                         f, Extended(Bare(NoObject), Prototype, Protoed(p)))
<1> DEFINE s == function_struct
           k == Attrs(Protoed(p))
           a == AddProperty(h, s, Prototype, k)
           x == New(h, empty_object_struct)
           ob1 == With(ob, p, x)
<1>1. Sound(h, ob1, gic, pic) /\ SeenIn(h, ob1) = With(SeenIn(h, ob), p, Bare(NoObject))
  BY CreatedEmpty
<1>2. /\ Entries(h, s) = EmptyMap /\ ~h.st[s].unique
      /\ s \in AliveIn(h) /\ HeapSound(h)
  BY TopRoots DEF Sound
<1>3. k \in Attributes
  BY DEF Attrs, Attributes, Protoed, Flags
<1>4. Prototype \notin DOMAIN Entries(h, s)
  BY <1>2 DEF EmptyMap
<1>5. ~ExistsIn(ob1, f) /\ ExistsIn(ob1, p)
  <2>1. ob = [q \in Objects |-> ob[q]] /\ p # f
    BY DEF Sound, ObjectsSound
  <2>2. ob1[p] = x /\ ob1[f] = ob[f]
    BY <2>1 DEF With
  <2>3. x.structure = empty_object_struct
    BY DEF New
  <2>4. empty_object_struct # None
    <3>1. empty_object_struct \in Structure
      BY StructuresAssumption DEF Structure, empty_object_struct
    <3> QED
      BY <3>1, MarksAssumption
  <2> QED
    BY <2>2, <2>3, <2>4 DEF ExistsIn
<1> HIDE DEF s, k, x, ob1
<1>6. AllStay(h, a.heap) /\ Leads(a.heap, s, <<Prototype, k>>, a.to)
  BY <1>2, <1>3, <1>4, TransitionMade DEF s, k
<1> HIDE DEF a
<1>7. Sound(a.heap, ob1, gic, pic) /\ SeenIn(a.heap, ob1) = SeenIn(h, ob1)
  BY <1>1, <1>6, HeapChanged
<1>8. LET y == FunctionCell(a.heap, a.to, p) IN
      /\ Sound(a.heap, With(ob1, f, y), gic, pic)
      /\ SeenIn(a.heap, With(ob1, f, y)) =
           With(SeenIn(a.heap, ob1), f, Extended(Bare(NoObject), Prototype, Protoed(p)))
  BY <1>5, <1>6, <1>7, FunctionPlaced DEF s, k
<1> QED
  BY <1>1, <1>7, <1>8 DEF a, ob1, x, s, k

\* An instance of a function that remembers the structure for it.
LEMMA Instantiated ==
    ASSUME NEW h, NEW ob, NEW gic, NEW pic, Sound(h, ob, gic, pic),
           NEW f \in Objects, ExistsIn(ob, f), ob[f].construct_struct # None,
           NEW o \in Objects, o \notin Constructors, ~ExistsIn(ob, o)
    PROVE  LET c == ob[f].construct_struct IN
           /\ Sound(h, With(ob, o, New(h, c)), gic, pic)
           /\ SeenIn(h, With(ob, o, New(h, c))) = With(SeenIn(h, ob), o, Bare(h.st[c].proto))
<1> DEFINE c == ob[f].construct_struct
<1>1. ConstructSound(h, ob, c) /\ HeapSound(h)
  BY DEF Sound, ObjectsSound, ObjectSound, RecordSound
<1>2. c \in AliveIn(h) /\ ~h.st[c].unique /\ Entries(h, c) = EmptyMap /\ ProtoIn(h, ob, c)
  BY <1>1 DEF ConstructSound
<1>3. HolderSound(h, ob, c)
  BY <1>1, <1>2 DEF HolderSound, HeapSound, Private
<1> HIDE DEF c
<1>4. /\ Sound(h, With(ob, o, New(h, c)), gic, pic)
      /\ SeenIn(h, With(ob, o, New(h, c))) = With(SeenIn(h, ob), o, Bare(h.st[c].proto))
  BY <1>2, <1>3, Created
<1> QED
  BY <1>4 DEF c

\* The value of the prototype property of a function, and the prototype of its
\* instances.
PrototypeOf(h, x) == x.slots[Entries(h, x.structure)[Prototype].offset]
InstanceProto(v) == IF v \in Objects THEN v ELSE NoObject

\* The heap with a new shared structure without properties.
Rooted(h, i, p) == [h EXCEPT !.st[i] = Root(FALSE, p)]

\* A function gets a structure for its instances.
LEMMA Remembered ==
    ASSUME NEW h, NEW ob, NEW gic, NEW pic, Sound(h, ob, gic, pic),
           NEW f \in Objects, f \in Constructors, ExistsIn(ob, f),
           NEW i \in Structure, h.st[i] = None
    PROVE  LET g == Rooted(h, i, InstanceProto(PrototypeOf(h, ob[f])))
               y == Cell(ob[f].structure, ob[f].extensible, i, ob[f].slots)
           IN  /\ Sound(g, With(ob, f, y), gic, pic)
               /\ SeenIn(g, With(ob, f, y)) = SeenIn(h, ob)
               /\ With(ob, f, y)[f] = y /\ \A o \in Objects \ {f} : With(ob, f, y)[o] = ob[o]
               /\ g.st[i].proto = InstanceProto(PrototypeOf(h, ob[f]))
<1> DEFINE v == PrototypeOf(h, ob[f])
           p == InstanceProto(v)
           g == Rooted(h, i, p)
           s == ob[f].structure
           y == Cell(s, ob[f].extensible, i, ob[f].slots)
<1>1. /\ HeapSound(h) /\ RecordSound(h, ob, ob[f]) /\ FunctionSound(h, ob, ob[f])
      /\ ob = [o \in Objects |-> ob[o]]
  BY DEF Sound, ObjectsSound, ObjectSound
<1>2. p \in Objects \cup {NoObject} /\ (p # NoObject => ExistsIn(ob, p))
  BY <1>1 DEF FunctionSound, FunctionFits, CurrentIn, InstanceProto, PrototypeOf
<1> HIDE DEF p, v
<1>3. AllStay(h, g) /\ i \in AliveIn(g) /\ g.st[i] = Root(FALSE, p) /\ Private(g, i)
  BY <1>1, <1>2, RootAdded DEF Rooted
<1> HIDE DEF g
<1>4. ~g.st[i].unique /\ g.st[i].proto = p /\ g.st[i] = Root(g.st[i].unique, g.st[i].proto)
  BY <1>3 DEF Root
<1>5. Sound(g, ob, gic, pic) /\ SeenIn(g, ob) = SeenIn(h, ob)
  BY <1>3, HeapChanged
<1>6. ProtoIn(g, ob, i)
  BY <1>2, <1>4 DEF ProtoIn
<1>7. Entries(g, i) = EmptyMap
  BY <1>3, <1>4, <1>5, <1>6, RootHolder DEF Sound
<1>8. RecordSound(g, ob, ob[f]) /\ FunctionSound(g, ob, ob[f])
  BY <1>5 DEF Sound, ObjectsSound, ObjectSound
<1>9. Entries(g, s) = Entries(h, s)
  BY <1>1, <1>3 DEF AllStay, Stays, Same, RecordSound, HolderSound
<1>10. /\ y.structure = s /\ y.extensible = ob[f].extensible
       /\ y.construct_struct = i /\ y.slots = ob[f].slots
       /\ y = Cell(y.structure, y.extensible, y.construct_struct, y.slots)
  BY DEF Cell
<1> HIDE DEF y
<1>11. RecordSound(g, ob, y)
  <2>1. ConstructSound(g, ob, y.construct_struct)
    BY <1>3, <1>4, <1>6, <1>7, <1>10 DEF ConstructSound
  <2> QED
    BY <1>8, <1>10, <2>1 DEF RecordSound
<1>12. FunctionSound(g, ob, y)
  <2>1. y.slots[Entries(g, y.structure)[Prototype].offset] = v
    BY <1>9, <1>10 DEF v, PrototypeOf
  <2>2. g.st[y.construct_struct].proto = InstanceProto(v)
    BY <1>4, <1>10 DEF p
  <2> QED
    BY <1>8, <1>10, <2>1, <2>2 DEF FunctionSound, FunctionFits, InstanceProto
<1>13. /\ Sound(g, With(ob, f, y), gic, pic)
       /\ SeenIn(g, With(ob, f, y)) = With(SeenIn(g, ob), f, View(g, y))
  BY <1>5, <1>10, <1>11, <1>12, PlacedHere
<1>14. View(g, y) = SeenIn(g, ob)[f]
  BY <1>10 DEF View, SeenIn
<1>15. With(SeenIn(g, ob), f, SeenIn(g, ob)[f]) = SeenIn(g, ob)
  <2> DEFINE k == SeenIn(g, ob)
  <2>1. k = [q \in Objects |-> k[q]]
    BY DEF SeenIn
  <2> HIDE DEF k
  <2>2. With(k, f, k[f]) = k
    BY <2>1 DEF With
  <2> QED
    BY <2>2 DEF k
<1>16. With(ob, f, y)[f] = y /\ \A o \in Objects \ {f} : With(ob, f, y)[o] = ob[o]
  BY <1>1 DEF With
<1> QED
  BY <1>4, <1>5, <1>13, <1>14, <1>15, <1>16 DEF g, y, p, v

\* An instance of a function that does not remember a structure for it.
LEMMA InstantiatedFirst ==
    ASSUME NEW h, NEW ob, NEW gic, NEW pic, Sound(h, ob, gic, pic),
           NEW f \in Objects, f \in Constructors, ExistsIn(ob, f),
           NEW o \in Objects, o \notin Constructors, ~ExistsIn(ob, o),
           NEW i \in Structure, h.st[i] = None
    PROVE  LET p == InstanceProto(PrototypeOf(h, ob[f]))
               g == Rooted(h, i, p)
               y == Cell(ob[f].structure, ob[f].extensible, i, ob[f].slots)
               new == With(With(ob, f, y), o, New(g, i))
           IN  /\ Sound(g, new, gic, pic)
               /\ SeenIn(g, new) = With(SeenIn(h, ob), o, Bare(p))
<1> DEFINE p == InstanceProto(PrototypeOf(h, ob[f]))
           g == Rooted(h, i, p)
           y == Cell(ob[f].structure, ob[f].extensible, i, ob[f].slots)
           ob1 == With(ob, f, y)
<1>1. /\ Sound(g, ob1, gic, pic) /\ SeenIn(g, ob1) = SeenIn(h, ob)
      /\ ob1[f] = y /\ \A q \in Objects \ {f} : ob1[q] = ob[q]
      /\ g.st[i].proto = p
  BY Remembered
<1>2. y.structure = ob[f].structure /\ y.construct_struct = i /\ i # None
  BY MarksAssumption DEF Cell
<1> HIDE DEF g, y, ob1, p
<1>3. ExistsIn(ob1, f) /\ ob1[f].construct_struct = i /\ ob1[f].construct_struct # None
  BY <1>1, <1>2 DEF ExistsIn
<1>4. ~ExistsIn(ob1, o)
  BY <1>1 DEF ExistsIn
<1>5. /\ Sound(g, With(ob1, o, New(g, i)), gic, pic)
      /\ SeenIn(g, With(ob1, o, New(g, i))) = With(SeenIn(g, ob1), o, Bare(g.st[i].proto))
  BY <1>1, <1>3, <1>4, Instantiated
<1> QED
  BY <1>1, <1>5 DEF g, y, ob1, p

-----------------------------------------------------------------------------
(* Collections.                                                              *)

\* What a collection keeps because of a structure, by what it keeps because of
\* the one before it.
HeldBody(h, f) ==
    [s \in AliveIn(h) |->
        {s} \cup (IF h.st[s].owner = None THEN {} ELSE {h.st[s].owner})
            \cup (IF h.st[s].previous = None THEN {} ELSE f[h.st[s].previous])]

\* The structures before which there is none.
Firsts(h) == {s \in AliveIn(h) : h.st[s].previous = None}
Before(h) == [s \in Structure |-> h.st[s].previous]

LEMMA AliveChained ==
    ASSUME NEW h, Shaped(h)
    PROVE  Chained(AliveIn(h), Firsts(h), Before(h))
<1> DEFINE B == {s \in Structure : h.st[s] = None \/ h.st[s].previous = None}
           up == Before(h)
<1>0. PICK N \in Nat : \E rank \in [Structure -> 0..N] :
        \A t \in Structure : t \notin B => up[t] \in Structure /\ rank[up[t]] < rank[t]
  BY DEF Shaped, Ranked, Chained, Before
<1>1. PICK rank \in [Structure -> 0..N] :
        \A t \in Structure : t \notin B => up[t] \in Structure /\ rank[up[t]] < rank[t]
  BY <1>0
<1> DEFINE r == [s \in AliveIn(h) |-> rank[s]]
<1>2. AliveIn(h) \subseteq Structure
  BY DEF AliveIn
<1>3. r \in [AliveIn(h) -> 0..N]
  BY <1>1, <1>2
<1>4. ASSUME NEW t \in AliveIn(h), t \notin Firsts(h)
      PROVE  up[t] \in AliveIn(h) /\ r[up[t]] < r[t]
  <2>1. t \in Structure /\ t \notin B /\ h.st[t].previous # None
    BY <1>4 DEF Firsts, AliveIn
  <2>2. up[t] = h.st[t].previous
    BY <2>1 DEF Before
  <2>3. up[t] \in AliveIn(h)
    BY <2>1, <2>2 DEF Shaped, Linked
  <2>4. rank[up[t]] < rank[t]
    BY <1>1, <2>1
  <2> QED
    BY <2>3, <2>4
<1> HIDE DEF r, up
<1> QED
  BY <1>3, <1>4 DEF Chained, up

LEMMA HeldExists ==
    ASSUME NEW h, Shaped(h)
    PROVE  \E f : f = HeldBody(h, f)
<1> DEFINE S == AliveIn(h)
           V == SUBSET S
           B == Firsts(h)
           up == Before(h)
           own == [s \in S |-> {s} \cup (IF h.st[s].owner = None THEN {} ELSE {h.st[s].owner})]
           step == [s \in S |-> [v \in V |-> own[s] \cup v]]
<1>1. Chained(S, B, up) /\ \A s \in S : s \notin B => up[s] \in S /\ up[s] = h.st[s].previous
  <2>1. \A s \in S : s \notin B => up[s] = h.st[s].previous /\ up[s] \in S
    BY DEF Firsts, Before, AliveIn, Shaped, Linked
  <2> QED
    BY <2>1, AliveChained
<1>2. own \in [S -> V]
  BY DEF Shaped, Linked
<1>3. Recursion(S, V, B, up, own, step)
  <2>1. step \in [S -> [V -> V]]
    <3>1. ASSUME NEW s \in S PROVE [v \in V |-> own[s] \cup v] \in [V -> V]
      <4>1. own[s] \in V
        BY <1>2
      <4> HIDE DEF own
      <4> QED
        BY <4>1
    <3> HIDE DEF own
    <3> QED
      BY <3>1
  <2> HIDE DEF S, V, B, up, own, step
  <2> QED
    BY <1>1, <1>2, <2>1 DEF Recursion
<1>4. PICK f : Solution(S, V, B, up, own, step, f)
  <2> HIDE DEF S, V, B, up, own, step
  <2> QED
    BY <1>3, LinearRecursion
<1>5. f \in [S -> V]
  BY <1>4 DEF Solution
<1>6. ASSUME NEW s \in S PROVE f[s] = HeldBody(h, f)[s]
  <2>1. f[s] = IF s \in B THEN own[s] ELSE step[s][f[up[s]]]
    BY <1>4 DEF Solution
  <2>2. s \notin B => f[up[s]] \in V
    BY <1>1, <1>5
  <2>3. s \notin B => f[s] = own[s] \cup f[up[s]]
    <3> HIDE DEF own, V, up, B
    <3> QED
      BY <2>1, <2>2
  <2>4. CASE s \in B
    <3>1. HeldBody(h, f)[s] = own[s]
      BY <2>4 DEF HeldBody, Firsts
    <3> QED
      BY <2>1, <2>4, <3>1
  <2>5. CASE s \notin B
    <3>1. HeldBody(h, f)[s] = own[s] \cup f[up[s]]
      BY <1>1, <2>5 DEF HeldBody, Firsts
    <3> QED
      BY <2>3, <2>5, <3>1
  <2> QED
    BY <2>4, <2>5
<1>7. f = HeldBody(h, f)
  <2>1. HeldBody(h, f) = [s \in S |-> HeldBody(h, f)[s]]
    BY DEF HeldBody
  <2> QED
    BY <1>5, <1>6, <2>1
<1> QED
  BY <1>7

\* The structures in K keep what they need.
Closed(h, K) ==
    /\ K \subseteq AliveIn(h)
    /\ \A t \in K : /\ h.st[t].owner # None => h.st[t].owner \in K
                    /\ h.st[t].previous # None => h.st[t].previous \in K

LEMMA HeldClosed ==
    ASSUME NEW h, Shaped(h), NEW f, f = HeldBody(h, f)
    PROVE  \A s \in AliveIn(h) : s \in f[s] /\ Closed(h, f[s])
<1> DEFINE S == AliveIn(h)
           B == Firsts(h)
           up == Before(h)
           T == {s \in S : s \in f[s] /\ Closed(h, f[s])}
<1>1. Chained(S, B, up) /\ \A s \in S : s \notin B => up[s] \in S /\ up[s] = h.st[s].previous
  <2>1. \A s \in S : s \notin B => up[s] = h.st[s].previous /\ up[s] \in S
    BY DEF Firsts, Before, AliveIn, Shaped, Linked
  <2> QED
    BY <2>1, AliveChained
<1>2. ASSUME NEW s \in S, s \in B \/ (up[s] \in S /\ up[s] \in T) PROVE s \in T
  <2> DEFINE own == {s} \cup (IF h.st[s].owner = None THEN {} ELSE {h.st[s].owner})
  <2>1. f[s] = HeldBody(h, f)[s]
    BY Zenon
  <2>2. s \in B => f[s] = own
    <3>1. s \in B => HeldBody(h, f)[s] = own
      BY DEF HeldBody, Firsts
    <3> QED
      BY <2>1, <3>1
  <2>3. s \notin B => f[s] = own \cup f[up[s]]
    <3>1. s \notin B => HeldBody(h, f)[s] = own \cup f[up[s]]
      BY <1>1 DEF HeldBody, Firsts
    <3> QED
      BY <2>1, <3>1
  <2>4. own \subseteq S /\ s \in own
    BY DEF Shaped, Linked
  <2>5. ASSUME NEW t \in own, h.st[t].owner # None PROVE h.st[t].owner \in own
    BY <2>5 DEF Shaped, Linked
  <2>6. ASSUME NEW t \in own, t # s PROVE h.st[t].previous = None
    BY <2>6 DEF Shaped, Linked
  <2>7. CASE s \in B
    <3>1. h.st[s].previous = None
      BY <2>7 DEF Firsts
    <3> HIDE DEF own
    <3>2. Closed(h, own)
      BY <2>4, <2>5, <2>6, <3>1 DEF Closed
    <3> QED
      BY <2>2, <2>4, <2>7, <3>2
  <2>8. CASE s \notin B
    <3>1. Closed(h, f[up[s]]) /\ up[s] \in f[up[s]] /\ up[s] = h.st[s].previous
      BY <1>1, <1>2, <2>8
    <3> HIDE DEF own, up
    <3>2. Closed(h, own \cup f[up[s]])
      BY <2>4, <2>5, <2>6, <3>1 DEF Closed
    <3> QED
      BY <2>3, <2>4, <2>8, <3>2
  <2> QED
    BY <2>7, <2>8
<1> HIDE DEF S, B, up, T
<1>3. S \subseteq T
  BY <1>1, <1>2, ChainInduction
<1> QED
  BY <1>3 DEF S, T

\* The transitions to structures in K.
KeptLinks(m, K) == [k \in {j \in DOMAIN m : m[j] \in K} |-> m[k]]

\* The heap with the structures in K only.
Cleared(h, K) ==
    [st |-> [s \in Structure |-> IF s \in K THEN h.st[s] ELSE None],
     tb |-> [s \in Structure |-> IF s \in K THEN h.tb[s] ELSE EmptyMap],
     tr |-> [s \in Structure |-> IF s \notin K THEN EmptyMap ELSE KeptLinks(h.tr[s], K)]]

LEMMA ClearedType ==
    ASSUME NEW h \in Heap, NEW K
    PROVE  Cleared(h, K) \in Heap
<1> DEFINE g == Cleared(h, K)
<1>1. g.st \in [Structure -> StructureRecord \cup {None}]
  BY DEF Cleared, Heap
<1>2. g.tb \in [Structure -> Maps]
  <2>1. h.tb \in [Structure -> Maps] /\ EmptyMap \in Maps
    BY MapsFacts DEF Heap
  <2> QED
    BY <2>1 DEF Cleared
<1>3. g.tr \in [Structure -> Links]
  <2>1. ASSUME NEW m \in Links PROVE KeptLinks(m, K) \in Links
    <3>1. PICK D \in SUBSET (Names \X Attributes) : m \in [D -> Structure]
      BY DEF Links
    <3>2. {j \in DOMAIN m : m[j] \in K} \in SUBSET (Names \X Attributes)
      BY <3>1
    <3>3. KeptLinks(m, K) \in [{j \in DOMAIN m : m[j] \in K} -> Structure]
      BY <3>1 DEF KeptLinks
    <3> QED
      BY <3>2, <3>3 DEF Links
  <2>2. EmptyMap \in Links
    <3>1. EmptyMap \in [{} -> Structure]
      BY DEF EmptyMap
    <3> QED
      BY <3>1 DEF Links
  <2>3. h.tr \in [Structure -> Links]
    BY DEF Heap
  <2> HIDE DEF Links
  <2> QED
    BY <2>1, <2>2, <2>3 DEF Cleared
<1>4. g = [st |-> g.st, tb |-> g.tb, tr |-> g.tr]
  BY DEF Cleared
<1> HIDE DEF g
<1> QED
  BY <1>1, <1>2, <1>3, <1>4 DEF Heap, g

\* What a collection keeps stays what it is.
LEMMA Collected ==
    ASSUME NEW h, HeapSound(h), NEW K, Closed(h, K),
           empty_object_struct \in K, function_struct \in K
    PROVE  LET g == Cleared(h, K) IN
           /\ HeapSound(g) /\ AliveIn(g) = K
           /\ \A s \in K : Stays(h, g, s)
<1> DEFINE g == Cleared(h, K)
<1>1. h \in Heap /\ Shaped(h) /\ K \subseteq AliveIn(h) /\ K \subseteq Structure
  BY DEF HeapSound, Shaped, Closed, AliveIn
<1>2. g \in Heap
  BY <1>1, ClearedType
<1>3. /\ \A s \in K : g.st[s] = h.st[s] /\ g.tb[s] = h.tb[s] /\ g.tr[s] = KeptLinks(h.tr[s], K)
      /\ \A s \in Structure \ K : g.st[s] = None /\ g.tb[s] = EmptyMap /\ g.tr[s] = EmptyMap
  BY <1>1 DEF Cleared
<1> HIDE DEF g
<1>4. AliveIn(g) = K
  BY <1>1, <1>3 DEF AliveIn
<1>5. Linked(g)
  BY <1>1, <1>3, <1>4 DEF Linked, Shaped, Closed
<1>6. Ranked(g)
  <2> DEFINE B == {s \in Structure : h.st[s] = None \/ h.st[s].previous = None}
             A == {s \in Structure : g.st[s] = None \/ g.st[s].previous = None}
  <2>1. Chained(Structure, B, Before(h))
    BY <1>1 DEF Shaped, Ranked, Before
  <2>2. \A t \in Structure : t \notin A => t \notin B /\ Before(g)[t] = Before(h)[t]
    BY <1>1, <1>3 DEF Before, AliveIn
  <2> HIDE DEF A, B
  <2>3. Chained(Structure, A, Before(g))
    BY <2>1, <2>2, ChainedShorter
  <2> QED
    BY <2>3 DEF Ranked, A, Before
<1>7. Shaped(g)
  BY <1>2, <1>5, <1>6 DEF Shaped
<1>8. \A s \in K : Entries(g, s) = Entries(h, s)
  <2>1. ASSUME NEW t \in K PROVE Unmoved(h, g, K, t)
    <3>1. CASE h.st[t].owner # None
      <4>1. h.st[t].owner \in K
        BY <3>1 DEF Closed
      <4>2. g.tb[g.st[t].owner] = h.tb[h.st[t].owner]
        BY <1>3, <4>1
      <4>3. Entries(h, t) = h.tb[h.st[t].owner]
        BY <1>1, <3>1, EntriesStep
      <4> QED
        BY <1>3, <3>1, <4>2, <4>3 DEF Unmoved
    <3>2. CASE h.st[t].owner = None
      BY <1>3, <3>2 DEF Unmoved, Closed
    <3> QED
      BY <3>1, <3>2
  <2> QED
    BY <1>1, <1>4, <1>7, <2>1, SameEntries
<1>9. \A s \in K : Same(h, g, s)
  <2> SUFFICES ASSUME NEW s \in K PROVE Same(h, g, s)
    OBVIOUS
  <2>1. SlotsSize(g, s) = SlotsSize(h, s)
    BY <1>1, <1>3, <1>4, <1>7, <1>8, SameSize
  <2> QED
    BY <1>3, <1>8, <2>1 DEF Same
<1>10. \A s \in K : Stays(h, g, s)
  <2> SUFFICES ASSUME NEW s \in K PROVE Stays(h, g, s)
    OBVIOUS
  <2>1. Private(h, s) => Private(g, s)
    BY <1>1, <1>3, <1>4 DEF Private
  <2> QED
    BY <1>1, <1>3, <1>4, <1>9, <2>1 DEF Stays
<1>11. Follows(h, g)
  <2>1. \A s \in Structure : \A k \in DOMAIN g.tr[s] :
            /\ k \in DOMAIN h.tr[s] /\ g.tr[s][k] = h.tr[s][k]
            /\ {s, g.tr[s][k]} \subseteq AliveIn(g)
    <3> SUFFICES ASSUME NEW s \in Structure, NEW k \in DOMAIN g.tr[s]
                 PROVE  /\ k \in DOMAIN h.tr[s] /\ g.tr[s][k] = h.tr[s][k]
                        /\ {s, g.tr[s][k]} \subseteq AliveIn(g)
      OBVIOUS
    <3>1. s \in K
      BY <1>3 DEF EmptyMap
    <3> DEFINE m == h.tr[s]
    <3>2. g.tr[s] = KeptLinks(m, K)
      BY <1>3, <3>1
    <3> HIDE DEF m
    <3>3. k \in DOMAIN m /\ m[k] \in K /\ g.tr[s][k] = m[k]
      BY <3>2 DEF KeptLinks
    <3> QED
      BY <1>4, <3>1, <3>3 DEF m
  <2>2. \A s \in {empty_object_struct, function_struct} : g.st[s] = h.st[s]
    BY <1>3
  <2>3. \A s \in AliveIn(g) : s \in AliveIn(h) /\ g.st[s].unique = h.st[s].unique
    BY <1>1, <1>3, <1>4
  <2> QED
    BY <1>4, <1>7, <1>9, <2>1, <2>2, <2>3 DEF Follows
<1>12. HeapSound(g)
  BY <1>11, FollowsSound
<1> QED
  BY <1>4, <1>10, <1>12 DEF g

\* A collection that keeps the structures of the objects and of the caches is
\* not seen.
LEMMA CollectedSound ==
    ASSUME NEW h, NEW ob, NEW gic, NEW pic, Sound(h, ob, gic, pic), NEW K, Closed(h, K),
           empty_object_struct \in K, function_struct \in K,
           \A o \in Objects : ExistsIn(ob, o) =>
                /\ ob[o].structure \in K
                /\ ob[o].construct_struct # None => ob[o].construct_struct \in K,
           \A s : Cached(gic, pic, s) => s \in K
    PROVE  LET g == Cleared(h, K) IN
           Sound(g, ob, gic, pic) /\ SeenIn(g, ob) = SeenIn(h, ob)
<1> DEFINE g == Cleared(h, K)
<1>1. HeapSound(g) /\ AliveIn(g) = K /\ \A s \in K : Stays(h, g, s)
  BY Collected DEF Sound
<1> HIDE DEF g
<1>2. HeapSound(h) /\ ObjectsSound(h, ob) /\ CachesSound(h, ob, gic, pic)
  BY DEF Sound
<1>3. Carries(h, g, ob, ob, {})
  <2>1. ProtosEnd(g, ob)
    <3>1. ProtosEnd(h, ob)
      BY <1>2 DEF ObjectsSound
    <3>2. \A q \in Objects : ExistsIn(ob, q) =>
                g.st[ob[q].structure].proto = h.st[ob[q].structure].proto
      BY <1>1 DEF Stays, Same
    <3> QED
      BY <3>1, <3>2, ProtosStay
  <2>2. ob = [o \in Objects |-> ob[o]]
    BY <1>2 DEF ObjectsSound
  <2>3. \A p \in Objects : ExistsIn(ob, p) =>
                /\ Stays(h, g, ob[p].structure)
                /\ ob[p].construct_struct # None => Stays(h, g, ob[p].construct_struct)
    BY <1>1
  <2> QED
    BY <2>1, <2>2, <2>3 DEF Carries
<1>4. ObjectsSound(g, ob)
  BY <1>2, <1>3, Carried
<1>5. CachesSound(g, ob, gic, pic)
  <2>1. ASSUME NEW s \in AliveIn(h), Cached(gic, pic, s) PROVE CacheStays(h, g, ob, ob, s)
    <3>1. s \in K /\ Stays(h, g, s)
      BY <1>1, <2>1
    <3> QED
      BY <1>1, <3>1 DEF CacheStays, InUse, Extends, Stays, Same
  <2> QED
    BY <1>2, <2>1, CachesCarried
<1>6. SeenIn(g, ob) = SeenIn(h, ob)
  <2>1. ASSUME NEW o \in Objects, ExistsIn(ob, o) PROVE View(g, ob[o]) = View(h, ob[o])
    <3>1. Stays(h, g, ob[o].structure)
      BY <1>1, <2>1
    <3> QED
      BY <3>1 DEF View, Stays, Same
  <2> QED
    BY <2>1 DEF SeenIn
<1> QED
  BY <1>1, <1>4, <1>5, <1>6 DEF Sound, g

-----------------------------------------------------------------------------
(* The steps.                                                                *)

Inv == Sound(heap, object, get_ic, put_ic)

\* The objects are what they are in the model of a program's view.
SeenNow == SeenIn(heap, object)

LEMMA HeapSet ==
    ASSUME NEW g, g \in Heap, SetHeap(g)
    PROVE  heap' = g
<1>1. g = [st |-> g.st, tb |-> g.tb, tr |-> g.tr]
  BY DEF Heap
<1> QED
  BY <1>1 DEF SetHeap, heap

LEMMA CollectStep ==
    ASSUME Inv, Collect
    PROVE  Inv' /\ SeenNow' = SeenNow
<1> DEFINE h == heap
           gic == get_ic
           pic == put_ic
           ob == object
           f == CHOOSE k : k = HeldBody(h, k)
           roots == {empty_object_struct, function_struct}
                 \cup {object[o].structure : o \in {q \in Objects : Exists(q)}}
                 \cup {object[o].construct_struct : o \in {q \in Objects :
                            Exists(q) /\ object[q].construct_struct # None}}
                 \cup {get_ic[n].structure : n \in {m \in Names : get_ic[m] # None}}
                 \cup {put_ic[n].structure : n \in {m \in Names : put_ic[m] # None}}
           K == UNION {f[s] : s \in roots}
<1>1. Sound(h, ob, gic, pic) /\ HeapSound(h) /\ Shaped(h)
  BY DEF Inv, Sound, HeapSound
<1>2. Held = K
  BY DEF Held, HeldBody, heap
<1>3. f = HeldBody(h, f)
  <2> HIDE DEF h
  <2> QED
    BY <1>1, HeldExists
<1>4. \A s \in AliveIn(h) : s \in f[s] /\ Closed(h, f[s])
  <2> HIDE DEF f, h
  <2> QED
    BY <1>1, <1>3, HeldClosed
<1>5. roots \subseteq AliveIn(h)
  <2>1. empty_object_struct \in AliveIn(h) /\ function_struct \in AliveIn(h)
    <3> HIDE DEF h
    <3> QED
      BY <1>1, TopRoots
  <2>2. \A o \in Objects : Exists(o) =>
            /\ object[o].structure \in AliveIn(h)
            /\ object[o].construct_struct # None => object[o].construct_struct \in AliveIn(h)
    <3> HIDE DEF h
    <3> QED
      BY <1>1 DEF Sound, ObjectsSound, ObjectSound, RecordSound, HolderSound, ConstructSound,
                  Exists, ExistsIn
  <2>3. \A n \in Names : /\ get_ic[n] # None => get_ic[n].structure \in AliveIn(h)
                         /\ put_ic[n] # None => put_ic[n].structure \in AliveIn(h)
    <3> HIDE DEF h
    <3> QED
      BY <1>1 DEF Sound, CachesSound, GetSound, PutSound
  <2> HIDE DEF h
  <2> QED
    BY <2>1, <2>2, <2>3
<1>6. roots \subseteq K
  <2> HIDE DEF roots, f, h
  <2> QED
    BY <1>4, <1>5
<1>7. Closed(h, K)
  <2> HIDE DEF roots, f, h
  <2> QED
    BY <1>4, <1>5 DEF Closed
<1>8. /\ empty_object_struct \in K /\ function_struct \in K
      /\ \A o \in Objects : ExistsIn(ob, o) =>
            /\ ob[o].structure \in K
            /\ ob[o].construct_struct # None => ob[o].construct_struct \in K
      /\ \A s : Cached(gic, pic, s) => s \in K
  <2> DEFINE R == K
  <2>1. roots \subseteq R
    BY <1>6
  <2> HIDE DEF R
  <2>2. empty_object_struct \in R /\ function_struct \in R
    BY <2>1
  <2>3. \A o \in Objects : Exists(o) => object[o].structure \in R
    BY <2>1
  <2>4. \A o \in Objects : Exists(o) /\ object[o].construct_struct # None =>
            object[o].construct_struct \in R
    BY <2>1
  <2>5. \A n \in Names : get_ic[n] # None => get_ic[n].structure \in R
    BY <2>1
  <2>6. \A n \in Names : put_ic[n] # None => put_ic[n].structure \in R
    BY <2>1
  <2> QED
    BY <2>2, <2>3, <2>4, <2>5, <2>6 DEF R, Exists, ExistsIn, Cached
<1> HIDE DEF K, f, roots
<1>9. heap' = Cleared(h, K)
  BY <1>2 DEF Collect, Cleared, KeptLinks, heap
<1>10. object' = ob /\ get_ic' = gic /\ put_ic' = pic
  BY DEF Collect, caches
<1> HIDE DEF h, ob, gic, pic
<1>11. Sound(Cleared(h, K), ob, gic, pic) /\ SeenIn(Cleared(h, K), ob) = SeenIn(h, ob)
  BY <1>1, <1>7, <1>8, CollectedSound
<1> QED
  BY <1>9, <1>10, <1>11 DEF Inv, SeenNow, h, ob, gic, pic

-----------------------------------------------------------------------------
(* Descriptors.                                                              *)

\* Merging a descriptor into a stored property leaves a stored property.
LEMMA MergeType ==
    ASSUME NEW s \in StoredSlot, NEW d \in Descriptor
    PROVE  Merge(s, d) \in StoredSlot
<1>1. CASE Kind(d) = "generic"
  BY <1>1 DEF Merge, Replaced, StoredSlot, Descriptor, Flags
<1>2. CASE Kind(d) = "data"
  BY <1>2 DEF Merge, Replaced, StoredSlot, Descriptor, Flags
<1>3. CASE Kind(d) = "accessor"
  <2>1. s.kind = "accessor" => s.value \in Accessor
    BY DEF StoredSlot
  <2>2. Merge(s, d).value \in Accessor
    BY <1>3, <2>1 DEF Merge, Descriptor, Accessor
  <2> QED
    BY <1>3, <2>2 DEF Merge, Replaced, StoredSlot, Descriptor, Flags
<1> QED
  BY <1>1, <1>2, <1>3 DEF Kind

\* A data property that is not configurable stays one.
LEMMA MergeLocked ==
    ASSUME NEW s \in StoredSlot, NEW d \in Descriptor, Verdict(s, d) = "merge",
           s.kind = "data", "C" \notin s.on
    PROVE  /\ Merge(s, d).kind = "data" /\ "C" \notin Merge(s, d).on
           /\ Merge(s, d).value \in {s.value, d.value}
<1>1. ~Rejected(s, d)
  BY DEF Verdict
<1>2. "C" \notin d.on /\ Kind(d) \in {"generic", "data"}
  BY <1>1 DEF Rejected
<1>3. CASE Kind(d) = "generic"
  BY <1>2, <1>3 DEF Merge, Replaced, StoredSlot
<1>4. CASE Kind(d) = "data"
  BY <1>2, <1>4 DEF Merge, Replaced
<1> QED
  BY <1>2, <1>3, <1>4

\* The property that a descriptor creates is a stored property.
LEMMA NewSlotType ==
    ASSUME NEW d \in Descriptor
    PROVE  NewSlot(d) \in StoredSlot
<1>1. CASE Kind(d) = "accessor"
  <2>1. d.has \cap DataFields = {}
    BY <1>1 DEF Kind
  <2>2. "W" \notin d.on
    BY <2>1 DEF Descriptor, DataFields
  <2> QED
    BY <1>1, <2>2 DEF NewSlot, StoredSlot, Descriptor, Accessor
<1>2. CASE Kind(d) # "accessor"
  BY <1>2 DEF NewSlot, StoredSlot, Descriptor
<1> QED
  BY <1>1, <1>2

LEMMA PutDescriptorTypes ==
    ASSUME NEW v \in Values
    PROVE  /\ ValueDescriptor(v) \in Descriptor
           /\ \A on \in SUBSET Flags : DataDescriptor(v, on) \in Descriptor
BY DEF ValueDescriptor, DataDescriptor, Descriptor, Flags, DataFields, AccessorFields

-----------------------------------------------------------------------------
(* Definitions.                                                              *)

\* What a definition makes of an object.
DefinedAs(x, n, d) ==
    IF n \in DOMAIN x.props
    THEN Rebound(x, n, IF Verdict(x.props[n], d) = "merge" THEN Merge(x.props[n], d) ELSE x.props[n])
    ELSE IF x.extensible THEN Extended(x, n, NewSlot(d)) ELSE x

\* What is remembered for instances after a definition of n.
Kept(c, o, n) == IF ResetsConstructMap(o, n) THEN None ELSE c

\* The records of objects that the operations make.
Moving(x, i, k, v) == [x EXCEPT !.structure = i, !.slots[k] = v]
Storing(x, i, slots) == [x EXCEPT !.structure = i, !.slots = slots]
Closing(x, i, b) == [x EXCEPT !.structure = i, !.extensible = b]
Remembering(x, i) == [x EXCEPT !.construct_struct = i]

LEMMA CellMoved ==
    ASSUME NEW a, NEW b, NEW c, NEW e, NEW i, NEW k, NEW v
    PROVE  Moving(Cell(a, b, c, e), i, k, v) = Cell(i, b, c, With(e, k, v))
<1> DEFINE x == Cell(a, b, c, e)
           y == Cell(i, b, c, e)
<1>1. [x EXCEPT !.structure = i] = y
  BY DEF Cell
<1>2. [y EXCEPT !.slots = With(e, k, v)] = Cell(i, b, c, With(e, k, v))
  BY DEF Cell
<1>3. y.slots = e
  BY DEF Cell
<1> HIDE DEF x, y
<1>4. [x EXCEPT !.structure = i, !.slots[k] = v] = [[x EXCEPT !.structure = i] EXCEPT !.slots[k] = v]
  BY Zenon
<1>5. [y EXCEPT !.slots[k] = v] = [y EXCEPT !.slots = [y.slots EXCEPT ![k] = v]]
  BY Zenon
<1> QED
  BY <1>1, <1>2, <1>3, <1>4, <1>5 DEF x, With, Moving

LEMMA CellStored ==
    ASSUME NEW a, NEW b, NEW c, NEW e, NEW i, NEW slots
    PROVE  Storing(Cell(a, b, c, e), i, slots) = Cell(i, b, c, slots)
<1> DEFINE x == Cell(a, b, c, e)
           y == Cell(i, b, c, e)
<1>1. [x EXCEPT !.structure = i] = y
  BY DEF Cell
<1>2. [y EXCEPT !.slots = slots] = Cell(i, b, c, slots)
  BY DEF Cell
<1> HIDE DEF x, y
<1>3. [x EXCEPT !.structure = i, !.slots = slots] = [[x EXCEPT !.structure = i] EXCEPT !.slots = slots]
  BY Zenon
<1> QED
  BY <1>1, <1>2, <1>3 DEF x, Storing

LEMMA CellClosed ==
    ASSUME NEW a, NEW b, NEW c, NEW e, NEW i, NEW v
    PROVE  Closing(Cell(a, b, c, e), i, v) = Cell(i, v, c, e)
<1> DEFINE x == Cell(a, b, c, e)
           y == Cell(i, b, c, e)
<1>1. [x EXCEPT !.structure = i] = y
  BY DEF Cell
<1>2. [y EXCEPT !.extensible = v] = Cell(i, v, c, e)
  BY DEF Cell
<1> HIDE DEF x, y
<1>3. [x EXCEPT !.structure = i, !.extensible = v] = [[x EXCEPT !.structure = i] EXCEPT !.extensible = v]
  BY Zenon
<1> QED
  BY <1>1, <1>2, <1>3 DEF x, Closing

LEMMA CellRemembering ==
    ASSUME NEW a, NEW b, NEW c, NEW e, NEW i
    PROVE  Remembering(Cell(a, b, c, e), i) = Cell(a, b, i, e)
BY DEF Cell, Remembering

LEMMA CellKept ==
    ASSUME NEW a, NEW b, NEW c, NEW e, NEW o, NEW n
    PROVE  WithConstructMap(Cell(a, b, c, e), o, n) = Cell(a, b, Kept(c, o, n), e)
BY DEF Cell, WithConstructMap, Kept

\* What the steps of a definition rely on: a lookup has made the heap h.
Defining(h, o, n, d) ==
    /\ Sound(h, object, get_ic, put_ic) /\ SeenIn(h, object) = SeenNow
    /\ o \in Objects /\ Exists(o) /\ n \in Names
    /\ d \in Descriptor /\ Available(d.value)

Defined(o, n, d) ==
    /\ Sound(heap', object', get_ic, put_ic)
    /\ SeenNow' = With(SeenNow, o, DefinedAs(SeenNow[o], n, d))

\* The property as it is, and as the program sees it.
LEMMA OwnSlot ==
    ASSUME NEW h, NEW o, NEW n, NEW d, Defining(h, o, n, d)
    PROVE  LET s == object[o].structure
               E == Entries(h, s)
           IN  /\ ExistsIn(object, o) /\ SeenNow[o] = View(h, object[o])
               /\ DOMAIN SeenNow[o].props = DOMAIN E
               /\ SeenNow[o].extensible = object[o].extensible
               /\ HasOwn(h, o, n) <=> n \in DOMAIN E
               /\ n \in DOMAIN E =>
                    /\ Slot(h, o, n) = SeenNow[o].props[n]
                    /\ Slot(h, o, n) = Having(E[n], Slot(h, o, n).value)
                    /\ Slot(h, o, n) \in StoredSlot
                    /\ Slot(h, o, n).value = object[o].slots[E[n].offset]
<1> DEFINE s == object[o].structure
           E == Entries(h, s)
<1>1. ExistsIn(object, o)
  BY DEF Defining, Exists, ExistsIn
<1>2. SeenNow[o] = View(h, object[o])
  <2>1. SeenIn(h, object)[o] = View(h, object[o])
    BY <1>1 DEF SeenIn, Defining
  <2> QED
    BY <2>1 DEF Defining
<1>3. SlotsFit(E, Cardinality(DOMAIN E) + Len(h.st[s].deleted), object[o].slots)
  BY <1>1, SlotThere DEF Defining
<1>4. \A m \in DOMAIN E : InSlot(E[m], object[o].slots) \in StoredSlot
  BY <1>3 DEF SlotsFit
<1>5. SeenNow[o].props = [m \in DOMAIN E |-> InSlot(E[m], object[o].slots)]
      /\ SeenNow[o].extensible = object[o].extensible
  BY <1>2 DEF View, Viewed
<1>6. HasOwn(h, o, n) <=> n \in DOMAIN E
  BY DEF HasOwn, EntriesOf
<1>7. Slot(h, o, n) = InSlot(E[n], object[o].slots)
  BY DEF Slot, EntriesOf
<1>8. InSlot(E[n], object[o].slots) = Having(E[n], object[o].slots[E[n].offset])
      /\ InSlot(E[n], object[o].slots).value = object[o].slots[E[n].offset]
  BY DEF InSlot, Having
<1> HIDE DEF E, s
<1> QED
  BY <1>1, <1>2, <1>4, <1>5, <1>6, <1>7, <1>8 DEF E, s

\* What a definition stores for a function keeps it sound.
LEMMA DefinedStorable ==
    ASSUME NEW h, NEW o, NEW n, NEW d, Defining(h, o, n, d),
           HasOwn(h, o, n), Verdict(Slot(h, o, n), d) = "merge"
    PROVE  Storable(object, o, n, Merge(Slot(h, o, n), d), Kept(object[o].construct_struct, o, n))
<1> DEFINE s == object[o].structure
           E == Entries(h, s)
           p == Slot(h, o, n)
           t == Merge(p, d)
           c == Kept(object[o].construct_struct, o, n)
<1>1. /\ ExistsIn(object, o) /\ p = Having(E[n], p.value) /\ p \in StoredSlot
      /\ p.value = object[o].slots[E[n].offset]
  BY OwnSlot
<1>2. t \in StoredSlot
  BY <1>1, MergeType DEF Defining
<1>3. c \in {None, object[o].construct_struct}
  BY DEF Kept
<1>4. ASSUME o \in Constructors, n = Prototype
      PROVE  /\ c = None
             /\ CurrentIn(object, t.value) /\ t.kind = "data" /\ "C" \notin t.on
  <2>1. c = None
    BY <1>4 DEF Kept, ResetsConstructMap
  <2>2. FunctionFits(h, E, object, object[o])
    BY <1>1, <1>4, SlotThere DEF Defining
  <2>3. p.kind = E[n].kind /\ p.on = E[n].on
    <3> HIDE DEF p, E
    <3> QED
      BY <1>1 DEF Having
  <2>4. p.kind = "data" /\ "C" \notin p.on /\ CurrentIn(object, p.value)
    <3> HIDE DEF p, E
    <3> QED
      BY <1>1, <1>4, <2>2, <2>3 DEF FunctionFits
  <2> HIDE DEF p
  <2>5. t.kind = "data" /\ "C" \notin t.on /\ t.value \in {p.value, d.value}
    BY <1>1, <2>4, MergeLocked DEF Defining, p
  <2>6. CurrentIn(object, d.value)
    BY DEF Defining, Available, CurrentIn, Exists, ExistsIn
  <2> QED
    BY <2>1, <2>4, <2>5, <2>6
<1> QED
  BY <1>2, <1>3, <1>4 DEF Storable

\* A definition merges into a property that exists.
LEMMA RedefineStep ==
    ASSUME NEW h, NEW o, NEW n, NEW d, Defining(h, o, n, d), Redefine(h, o, n, d)
    PROVE  /\ Defined(o, n, d)
           /\ Attrs(Merge(Slot(h, o, n), d)) = Attrs(Slot(h, o, n)) =>
                heap' = h /\ object'[o].structure = object[o].structure
<1> DEFINE x == object[o]
           s == x.structure
           E == Entries(h, s)
           p == Slot(h, o, n)
           t == Merge(p, d)
           c == Kept(x.construct_struct, o, n)
           k == E[n].offset
           slots == With(x.slots, k, t.value)
           y(i) == Cell(i, x.extensible, c, slots)
           moves == Attrs(t) # Attrs(p)
           i == IF moves THEN Fresh(h) ELSE s
           g == IF moves THEN ChangeAttributes(h, s, Fresh(h), n, Attrs(t)) ELSE h
<1>1. HasOwn(h, o, n) /\ Verdict(p, d) = "merge" /\ (moves => HasFresh(h)) /\ SetHeap(g)
  BY DEF Redefine
<1>2. /\ ExistsIn(object, o) /\ SeenNow[o] = View(h, x) /\ n \in DOMAIN SeenNow[o].props
      /\ n \in DOMAIN E /\ p = SeenNow[o].props[n] /\ p = Having(E[n], p.value)
  BY <1>1, OwnSlot
<1>3. Storable(object, o, n, t, c)
  BY <1>1, DefinedStorable
<1>4. Sound(h, object, get_ic, put_ic) /\ SeenIn(h, object) = SeenNow /\ o \in Objects /\ n \in Names
  BY DEF Defining
<1>5. x = Cell(s, x.extensible, x.construct_struct, x.slots)
  BY <1>2, <1>4, SlotThere
<1>6. object' = With(object, o, y(i))
  <2>1. object' = [object EXCEPT ![o] = WithConstructMap(Moving(x, i, k, t.value), o, n)]
    BY DEF Redefine, Moving, EntriesOf
  <2>2. Moving(x, i, k, t.value) = Cell(i, x.extensible, x.construct_struct, slots)
    <3> HIDE DEF x, s, k, t, i
    <3> QED
      BY <1>5, CellMoved
  <2>3. WithConstructMap(Cell(i, x.extensible, x.construct_struct, slots), o, n) = y(i)
    <3> HIDE DEF x, slots, i
    <3> QED
      BY CellKept
  <2> HIDE DEF x, i, k, t, slots, c
  <2> QED
    BY <2>1, <2>2, <2>3 DEF With
<1>7. DefinedAs(SeenNow[o], n, d) = Rebound(View(h, x), n, t)
  <2> HIDE DEF p
  <2> QED
    BY <1>1, <1>2 DEF DefinedAs
<1>8. /\ Sound(g, With(object, o, y(i)), get_ic, put_ic)
      /\ SeenIn(g, With(object, o, y(i))) = With(SeenNow, o, Rebound(View(h, x), n, t))
  <2>1. CASE moves
    <3> DEFINE j == Fresh(h)
    <3>1. j \in Structure /\ h.st[j] = None
      BY <1>1, <2>1, FreshFacts
    <3> HIDE DEF j, p
    <3>2. LET f == ChangeAttributes(h, s, j, n, Attrs(t)) IN
          /\ Sound(f, With(object, o, y(j)), get_ic, put_ic)
          /\ SeenIn(f, With(object, o, y(j))) = With(SeenIn(h, object), o, Rebound(View(h, x), n, t))
      BY <1>2, <1>3, <1>4, <3>1, AttributesChanged
    <3>3. g = ChangeAttributes(h, s, j, n, Attrs(t)) /\ i = j
      BY <2>1 DEF j
    <3> HIDE DEF g, i, y, x
    <3> QED
      BY <1>4, <3>2, <3>3
  <2>2. CASE ~moves
    <3>1. t = Having(E[n], t.value)
      <4>1. t \in StoredSlot /\ p.kind = t.kind /\ p.on = t.on
        BY <1>3, <2>2 DEF Storable, Attrs
      <4>2. t = [kind |-> t.kind, on |-> t.on, value |-> t.value]
        BY <4>1 DEF StoredSlot
      <4>3. E[n].kind = p.kind /\ E[n].on = p.on
        <5> HIDE DEF p, E
        <5> QED
          BY <1>2 DEF Having
      <4> QED
        BY <4>1, <4>2, <4>3 DEF Having
    <3> HIDE DEF p
    <3>2. /\ Sound(h, With(object, o, y(s)), get_ic, put_ic)
          /\ SeenIn(h, With(object, o, y(s))) = With(SeenIn(h, object), o, Rebound(View(h, x), n, t))
      BY <1>2, <1>3, <1>4, <3>1, ValueChanged
    <3>3. g = h /\ i = s
      BY <2>2
    <3> HIDE DEF g, i, y, x
    <3> QED
      BY <1>4, <3>2, <3>3
  <2> QED
    BY <2>1, <2>2
<1> HIDE DEF g, y, i, x, t
<1>9. heap' = g
  <2>1. g \in Heap
    BY <1>8 DEF Sound, HeapSound, Shaped
  <2> QED
    BY <1>1, <2>1, HeapSet
<1>10. Defined(o, n, d)
  BY <1>6, <1>7, <1>8, <1>9 DEF Defined, SeenNow
<1>11. ~moves => heap' = h /\ object'[o].structure = object[o].structure
  <2>1. object = [q \in Objects |-> object[q]]
    BY <1>4 DEF Sound, ObjectsSound
  <2>2. object'[o] = y(i)
    BY <1>4, <1>6, <2>1 DEF With
  <2>3. y(i).structure = i
    BY DEF y, Cell
  <2> QED
    BY <1>9, <2>2, <2>3 DEF g, i, x
<1> QED
  BY <1>10, <1>11 DEF t

\* A definition adds a property.
LEMMA AddStep ==
    ASSUME NEW h, NEW o, NEW n, NEW d, Defining(h, o, n, d), AddOwn(h, o, n, d)
    PROVE  Defined(o, n, d)
<1> DEFINE x == object[o]
           s == x.structure
           t == NewSlot(d)
           c == Kept(x.construct_struct, o, n)
           a == AddProperty(h, s, n, Attrs(t))
           slots == Stored(x.slots, Capacity(a.heap, a.to), Entries(a.heap, a.to)[n].offset, t.value)
           y == Cell(a.to, x.extensible, c, slots)
<1>1. /\ ~HasOwn(h, o, n) /\ x.extensible /\ SetHeap(a.heap)
      /\ NeedsChild(h, s, n, Attrs(t)) => HasFresh(h)
  BY DEF AddOwn
<1>2. /\ ExistsIn(object, o) /\ SeenNow[o] = View(h, x) /\ n \notin DOMAIN SeenNow[o].props
      /\ n \notin DOMAIN Entries(h, s) /\ SeenNow[o].extensible = x.extensible
  BY <1>1, OwnSlot
<1>3. t \in StoredSlot
  BY NewSlotType DEF Defining
<1>4. Sound(h, object, get_ic, put_ic) /\ SeenIn(h, object) = SeenNow /\ o \in Objects /\ n \in Names
  BY DEF Defining
<1>5. x = Cell(s, x.extensible, x.construct_struct, x.slots)
  BY <1>2, <1>4, SlotThere
<1>6. object' = With(object, o, y)
  <2>1. object' = [object EXCEPT ![o] = WithConstructMap(Storing(x, a.to, slots), o, n)]
    BY DEF AddOwn, Storing
  <2>2. Storing(x, a.to, slots) = Cell(a.to, x.extensible, x.construct_struct, slots)
    <3> HIDE DEF x, s, a, slots
    <3> QED
      BY <1>5, CellStored
  <2>3. WithConstructMap(Cell(a.to, x.extensible, x.construct_struct, slots), o, n) = y
    <3> HIDE DEF x, slots, a
    <3> QED
      BY CellKept
  <2> HIDE DEF x, a, slots, c
  <2> QED
    BY <2>1, <2>2, <2>3 DEF With
<1>7. DefinedAs(SeenNow[o], n, d) = Extended(View(h, x), n, t)
  <2> HIDE DEF t
  <2> QED
    BY <1>1, <1>2 DEF DefinedAs, t
<1>8. c \in {None, x.construct_struct}
  BY DEF Kept
<1>9. /\ Sound(a.heap, With(object, o, y), get_ic, put_ic)
      /\ SeenIn(a.heap, With(object, o, y)) = With(SeenNow, o, Extended(View(h, x), n, t))
  <2> HIDE DEF t, c
  <2>1. /\ ExistsIn(object, o) /\ n \notin DOMAIN Entries(h, object[o].structure)
        /\ c \in {None, object[o].construct_struct}
        /\ NeedsChild(h, object[o].structure, n, Attrs(t)) => HasFresh(h)
    BY <1>1, <1>2, <1>8
  <2>2. /\ Sound(a.heap, With(object, o, y), get_ic, put_ic)
        /\ SeenIn(a.heap, With(object, o, y)) = With(SeenIn(h, object), o, Extended(View(h, x), n, t))
    <3> DEFINE ob == object
               gic == get_ic
               pic == put_ic
    <3>1. /\ Sound(h, ob, gic, pic) /\ ExistsIn(ob, o)
          /\ n \notin DOMAIN Entries(h, ob[o].structure)
          /\ c \in {None, ob[o].construct_struct}
          /\ NeedsChild(h, ob[o].structure, n, Attrs(t)) => HasFresh(h)
          /\ o \in Objects /\ n \in Names /\ t \in StoredSlot
      BY <1>3, <1>4, <2>1
    <3> HIDE DEF ob, gic, pic
    <3>2. LET f == AddProperty(h, ob[o].structure, n, Attrs(t))
              z == Cell(f.to, ob[o].extensible, c,
                         Stored(ob[o].slots, Capacity(f.heap, f.to),
                                Entries(f.heap, f.to)[n].offset, t.value))
          IN  /\ Sound(f.heap, With(ob, o, z), gic, pic)
              /\ SeenIn(f.heap, With(ob, o, z)) =
                    With(SeenIn(h, ob), o, Extended(View(h, ob[o]), n, t))
      BY <3>1, PropertyAdded
    <3> QED
      BY <3>2 DEF ob, gic, pic
  <2> QED
    BY <1>4, <2>2
<1> HIDE DEF a, y, x, t
<1>10. heap' = a.heap
  <2>1. a.heap \in Heap
    BY <1>9 DEF Sound, HeapSound, Shaped
  <2> QED
    BY <1>1, <2>1, HeapSet
<1> QED
  BY <1>6, <1>7, <1>9, <1>10 DEF Defined, SeenNow

LEMMA ReboundSame ==
    ASSUME NEW h, NEW x, NEW n, n \in DOMAIN View(h, x).props
    PROVE  Rebound(View(h, x), n, View(h, x).props[n]) = View(h, x)
<1> DEFINE E == Entries(h, x.structure)
           m == [k \in DOMAIN E |-> InSlot(E[k], x.slots)]
           p == h.st[x.structure].proto
           e == x.extensible
<1>1. View(h, x) = [proto |-> p, extensible |-> e, props |-> m]
  BY DEF View, Viewed
<1>2. m = [k \in DOMAIN m |-> m[k]] /\ n \in DOMAIN m
  BY <1>1
<1> HIDE DEF m, p, e
<1> DEFINE r == [proto |-> p, extensible |-> e, props |-> m]
<1>3. [m EXCEPT ![n] = m[n]] = m
  BY <1>2
<1>4. r.props = m /\ [r EXCEPT !.props = m] = r
  OBVIOUS
<1> HIDE DEF r
<1>5. [r EXCEPT !.props[n] = m[n]] = [r EXCEPT !.props = [r.props EXCEPT ![n] = m[n]]]
  BY Zenon
<1> QED
  BY <1>1, <1>3, <1>4, <1>5 DEF Rebound, r

\* A definition is refused or has no effect.
LEMMA IgnoreStep ==
    ASSUME NEW h, NEW o, NEW n, NEW d, Defining(h, o, n, d), Ignore(h, o, n, d)
    PROVE  Defined(o, n, d)
<1> DEFINE x == object[o]
           s == x.structure
           c == Kept(x.construct_struct, o, n)
           y == Cell(s, x.extensible, c, x.slots)
<1>1. /\ IF HasOwn(h, o, n) THEN Verdict(Slot(h, o, n), d) # "merge" ELSE ~x.extensible
      /\ SetHeap(h)
  BY DEF Ignore
<1>2. /\ ExistsIn(object, o) /\ SeenNow[o] = View(h, x)
      /\ SeenNow[o].extensible = x.extensible
      /\ HasOwn(h, o, n) <=> n \in DOMAIN SeenNow[o].props
      /\ HasOwn(h, o, n) => Slot(h, o, n) = SeenNow[o].props[n]
  BY OwnSlot
<1>4. Sound(h, object, get_ic, put_ic) /\ SeenIn(h, object) = SeenNow /\ o \in Objects
  BY DEF Defining
<1>5. x = Cell(s, x.extensible, x.construct_struct, x.slots)
  BY <1>2, <1>4, SlotThere
<1>6. object' = With(object, o, y)
  <2>1. object' = [object EXCEPT ![o] = WithConstructMap(x, o, n)]
    BY DEF Ignore
  <2>2. WithConstructMap(x, o, n) = y
    <3> HIDE DEF x, s
    <3> QED
      BY <1>5, CellKept
  <2> HIDE DEF x, y
  <2> QED
    BY <2>1, <2>2 DEF With
<1>7. c \in {None, x.construct_struct}
  BY DEF Kept
<1>8. Sound(h, With(object, o, y), get_ic, put_ic) /\ SeenIn(h, With(object, o, y)) = SeenNow
  <2> HIDE DEF c
  <2> QED
    BY <1>2, <1>4, <1>7, Forgotten
<1>9. heap' = h
  BY <1>1, <1>4, HeapSet DEF Sound, HeapSound, Shaped
<1>10. DefinedAs(SeenNow[o], n, d) = SeenNow[o]
  <2>1. CASE HasOwn(h, o, n)
    <3>1. Rebound(SeenNow[o], n, SeenNow[o].props[n]) = SeenNow[o]
      BY <1>2, <2>1, ReboundSame
    <3> QED
      BY <1>1, <1>2, <2>1, <3>1 DEF DefinedAs
  <2>2. CASE ~HasOwn(h, o, n)
    BY <1>1, <1>2, <2>2 DEF DefinedAs
  <2> QED
    BY <2>1, <2>2
<1>11. With(SeenNow, o, SeenNow[o]) = SeenNow
  <2>1. SeenNow = [q \in Objects |-> SeenNow[q]]
    BY DEF SeenNow, SeenIn
  <2> QED
    BY <2>1 DEF With
<1> HIDE DEF x, y
<1> QED
  BY <1>6, <1>8, <1>9, <1>10, <1>11 DEF Defined, SeenNow

\* Object.defineProperty.
LEMMA DefineOwnStep ==
    ASSUME Inv, NEW o \in Objects, NEW n \in Names, NEW d \in Descriptors, DefineOwn(o, n, d)
    PROVE  Inv' /\ SeenNow' = With(SeenNow, o, DefinedAs(SeenNow[o], n, d))
<1> DEFINE h == LookedUpOwn(o, n)
<1>1. /\ Exists(o) /\ Available(d.value) /\ get_ic' = get_ic /\ put_ic' = put_ic
      /\ Redefine(h, o, n, d) \/ AddOwn(h, o, n, d) \/ Ignore(h, o, n, d)
  BY DEF DefineOwn, caches
<1> HIDE DEF h
<1>2. Sound(h, object, get_ic, put_ic) /\ SeenIn(h, object) = SeenNow
  BY <1>1, LookedUpOwnStays DEF Inv, SeenNow, h
<1>3. d \in Descriptor
  BY StructuresAssumption
<1>4. Defining(h, o, n, d)
  BY <1>1, <1>2, <1>3 DEF Defining
<1>5. Defined(o, n, d)
  BY <1>1, <1>4, RedefineStep, AddStep, IgnoreStep
<1> QED
  BY <1>1, <1>5 DEF Defined, Inv

-----------------------------------------------------------------------------
(* Steps that create objects.                                                *)

\* One object more, and what the program sees of it.
CreatedAs(o, x) == SeenNow' = With(SeenNow, o, x)

LEMMA NewObjectStep ==
    ASSUME Inv, NEW o \in Objects, NewObject(o)
    PROVE  Inv' /\ CreatedAs(o, Bare(NoObject))
<1> DEFINE y == New(heap, empty_object_struct)
           ob == object
<1>1. /\ o \notin Constructors /\ ~ExistsIn(ob, o)
      /\ object' = With(ob, o, y)
      /\ structure' = structure /\ table' = table /\ transitions' = transitions
      /\ get_ic' = get_ic /\ put_ic' = put_ic
  BY DEF NewObject, Exists, ExistsIn, With, caches
<1>2. heap' = heap
  BY <1>1 DEF heap
<1>3. Sound(heap, ob, get_ic, put_ic)
  BY DEF Inv
<1> HIDE DEF ob
<1>4. Sound(heap, With(ob, o, y), get_ic, put_ic)
      /\ SeenIn(heap, With(ob, o, y)) = With(SeenIn(heap, ob), o, Bare(NoObject))
  BY <1>1, <1>3, CreatedEmpty
<1> HIDE DEF y
<1> QED
  BY <1>1, <1>2, <1>4 DEF Inv, SeenNow, CreatedAs, ob

LEMMA ObjectCreateStep ==
    ASSUME Inv, NEW o \in Objects, NEW p \in Objects, ObjectCreate(o, p)
    PROVE  Inv' /\ CreatedAs(o, Bare(p))
<1> DEFINE i == Fresh(heap)
           h == RootedAlone(heap, i, p)
           y == New(h, i)
           ob == object
<1>1. /\ o \notin Constructors /\ ~ExistsIn(ob, o) /\ ExistsIn(ob, p)
      /\ HasFresh(heap) /\ SetHeap(h)
      /\ object' = With(ob, o, y)
      /\ get_ic' = get_ic /\ put_ic' = put_ic
  BY DEF ObjectCreate, Exists, ExistsIn, With, caches, RootedAlone
<1>2. Sound(heap, ob, get_ic, put_ic)
  BY DEF Inv
<1>3. i \in Structure /\ heap.st[i] = None
  BY <1>1, FreshFacts
<1> HIDE DEF ob, i
<1>4. Sound(h, With(ob, o, y), get_ic, put_ic)
      /\ SeenIn(h, With(ob, o, y)) = With(SeenIn(heap, ob), o, Bare(p))
  BY <1>1, <1>2, <1>3, CreatedUnique
<1> HIDE DEF y, h
<1>5. heap' = h
  BY <1>1, <1>4, HeapSet DEF Sound, HeapSound, Shaped
<1> QED
  BY <1>1, <1>4, <1>5 DEF Inv, SeenNow, CreatedAs, ob

LEMMA NewFunctionStep ==
    ASSUME Inv, NEW f \in Objects, NEW p \in Objects, NewFunction(f, p)
    PROVE  /\ Inv'
           /\ SeenNow' = With(With(SeenNow, p, Bare(NoObject)),
                              f, Extended(Bare(NoObject), Prototype, Protoed(p)))
<1> DEFINE a == AddProperty(heap, function_struct, Prototype, Attrs(Protoed(p)))
           ob == object
           x == New(heap, empty_object_struct)
           y == FunctionCell(a.heap, a.to, p)
           new == With(With(ob, p, x), f, y)
<1>1. Attrs(Protoed(p)) = [kind |-> "data", on |-> {"W"}]
  BY DEF Attrs, Protoed
<1>2. /\ f \in Constructors /\ ~ExistsIn(ob, f)
      /\ p \notin Constructors /\ ~ExistsIn(ob, p)
      /\ NeedsChild(heap, function_struct, Prototype, Attrs(Protoed(p))) => HasFresh(heap)
      /\ SetHeap(a.heap)
      /\ get_ic' = get_ic /\ put_ic' = put_ic
  BY <1>1 DEF NewFunction, Exists, ExistsIn, caches
<1>3. object' = new
  <2> HIDE DEF a
  <2>1. object' = [object EXCEPT ![p] = x, ![f] = y]
    BY <1>1 DEF NewFunction, FunctionCell, Cell, a
  <2> HIDE DEF x, y
  <2>2. [object EXCEPT ![p] = x, ![f] = y] = [[object EXCEPT ![p] = x] EXCEPT ![f] = y]
    BY Zenon
  <2> QED
    BY <2>1, <2>2 DEF With
<1>4. Prototype \in Names /\ p \in Values
  BY <1>2, StructuresAssumption
<1>5. Sound(heap, ob, get_ic, put_ic)
  BY DEF Inv
<1> HIDE DEF ob
<1>6. Sound(a.heap, new, get_ic, put_ic)
      /\ SeenIn(a.heap, new) = With(With(SeenIn(heap, ob), p, Bare(NoObject)),
                                    f, Extended(Bare(NoObject), Prototype, Protoed(p)))
  BY <1>2, <1>4, <1>5, FunctionMade
<1> HIDE DEF a, new
<1>7. heap' = a.heap
  BY <1>2, <1>6, HeapSet DEF Sound, HeapSound, Shaped
<1> QED
  BY <1>2, <1>3, <1>6, <1>7 DEF Inv, SeenNow, ob

\* The prototype property of a function as the program sees it.
LEMMA PrototypeSeen ==
    ASSUME NEW h, NEW ob, NEW gic, NEW pic, Sound(h, ob, gic, pic),
           NEW f \in Objects, f \in Constructors, ExistsIn(ob, f)
    PROVE  /\ SeenIn(h, ob)[f].props[Prototype].value = PrototypeOf(h, ob[f])
           /\ CurrentIn(ob, PrototypeOf(h, ob[f]))
<1> DEFINE x == ob[f]
           E == Entries(h, x.structure)
<1>1. FunctionFits(h, E, ob, x)
  BY DEF Sound, ObjectsSound, ObjectSound, FunctionSound
<1>2. SeenIn(h, ob)[f] = View(h, x)
  BY DEF SeenIn
<1>3. View(h, x).props = [n \in DOMAIN E |-> InSlot(E[n], x.slots)]
  BY DEF View, Viewed
<1>4. Prototype \in DOMAIN E
  BY <1>1 DEF FunctionFits
<1>5. View(h, x).props[Prototype].value = PrototypeOf(h, x)
  BY <1>3, <1>4 DEF InSlot, PrototypeOf
<1>6. CurrentIn(ob, PrototypeOf(h, x))
  BY <1>1 DEF FunctionFits, PrototypeOf
<1> QED
  BY <1>2, <1>5, <1>6

\* An instance gets the prototype of its function, or the one it had before.
LEMMA ConstructStep ==
    ASSUME Inv, NEW o \in Objects, NEW f \in Objects, Construct(o, f)
    PROVE  /\ Inv'
           /\ \E q \in Objects \cup {NoObject} :
                /\ CreatedAs(o, Bare(q)) /\ (q # NoObject => ExistsIn(object, q))
                /\ ~Stale(f) => q = InstanceProto(SeenNow[f].props[Prototype].value)
<1> DEFINE ob == object
           x == object[f]
           h == LookedUpOwn(f, Prototype)
           known == x.construct_struct # None
           i == IF known THEN x.construct_struct ELSE Fresh(h)
           v == Slot(h, f, Prototype).value
           g == IF known THEN heap
                ELSE [h EXCEPT !.st[i] = Root(FALSE, IF v \in Objects THEN v ELSE NoObject)]
           p == InstanceProto(SeenNow[f].props[Prototype].value)
           q == IF known THEN heap.st[x.construct_struct].proto ELSE p
           Fits(b) == /\ b \in Objects \cup {NoObject} /\ (b # NoObject => ExistsIn(ob, b))
                      /\ ~Stale(f) => b = p
<1>1. /\ f \in Constructors /\ ExistsIn(ob, f)
      /\ o \notin Constructors /\ ~ExistsIn(ob, o)
      /\ ~known => HasFresh(h)
      /\ SetHeap(g)
      /\ get_ic' = get_ic /\ put_ic' = put_ic
  BY DEF Construct, Exists, ExistsIn, caches
<1>2. Sound(heap, ob, get_ic, put_ic)
  BY DEF Inv
<1>3. x = Cell(x.structure, x.extensible, x.construct_struct, x.slots)
      /\ ob = [w \in Objects |-> ob[w]]
  <2> HIDE DEF x, ob
  <2>1. ob[f] = Cell(ob[f].structure, ob[f].extensible, ob[f].construct_struct, ob[f].slots)
    BY <1>1, <1>2, SlotThere
  <2> QED
    BY <1>2, <2>1 DEF x, ob, Sound, ObjectsSound
<1> DEFINE y == Cell(x.structure, x.extensible, i, x.slots)
<1>4. object' = With(With(ob, f, y), o, New(g, i))
  <2>1. object' = [object EXCEPT ![f].construct_struct = i, ![o] = New(g, i)]
    BY DEF Construct
  <2>2. [object EXCEPT ![f].construct_struct = i] = With(ob, f, Remembering(x, i))
    BY DEF With, Remembering
  <2>3. Remembering(x, i) = y
    <3> HIDE DEF x, i
    <3> QED
      BY <1>3, CellRemembering
  <2> HIDE DEF g, i, y, x, ob
  <2>4. [object EXCEPT ![f].construct_struct = i, ![o] = New(g, i)]
        = [[object EXCEPT ![f].construct_struct = i] EXCEPT ![o] = New(g, i)]
    BY Zenon
  <2> QED
    BY <2>1, <2>2, <2>3, <2>4 DEF With
<1> DEFINE new == With(With(ob, f, y), o, New(g, i))
<1>5. Sound(g, new, get_ic, put_ic)
      /\ SeenIn(g, new) = With(SeenNow, o, Bare(q)) /\ Fits(q)
  <2>1. CASE known
    <3>1. g = heap /\ i = x.construct_struct
      BY <2>1
    <3>2. With(ob, f, y) = ob
      <4>1. y = x
        BY <1>3, <3>1
      <4> HIDE DEF y, x
      <4> QED
        BY <1>3, <4>1 DEF With, x, ob
    <3> DEFINE c == ob[f].construct_struct
    <3>3. LET k == ob[f].construct_struct IN
          /\ Sound(heap, With(ob, o, New(heap, k)), get_ic, put_ic)
          /\ SeenIn(heap, With(ob, o, New(heap, k))) = With(SeenIn(heap, ob), o, Bare(heap.st[k].proto))
      <4> HIDE DEF ob, heap
      <4> QED
        BY <1>1, <1>2, <2>1, Instantiated DEF x, ob
    <3>4. Fits(heap.st[c].proto)
      <4>1. SeenIn(heap, ob)[f].props[Prototype].value = PrototypeOf(heap, ob[f])
        <5> HIDE DEF ob, heap
        <5> QED
          BY <1>1, <1>2, PrototypeSeen
      <4>2. ~Stale(f) => heap.st[c].proto = InstanceProto(Slot(heap, f, Prototype).value)
        <5>1. Exists(f) /\ c # None
          BY <1>1, <2>1 DEF Exists, ExistsIn
        <5>2. structure[c].proto = heap.st[c].proto
          BY DEF heap
        <5> QED
          BY <5>1, <5>2 DEF Stale, InstanceProto
      <4>3. Slot(heap, f, Prototype).value = PrototypeOf(heap, ob[f])
        BY DEF Slot, InSlot, EntriesOf, PrototypeOf
      <4>4. ConstructSound(heap, ob, c)
        <5> HIDE DEF ob, heap
        <5> QED
          BY <1>1, <1>2 DEF Sound, ObjectsSound, ObjectSound, RecordSound
      <4>5. heap.st[c].proto # NoObject => heap.st[c].proto \in Objects /\ ExistsIn(ob, heap.st[c].proto)
        BY <2>1, <4>4 DEF ConstructSound, ProtoIn
      <4> HIDE DEF heap, c, ob
      <4> QED
        BY <4>1, <4>2, <4>3, <4>5 DEF SeenNow, ob
    <3>5. new = With(ob, o, New(heap, c)) /\ SeenNow = SeenIn(heap, ob) /\ q = heap.st[c].proto
      BY <2>1, <3>1, <3>2 DEF SeenNow
    <3> HIDE DEF c, new, g, p, q, Fits, heap
    <3> QED
      BY <3>1, <3>3, <3>4, <3>5 DEF c
  <2>2. CASE ~known
    <3>1. Sound(h, ob, get_ic, put_ic) /\ SeenIn(h, ob) = SeenNow
      BY <1>1, <1>2, LookedUpOwnStays DEF Inv, SeenNow, Exists, ExistsIn
    <3> HIDE DEF h
    <3>2. i = Fresh(h) /\ i \in Structure /\ h.st[i] = None
      BY <1>1, <2>2, FreshFacts
    <3>3. SeenIn(h, ob)[f].props[Prototype].value = PrototypeOf(h, ob[f])
          /\ CurrentIn(ob, PrototypeOf(h, ob[f]))
      <4> HIDE DEF ob
      <4> QED
        BY <1>1, <3>1, PrototypeSeen
    <3>4. v = PrototypeOf(h, ob[f])
      BY DEF Slot, InSlot, EntriesOf, PrototypeOf
    <3>5. p = InstanceProto(PrototypeOf(h, ob[f]))
      BY <3>1, <3>3
    <3>6. g = Rooted(h, i, p)
      BY <2>2, <3>4, <3>5 DEF Rooted, InstanceProto
    <3>8. Fits(q)
      <4>1. p \in Objects \cup {NoObject} /\ (p # NoObject => ExistsIn(ob, p))
        <5> HIDE DEF p
        <5> QED
          BY <3>3, <3>5 DEF InstanceProto, CurrentIn
      <4> HIDE DEF p
      <4> QED
        BY <2>2, <4>1
    <3>9. q = p
      BY <2>2
    <3> HIDE DEF i, g, p, q, Fits
    <3>7. LET r == InstanceProto(PrototypeOf(h, ob[f]))
              k == Rooted(h, i, r)
              z == Cell(ob[f].structure, ob[f].extensible, i, ob[f].slots)
              w == With(With(ob, f, z), o, New(k, i))
          IN  /\ Sound(k, w, get_ic, put_ic)
              /\ SeenIn(k, w) = With(SeenIn(h, ob), o, Bare(r))
      <4> HIDE DEF ob
      <4> QED
        BY <1>1, <3>1, <3>2, InstantiatedFirst
    <3> QED
      BY <3>1, <3>5, <3>6, <3>7, <3>8, <3>9
  <2> QED
    BY <2>1, <2>2
<1> HIDE DEF g, new, q
<1>6. heap' = g
  BY <1>1, <1>5, HeapSet DEF Sound, HeapSound, Shaped
<1> QED
  BY <1>1, <1>4, <1>5, <1>6 DEF Inv, SeenNow, CreatedAs, new

-----------------------------------------------------------------------------
(* Steps that delete properties and close objects.                           *)

\* The object o with another structure and another slot, or not extensible any more.
Twice(f, o, i, k, v) == [f EXCEPT ![o].structure = i, ![o].slots[k] = v]
TwiceClosed(f, o, i, e) == [f EXCEPT ![o].structure = i, ![o].extensible = e]

LEMMA TwiceMoved ==
    ASSUME NEW f, NEW o, NEW i, NEW k, NEW v
    PROVE  Twice(f, o, i, k, v) = With(f, o, Moving(f[o], i, k, v))
<1> DEFINE y == [f[o] EXCEPT !.structure = i]
           q == [f EXCEPT ![o] = y]
           a == [y EXCEPT !.slots[k] = v]
<1>1. [f EXCEPT ![o].structure = i] = q
  BY Zenon
<1>2. [q EXCEPT ![o].slots[k] = v] = [f EXCEPT ![o] = a]
  <2>1. [q EXCEPT ![o].slots[k] = v] = [q EXCEPT ![o] = [q[o] EXCEPT !.slots[k] = v]]
    BY Zenon
  <2>2. o \in DOMAIN f => q[o] = y
    <3> HIDE DEF y
    <3> QED
      OBVIOUS
  <2>3. o \in DOMAIN f => [q[o] EXCEPT !.slots[k] = v] = a
    BY <2>2, Zenon
  <2> DEFINE c == [q[o] EXCEPT !.slots[k] = v]
  <2> HIDE DEF y, a, c
  <2>4. [q EXCEPT ![o] = c] = [f EXCEPT ![o] = c]
    OBVIOUS
  <2>5. [f EXCEPT ![o] = c] = [f EXCEPT ![o] = a]
    BY <2>3 DEF c
  <2> QED
    BY <2>1, <2>4, <2>5 DEF c
<1> QED
  BY <1>1, <1>2, Zenon DEF Twice, With, Moving

LEMMA TwiceCloses ==
    ASSUME NEW f, NEW o, NEW i, NEW e
    PROVE  TwiceClosed(f, o, i, e) = With(f, o, Closing(f[o], i, e))
<1> DEFINE y == [f[o] EXCEPT !.structure = i]
           q == [f EXCEPT ![o] = y]
           b == [y EXCEPT !.extensible = e]
<1>1. [f EXCEPT ![o].structure = i] = q
  BY Zenon
<1>3. [q EXCEPT ![o].extensible = e] = [f EXCEPT ![o] = b]
  <2>1. [q EXCEPT ![o].extensible = e] = [q EXCEPT ![o] = [q[o] EXCEPT !.extensible = e]]
    BY Zenon
  <2>2. o \in DOMAIN f => q[o] = y
    <3> HIDE DEF y
    <3> QED
      OBVIOUS
  <2>3. o \in DOMAIN f => [q[o] EXCEPT !.extensible = e] = b
    BY <2>2, Zenon
  <2> DEFINE c == [q[o] EXCEPT !.extensible = e]
  <2> HIDE DEF y, b, c
  <2>4. [q EXCEPT ![o] = c] = [f EXCEPT ![o] = c]
    OBVIOUS
  <2>5. [f EXCEPT ![o] = c] = [f EXCEPT ![o] = b]
    BY <2>3 DEF c
  <2> QED
    BY <2>1, <2>4, <2>5 DEF c
<1> QED
  BY <1>1, <1>3, Zenon DEF TwiceClosed, With, Closing

\* What the steps on the object o rely on: a lookup has made the heap h.
Operating(h, o) ==
    /\ Sound(h, object, get_ic, put_ic) /\ SeenIn(h, object) = SeenNow
    /\ o \in Objects /\ ExistsIn(object, o)

LEMMA OperatingFacts ==
    ASSUME NEW h, NEW o, Operating(h, o)
    PROVE  LET x == object[o] IN
           /\ x = Cell(x.structure, x.extensible, x.construct_struct, x.slots)
           /\ SeenNow[o] = View(h, x)
           /\ SeenNow[o].props = [n \in DOMAIN Entries(h, x.structure) |->
                                    InSlot(Entries(h, x.structure)[n], x.slots)]
<1> DEFINE ob == object
<1>1. SeenIn(h, ob)[o] = View(h, ob[o])
  BY DEF SeenIn, Operating
<1>2. Sound(h, ob, get_ic, put_ic) /\ o \in Objects /\ ExistsIn(ob, o) /\ SeenIn(h, ob) = SeenNow
  BY DEF Operating
<1> HIDE DEF ob
<1>3. ob[o] = Cell(ob[o].structure, ob[o].extensible, ob[o].construct_struct, ob[o].slots)
  BY <1>2, SlotThere
<1>4. View(h, ob[o]).props = [n \in DOMAIN Entries(h, ob[o].structure) |->
                                    InSlot(Entries(h, ob[o].structure)[n], ob[o].slots)]
  BY DEF View, Viewed
<1> QED
  BY <1>1, <1>2, <1>3, <1>4 DEF ob

LEMMA DeleteStep ==
    ASSUME Inv, NEW o \in Objects, NEW n \in Names, Delete(o, n)
    PROVE  /\ Inv' /\ SeenNow' = With(SeenNow, o, Removed(SeenNow[o], n))
           /\ n \in DOMAIN SeenNow[o].props /\ "C" \in SeenNow[o].props[n].on
<1> DEFINE ob == object
           h == LookedUpOwn(o, n)
           x == ob[o]
           s == x.structure
           E == Entries(h, s)
           i == Fresh(h)
           g == DeleteProperty(h, s, i, n)
           y == Cell(i, x.extensible, x.construct_struct, With(x.slots, E[n].offset, Hole))
<1>1. /\ ExistsIn(ob, o) /\ n \in DOMAIN E /\ "C" \in E[n].on
      /\ HasFresh(h) /\ SetHeap(g)
      /\ get_ic' = get_ic /\ put_ic' = put_ic
      /\ object' = Twice(ob, o, i, E[n].offset, Hole)
  BY DEF Delete, Exists, ExistsIn, caches, HasOwn, EntriesOf, Slot, InSlot, Twice
<1>2. Operating(h, o)
  BY <1>1, LookedUpOwnStays DEF Operating, Inv, SeenNow, Exists, ExistsIn
<1> HIDE DEF h
<1>3. x = Cell(s, x.extensible, x.construct_struct, x.slots) /\ SeenNow[o] = View(h, x)
  BY <1>2, OperatingFacts
<1>4. SeenNow[o].props = [m \in DOMAIN E |-> InSlot(E[m], x.slots)]
  BY <1>2, OperatingFacts
<1>5. i \in Structure /\ h.st[i] = None
  BY <1>1, FreshFacts
<1> HIDE DEF i
<1>6. object' = With(ob, o, y)
  <2> DEFINE k == E[n].offset
  <2>1. object' = With(ob, o, Moving(x, i, k, Hole))
    <3> HIDE DEF k, ob
    <3> QED
      BY <1>1, TwiceMoved DEF k
  <2>2. Moving(x, i, k, Hole) = y
    <3> HIDE DEF x, s, k
    <3> QED
      BY <1>3, CellMoved DEF k
  <2> HIDE DEF y, x, k
  <2> QED
    BY <2>1, <2>2
<1>7. Sound(g, With(ob, o, y), get_ic, put_ic)
      /\ SeenIn(g, With(ob, o, y)) = With(SeenIn(h, ob), o, Removed(View(h, x), n))
  <2>1. Sound(h, ob, get_ic, put_ic)
    BY <1>2 DEF Operating
  <2> HIDE DEF ob
  <2> QED
    BY <1>1, <1>5, <2>1, Deleted
<1>8. "C" \in SeenNow[o].props[n].on /\ n \in DOMAIN SeenNow[o].props
  <2>1. PICK P : P = SeenNow[o].props
    OBVIOUS
  <2>2. n \in DOMAIN P /\ P[n] = InSlot(E[n], x.slots)
    <3>1. P = [m \in DOMAIN E |-> InSlot(E[m], x.slots)]
      BY ONLY <1>4, <2>1, Zenon
    <3> HIDE DEF E, x
    <3> QED
      BY <1>1, <3>1, Zenon
  <2>3. P[n].on = E[n].on
    BY ONLY <2>2 DEF InSlot
  <2> QED
    BY ONLY <1>1, <2>1, <2>2, <2>3, Zenon
<1> HIDE DEF g, y
<1>9. heap' = g
  BY <1>1, <1>7, HeapSet DEF Sound, HeapSound, Shaped
<1> QED
  BY <1>1, <1>2, <1>3, <1>6, <1>7, <1>8, <1>9 DEF Inv, SeenNow, Operating

LEMMA PreventExtensionsStep ==
    ASSUME Inv, NEW o \in Objects, PreventExtensions(o)
    PROVE  Inv' /\ SeenNow' = With(SeenNow, o, Locked(SeenNow[o], FALSE, {}))
<1> DEFINE ob == object
           h == heap
           x == ob[o]
           s == x.structure
           i == Fresh(h)
           g == NewUnique(h, s, i)
           b == FALSE
           y == Cell(i, b, x.construct_struct, x.slots)
<1>1. /\ ExistsIn(ob, o) /\ HasFresh(h) /\ SetHeap(g)
      /\ get_ic' = get_ic /\ put_ic' = put_ic
      /\ object' = TwiceClosed(ob, o, i, b)
  BY DEF PreventExtensions, Exists, ExistsIn, caches, TwiceClosed
<1>2. Operating(h, o)
  BY <1>1 DEF Operating, Inv, SeenNow
<1>3. x = Cell(s, x.extensible, x.construct_struct, x.slots) /\ SeenNow[o] = View(h, x)
  BY <1>2, OperatingFacts
<1> HIDE DEF h
<1>4. i \in Structure /\ h.st[i] = None
  BY <1>1, FreshFacts
<1>b. b \in BOOLEAN
  OBVIOUS
<1> HIDE DEF i, b
<1>5. object' = With(ob, o, y)
  <2>1. object' = With(ob, o, Closing(x, i, b))
    <3> HIDE DEF ob
    <3> QED
      BY <1>1, TwiceCloses
  <2>2. Closing(x, i, b) = y
    <3> HIDE DEF x, s
    <3> QED
      BY <1>3, CellClosed
  <2> HIDE DEF y, x
  <2> QED
    BY <2>1, <2>2
<1>6. Sound(h, ob, get_ic, put_ic)
  BY <1>2 DEF Operating
<1>7. Sound(g, With(ob, o, y), get_ic, put_ic)
      /\ SeenIn(g, With(ob, o, y)) =
            With(SeenIn(h, ob), o, Viewed(h.st[s].proto, b, Entries(h, s), x.slots))
  <2> HIDE DEF ob
  <2> QED
    BY <1>1, <1>4, <1>6, <1>b, MovedForgets
<1>8. Viewed(h.st[s].proto, b, Entries(h, s), x.slots) = Locked(View(h, x), b, {})
  <2> HIDE DEF ob
  <2> QED
    BY <1>1, <1>6, Restricting
<1> HIDE DEF g, y
<1>9. heap' = g
  BY <1>1, <1>7, HeapSet DEF Sound, HeapSound, Shaped
<1> QED
  BY <1>1, <1>2, <1>3, <1>5, <1>7, <1>8, <1>9 DEF Inv, SeenNow, Operating, b

\* The heap when the properties of o have been visited, to seal or freeze it.
Listed(o) ==
    LET s == object[o].structure IN
    IF heap.st[s].owner = None /\ heap.st[s].previous # None
    THEN AllocateTable(heap, s) ELSE heap

LEMMA ListedStays ==
    ASSUME Inv, NEW o \in Objects, ExistsIn(object, o)
    PROVE  Operating(Listed(o), o)
<1> DEFINE ob == object
           s == ob[o].structure
           h == heap
           g == AllocateTables(h, {s})
<1>1. Sound(h, ob, get_ic, put_ic) /\ HeapSound(h)
  BY DEF Inv, Sound
<1>2. s \in AliveIn(h) /\ Layout(h, s) /\ Private(h, s)
  BY <1>1 DEF Sound, ObjectsSound, ObjectSound, RecordSound, HolderSound
<1>3. Listed(o) = IF h.st[s].owner = None /\ h.st[s].previous # None THEN g ELSE h
  BY DEF Listed, AllocateTable
<1>4. CASE h.st[s].owner = None /\ h.st[s].previous # None
  <2> DEFINE S == {s}
  <2>1. S \subseteq AliveIn(h)
        /\ \A t \in S : /\ h.st[t].owner = None /\ Layout(h, t) /\ Private(h, t)
                        /\ h.st[t].unique \/ h.st[t].previous # None
    BY <1>2, <1>4
  <2> HIDE DEF S, h
  <2>2. AllStay(h, AllocateTables(h, S))
    BY <1>1, <2>1, Built
  <2>3. AllStay(h, g)
    BY <2>2 DEF S
  <2> HIDE DEF g, ob
  <2>4. Sound(g, ob, get_ic, put_ic) /\ SeenIn(g, ob) = SeenIn(h, ob)
    BY <1>1, <2>3, HeapChanged
  <2> QED
    BY <2>4, <1>3, <1>4 DEF Operating, SeenNow, ob, h
<1>5. CASE ~(h.st[s].owner = None /\ h.st[s].previous # None)
  BY <1>5, <1>3, <1>1 DEF Operating, SeenNow
<1> QED
  BY <1>4, <1>5

\* Sealing and freezing.
LEMMA SetIntegrityStep ==
    ASSUME Inv, NEW o \in Objects, NEW fs, SetIntegrity(o, fs)
    PROVE  Inv' /\ SeenNow' = With(SeenNow, o, Locked(SeenNow[o], FALSE, fs))
<1> DEFINE ob == object
           h == Listed(o)
           x == ob[o]
           s == x.structure
           E == Entries(h, s)
           i == Fresh(h)
           f == NewUnique(h, s, i)
           r == Restricted(WithTable(f, i), i, fs)
           changes == \E n \in DOMAIN E : E[n].on \cap fs # {}
           g == IF changes THEN r ELSE f
           b == FALSE
           c == IF Prototype \in DOMAIN E THEN Kept(x.construct_struct, o, Prototype)
                ELSE x.construct_struct
           y == Cell(i, b, c, x.slots)
           z == IF Prototype \in DOMAIN E THEN WithConstructMap(Closing(x, i, b), o, Prototype)
                ELSE Closing(x, i, b)
<1>1. /\ ExistsIn(ob, o) /\ HasFresh(h) /\ SetHeap(g)
      /\ get_ic' = get_ic /\ put_ic' = put_ic
      /\ object' = With(ob, o, z)
  BY DEF SetIntegrity, Exists, ExistsIn, caches, Listed, EntriesOf, With, Closing
<1>2. Operating(h, o)
  BY <1>1, ListedStays
<1> HIDE DEF h
<1>3. x = Cell(s, x.extensible, x.construct_struct, x.slots) /\ SeenNow[o] = View(h, x)
  BY <1>2, OperatingFacts
<1>4. i \in Structure /\ h.st[i] = None
  BY <1>1, FreshFacts
<1>b. b \in BOOLEAN
  OBVIOUS
<1> HIDE DEF i, b
<1>5. z = y
  <2>1. Closing(x, i, b) = Cell(i, b, x.construct_struct, x.slots)
    <3> HIDE DEF x, s
    <3> QED
      BY <1>3, CellClosed
  <2>2. WithConstructMap(Cell(i, b, x.construct_struct, x.slots), o, Prototype)
            = Cell(i, b, Kept(x.construct_struct, o, Prototype), x.slots)
    <3> HIDE DEF x
    <3> QED
      BY CellKept
  <2> HIDE DEF x, E
  <2> QED
    BY <2>1, <2>2
<1>6. Sound(h, ob, get_ic, put_ic)
  BY <1>2 DEF Operating
<1>c. c \in {None, ob[o].construct_struct}
  BY DEF Kept
<1> HIDE DEF c
<1>7. CASE changes
  <2>1. Sound(r, With(ob, o, y), get_ic, put_ic)
        /\ SeenIn(r, With(ob, o, y)) = With(SeenIn(h, ob), o, Locked(View(h, x), b, fs))
    <3> HIDE DEF ob
    <3> QED
      BY <1>1, <1>4, <1>6, <1>b, <1>c, Weakened
  <2>2. g = r
    BY <1>7
  <2> HIDE DEF r, y, g, z
  <2>3. heap' = r
    BY <1>1, <2>1, <2>2, HeapSet DEF Sound, HeapSound, Shaped
  <2> QED
    BY <1>1, <1>2, <1>3, <1>5, <2>1, <2>3 DEF Inv, SeenNow, Operating, b
<1>8. CASE ~changes
  <2>1. Sound(f, With(ob, o, y), get_ic, put_ic)
        /\ SeenIn(f, With(ob, o, y)) =
              With(SeenIn(h, ob), o, Viewed(h.st[s].proto, b, E, x.slots))
    <3> HIDE DEF ob
    <3> QED
      BY <1>1, <1>4, <1>6, <1>b, <1>c, MovedForgets
  <2>2. \A a : Viewed(h.st[s].proto, a, E, x.slots) = Locked(View(h, x), a, fs)
    <3>1. \A n \in DOMAIN E : E[n].on \cap fs = {}
      BY <1>8
    <3> HIDE DEF ob
    <3> QED
      BY <1>1, <1>6, <3>1, Restricting
  <2>3. g = f
    BY <1>8
  <2> HIDE DEF f, y, g, z, E
  <2>4. heap' = f
    BY <1>1, <2>1, <2>3, HeapSet DEF Sound, HeapSound, Shaped
  <2> QED
    BY <1>1, <1>2, <1>3, <1>5, <2>1, <2>2, <2>4 DEF Inv, SeenNow, Operating, b
<1> QED
  BY <1>7, <1>8

-----------------------------------------------------------------------------
(* The access sites.                                                         *)

\* What a get site is left with is right.
LEMMA FeedbackSound ==
    ASSUME NEW h, NEW o, NEW n \in Names, Operating(h, o), Holder(h, o, n) # NoObject
    PROVE  GetSound(h, object, n, GetFeedback(h, o, n))
<1> DEFINE ob == object
           q == Holder(h, o, n)
           s == ob[q].structure
           E == Entries(h, s)
           e == GetFeedback(h, o, n)
           direct == q = h.st[ob[o].structure].proto
<1>1. Sound(h, ob, get_ic, put_ic) /\ o \in Objects /\ ExistsIn(ob, o) /\ ObjectsSound(h, ob)
  BY DEF Operating, Sound
<1>2. q \in Objects /\ Exists(q) /\ HasOwn(h, q, n)
  BY <1>1, HolderFacts
<1>3. ExistsIn(ob, q) /\ n \in DOMAIN E
  BY <1>2 DEF HasOwn, EntriesOf, Exists, ExistsIn
<1>4. Slot(h, q, n).kind = E[n].kind
  BY DEF Slot, EntriesOf, InSlot
<1>5. e = IF E[n].kind # "data" THEN get_ic[n]
          ELSE [mode |-> IF direct THEN "ProtoLoad" ELSE "Default",
                structure |-> IF direct THEN ob[o].structure ELSE s,
                offset |-> E[n].offset]
  BY <1>4 DEF GetFeedback, EntriesOf
<1> HIDE DEF ob, q
<1>6. s \in AliveIn(h) /\ E[n].offset \in Nat
  BY <1>1, <1>2, <1>3, SlotThere
<1>7. ob[o].structure \in AliveIn(h)
  BY <1>1, SlotThere
<1>8. s \in Structure /\ ob[o].structure \in Structure
  BY <1>6, <1>7 DEF AliveIn
<1>9. CASE E[n].kind # "data"
  BY <1>1, <1>5, <1>9 DEF Sound, CachesSound, ob
<1>10. CASE E[n].kind = "data"
  <2>1. CASE direct
    <3>1. e = [mode |-> "ProtoLoad", structure |-> ob[o].structure, offset |-> E[n].offset]
      BY <1>5, <1>10, <2>1
    <3> HIDE DEF e, E
    <3>2. e \in GetEntry /\ e.mode # "Default" /\ e.structure = ob[o].structure
      BY <3>1, <1>6, <1>8 DEF GetEntry
    <3> QED
      BY <3>2, <1>7 DEF GetSound, e
  <2>2. CASE ~direct
    <3>1. e = [mode |-> "Default", structure |-> s, offset |-> E[n].offset]
      BY <1>5, <1>10, <2>2
    <3>2. e \in GetEntry /\ e.structure = s /\ e.offset = E[n].offset
      <4> HIDE DEF e, E, s
      <4> QED
        BY <3>1, <1>6, <1>8 DEF GetEntry
    <3> HIDE DEF e, s
    <3> QED
      BY <3>2, <1>3, <1>6, <1>10 DEF GetSound, e, s
  <2> QED
    BY <2>1, <2>2
<1> QED
  BY <1>9, <1>10

\* OP_GET_BY_ID that misses.
LEMMA GetByIdStep ==
    ASSUME Inv, NEW o \in Objects, NEW n \in Names, GetById(o, n)
    PROVE  Inv' /\ SeenNow' = SeenNow
<1> DEFINE h == LookedUp(o, n)
           e == GetFeedback(h, o, n)
           fills == n \in Sites /\ Holder(h, o, n) # NoObject
<1>1. /\ Exists(o) /\ SetHeap(h) /\ object' = object /\ put_ic' = put_ic
      /\ get_ic' = IF fills THEN [get_ic EXCEPT ![n] = e] ELSE get_ic
  BY DEF GetById
<1>2. Operating(h, o)
  BY <1>1, LookedUpStays DEF Operating, Inv, SeenNow, Exists, ExistsIn
<1> HIDE DEF h
<1>3. heap' = h
  BY <1>1, <1>2, HeapSet DEF Operating, Sound, HeapSound, Shaped
<1>4. HeapSound(h) /\ ObjectsSound(h, object) /\ CachesSound(h, object, get_ic, put_ic)
      /\ SeenIn(h, object) = SeenNow
  BY <1>2 DEF Operating, Sound
<1>5. CachesSound(h, object, get_ic', put_ic)
  <2>1. CASE fills
    <3>1. GetSound(h, object, n, e)
      BY <1>2, <2>1, FeedbackSound
    <3>2. get_ic = [m \in Names |-> get_ic[m]] /\ put_ic = [m \in Names |-> put_ic[m]]
          /\ \A m \in Names : GetSound(h, object, m, get_ic[m]) /\ PutSound(h, object, m, put_ic[m])
      BY <1>4 DEF CachesSound
    <3> HIDE DEF e
    <3>3. get_ic' = [get_ic EXCEPT ![n] = e]
      BY <1>1, <2>1
    <3>4. get_ic' = [m \in Names |-> get_ic'[m]]
          /\ \A m \in Names : get_ic'[m] = IF m = n THEN e ELSE get_ic[m]
      BY <3>2, <3>3
    <3> QED
      BY <3>1, <3>2, <3>4 DEF CachesSound
  <2>2. CASE ~fills
    BY <1>1, <1>4, <2>2
  <2> QED
    BY <2>1, <2>2
<1> QED
  BY <1>1, <1>3, <1>4, <1>5 DEF Inv, SeenNow, Sound

\* An assignment to a writable data property gives it the value.
Assigned(s, d) == IF Verdict(s, d) = "merge" THEN Merge(s, d) ELSE s

LEMMA PutMerged ==
    ASSUME NEW s \in StoredSlot, s.kind = "data", "W" \in s.on, NEW v \in Values
    PROVE  /\ Assigned(s, ValueDescriptor(v)) = Having(s, v)
           /\ Verdict(s, ValueDescriptor(v)) = "merge" => Merge(s, ValueDescriptor(v)) = Having(s, v)
           /\ Having(s, v) \in StoredSlot
<1> DEFINE d == ValueDescriptor(v)
<1>1. d.has = {"value"} /\ d.on = {} /\ d.value = v
  BY DEF ValueDescriptor
<1> HIDE DEF d
<1>2. Kind(d) = "data" /\ Kind(d) # "generic"
  BY <1>1 DEF Kind, DataFields
<1>3. s = Having(s, s.value) /\ s.on \in SUBSET Flags
  BY DEF StoredSlot, Having
<1>4. Having(s, v) \in StoredSlot
  BY DEF StoredSlot, Having
<1>5. Merge(s, d) = Having(s, v)
  <2>1. Replaced(s, d, Flags) = s.on
    <3>1. Flags \cap d.has = {} /\ Flags \cap d.on = {}
      BY <1>1 DEF Flags
    <3> QED
      BY <3>1 DEF Replaced
  <2> QED
    BY <1>1, <1>2, <2>1 DEF Merge, Having
<1>6. v # s.value => Verdict(s, d) = "merge"
  <2> SUFFICES ASSUME v # s.value PROVE Verdict(s, d) = "merge"
    OBVIOUS
  <2>1. ~NoEffect(s, d)
    BY <1>1, <1>2 DEF NoEffect
  <2>2. ~Rejected(s, d)
    BY <1>1, <1>2 DEF Rejected, Agrees
  <2> QED
    BY <1>2, <2>1, <2>2 DEF Verdict
<1>7. Assigned(s, d) = Having(s, v)
  BY <1>3, <1>5, <1>6 DEF Assigned
<1> QED
  BY <1>4, <1>5, <1>7 DEF d

StoredAt(f, o, k, v) == [f EXCEPT ![o].slots[k] = v]

LEMMA StoredAtCell ==
    ASSUME NEW f, NEW o, NEW k, NEW v, NEW a, NEW b, NEW c, NEW e, f[o] = Cell(a, b, c, e)
    PROVE  StoredAt(f, o, k, v) = With(f, o, Cell(a, b, c, With(e, k, v)))
<1>1. StoredAt(f, o, k, v) = [f EXCEPT ![o] = [f[o] EXCEPT !.slots[k] = v]]
  BY Zenon DEF StoredAt
<1>2. [Cell(a, b, c, e) EXCEPT !.slots[k] = v] = Cell(a, b, c, With(e, k, v))
  BY DEF Cell, With
<1>3. [f[o] EXCEPT !.slots[k] = v] = Cell(a, b, c, With(e, k, v))
  BY <1>2
<1> QED
  BY <1>1, <1>3 DEF With

\* An object gets v for its own writable data property n.
Puts(o, n, v) ==
    /\ SeenNow' = With(SeenNow, o, DefinedAs(SeenNow[o], n, ValueDescriptor(v)))
    /\ n \in DOMAIN SeenNow[o].props
    /\ SeenNow[o].props[n].kind = "data" /\ "W" \in SeenNow[o].props[n].on

\* OP_PUT_BY_ID that hits.
LEMMA PutCachedStep ==
    ASSUME Inv, NEW o \in Objects, NEW n \in Names, NEW v \in Values, PutCached(o, n, v)
    PROVE  Inv' /\ Puts(o, n, v)
<1> DEFINE ob == object
           h == heap
           x == ob[o]
           s == x.structure
           E == Entries(h, s)
           k == E[n].offset
           t == Having(E[n], v)
           c == x.construct_struct
           d == ValueDescriptor(v)
           y == Cell(s, x.extensible, c, With(x.slots, k, t.value))
<1>1. /\ ExistsIn(ob, o) /\ CurrentIn(ob, v) /\ PutHits(o, n)
      /\ structure' = structure /\ table' = table /\ transitions' = transitions
      /\ get_ic' = get_ic /\ put_ic' = put_ic
      /\ object' = StoredAt(ob, o, put_ic[n].offset, v)
  BY DEF PutCached, Exists, ExistsIn, Available, CurrentIn, caches, StoredAt
<1>2. heap' = h
  BY <1>1 DEF heap
<1>3. Operating(h, o)
  BY <1>1 DEF Operating, Inv, SeenNow
<1>4. /\ n \in Sites /\ n \in DOMAIN E /\ E[n].kind = "data" /\ "W" \in E[n].on
      /\ put_ic[n].offset = k
  <2>1. PutSound(h, ob, n, put_ic[n])
    BY DEF Inv, Sound, CachesSound
  <2>2. put_ic[n] # None /\ put_ic[n].structure = s
    BY <1>1 DEF PutHits
  <2>3. InUse(h, ob, s)
    BY DEF InUse
  <2> QED
    BY <2>1, <2>2, <2>3 DEF PutSound
<1>5. Sound(h, ob, get_ic, put_ic)
  BY DEF Inv
<1> HIDE DEF h
<1>6. /\ x = Cell(s, x.extensible, c, x.slots) /\ SeenNow[o] = View(h, x)
      /\ SeenNow[o].props = [m \in DOMAIN E |-> InSlot(E[m], x.slots)]
  BY <1>3, OperatingFacts
<1>7. /\ InSlot(E[n], x.slots) \in StoredSlot
      /\ o \in Constructors /\ n = Prototype => "C" \notin E[n].on
  <2> HIDE DEF ob
  <2>1. SlotsFit(E, Cardinality(DOMAIN E) + Len(h.st[s].deleted), x.slots)
        /\ (o \in Constructors => FunctionFits(h, E, ob, x))
    BY <1>1, <1>5, SlotThere
  <2> QED
    BY <1>4, <2>1 DEF SlotsFit, FunctionFits
<1> DEFINE p == InSlot(E[n], x.slots)
<1>8. p.kind = E[n].kind /\ p.on = E[n].on /\ SeenNow[o].props[n] = p /\ n \in DOMAIN SeenNow[o].props
      /\ Having(p, v) = t
  BY <1>4, <1>6 DEF InSlot, Having
<1>9. Having(p, v) \in StoredSlot /\ Assigned(p, d) = Having(p, v)
  <2> HIDE DEF p
  <2> QED
    BY <1>4, <1>7, <1>8, PutMerged DEF p
<1>10. Storable(ob, o, n, t, c)
  <2>1. t.value = v /\ t.kind = E[n].kind /\ t.on = E[n].on
    BY DEF Having
  <2> QED
    BY <1>1, <1>4, <1>7, <1>8, <1>9, <2>1 DEF Storable
<1>11. t.value = v /\ t = Having(E[n], t.value)
  BY DEF Having
<1>12. Sound(h, With(ob, o, y), get_ic, put_ic)
       /\ SeenIn(h, With(ob, o, y)) = With(SeenIn(h, ob), o, Rebound(View(h, x), n, t))
  <2> HIDE DEF ob, t
  <2> QED
    BY <1>1, <1>4, <1>5, <1>10, <1>11, ValueChanged
<1>13. object' = With(ob, o, y)
  <2> HIDE DEF x, s, k, t, c
  <2>1. StoredAt(ob, o, k, v) = With(ob, o, Cell(s, x.extensible, c, With(x.slots, k, v)))
    BY <1>6, StoredAtCell DEF x
  <2> QED
    BY <1>1, <1>4, <1>11, <2>1
<1>14. DefinedAs(SeenNow[o], n, d) = Rebound(View(h, x), n, t)
  <2> HIDE DEF p, t, d
  <2> QED
    BY <1>6, <1>8, <1>9 DEF DefinedAs, Assigned
<1> HIDE DEF y, t, p
<1> QED
  BY <1>1, <1>2, <1>3, <1>4, <1>8, <1>12, <1>13, <1>14 DEF Inv, SeenNow, Operating, Puts, h

\* The first object on the chain is the one it starts from.
LEMMA HolderOwn ==
    ASSUME NEW h, ObjectsSound(h, object), NEW n, NEW o \in Objects, Exists(o), HasOwn(h, o, n)
    PROVE  Holder(h, o, n) = o
<1>1. PICK f : f = HolderBody(h, n, f) /\ \A q \in Objects : Holder(h, q, n) = f[q]
  BY HolderIs
<1>2. HolderBody(h, n, f)[o] = o
  BY DEF HolderBody
<1> QED
  BY <1>1, <1>2

\* The descriptor of an assignment.
Assigning(o, n, v) ==
    IF n \in DOMAIN SeenNow[o].props THEN ValueDescriptor(v) ELSE DataDescriptor(v, Flags)

\* A put that misses, from a site: what the site remembers is right.
LEMMA RememberSound ==
    ASSUME NEW h, NEW o, NEW n, NEW v \in Values, NEW site \in BOOLEAN,
           Defining(h, o, n, ValueDescriptor(v)), AllStay(heap, h), Inv,
           CanPut(h, o, n), Redefine(h, o, n, ValueDescriptor(v)), Remember(site, o, n)
    PROVE  CachesSound(heap', object', get_ic, put_ic')
<1> DEFINE d == ValueDescriptor(v)
           s == object[o].structure
           E == Entries(h, s)
           p == Slot(h, o, n)
           e == [structure |-> object'[o].structure, offset |-> EntriesOf(heap, o)[n].offset]
<1>1. Sound(h, object, get_ic, put_ic) /\ ObjectsSound(h, object) /\ o \in Objects /\ n \in Names
      /\ Exists(o) /\ ExistsIn(object, o)
  BY DEF Defining, Sound, Exists, ExistsIn
<1>2. HasOwn(h, o, n) /\ Verdict(p, d) = "merge"
  BY DEF Redefine
<1>3. Holder(h, o, n) = o
  BY <1>1, <1>2, HolderOwn
<1>4. o # NoObject
  BY <1>1, StructuresAssumption
<1>5. p.kind = "data" /\ "W" \in p.on
  BY <1>3, <1>4 DEF CanPut
<1>6. n \in DOMAIN E /\ p \in StoredSlot /\ p = Having(E[n], p.value)
  BY <1>2, OwnSlot
<1>7. Attrs(Merge(p, d)) = Attrs(p)
  <2> HIDE DEF p
  <2>1. Merge(p, d) = Having(p, v)
    BY <1>2, <1>5, <1>6, PutMerged
  <2> QED
    BY <2>1 DEF Having, Attrs
<1>8. heap' = h /\ object'[o].structure = s /\ Defined(o, n, d)
  BY <1>7, RedefineStep
<1>9. E[n].kind = "data" /\ "W" \in E[n].on
  <2>1. Having(E[n], p.value).kind = E[n].kind /\ Having(E[n], p.value).on = E[n].on
    BY DEF Having
  <2> HIDE DEF p, E
  <2> QED
    BY <1>5, <1>6, <2>1
<1>10. CachesSound(h, object', get_ic, put_ic)
  BY <1>8 DEF Defined, Sound
<1>11. s \in AliveIn(h) /\ E[n].offset \in Nat
  BY <1>1, <1>6, SlotThere
<1>12. Entries(heap, s) = E
  <2>1. Sound(heap, object, get_ic, put_ic)
    BY DEF Inv
  <2>2. s \in AliveIn(heap)
    BY <1>1, <2>1, SlotThere
  <2> QED
    BY <2>2 DEF AllStay, Stays, Same
<1>13. e = [structure |-> s, offset |-> E[n].offset]
  BY <1>8, <1>12 DEF EntriesOf
<1>14. n \in Sites => PutSound(h, object', n, e)
  <2>1. s \in Structure
    BY <1>11 DEF AliveIn
  <2> HIDE DEF e, E, s
  <2>2. e \in PutEntry /\ e.structure = s /\ e.offset = E[n].offset
    BY <1>13, <1>11, <2>1 DEF PutEntry
  <2> HIDE DEF PutEntry
  <2> QED
    BY <2>2, <1>6, <1>9, <1>11 DEF PutSound, E
<1>15. CachesSound(h, object', get_ic, put_ic')
  <2>1. put_ic' = IF site /\ n \in Sites THEN [put_ic EXCEPT ![n] = e] ELSE put_ic
    BY DEF Remember
  <2>2. get_ic = [m \in Names |-> get_ic[m]] /\ put_ic = [m \in Names |-> put_ic[m]]
        /\ \A m \in Names : GetSound(h, object', m, get_ic[m]) /\ PutSound(h, object', m, put_ic[m])
    BY <1>10 DEF CachesSound
  <2> HIDE DEF e
  <2>3. CASE site /\ n \in Sites
    <3>1. put_ic' = [m \in Names |-> put_ic'[m]]
          /\ \A m \in Names : put_ic'[m] = IF m = n THEN e ELSE put_ic[m]
      BY <2>1, <2>2, <2>3
    <3> QED
      BY <1>14, <2>2, <2>3, <3>1 DEF CachesSound
  <2>4. CASE ~(site /\ n \in Sites)
    BY <2>1, <2>4, <1>10
  <2> QED
    BY <2>3, <2>4
<1> QED
  BY <1>8, <1>15

\* Assignments that use no cache, or miss it.
LEMMA PutSlowStep ==
    ASSUME Inv, NEW o \in Objects, NEW n \in Names, NEW v \in Values, NEW site \in BOOLEAN,
           PutSlow(o, n, v, site)
    PROVE  /\ Inv'
           /\ \/ SeenNow' = SeenNow
              \/ /\ CanPut(LookedUp(o, n), o, n)
                 /\ SeenNow' = With(SeenNow, o, DefinedAs(SeenNow[o], n, Assigning(o, n, v)))
<1> DEFINE h == LookedUp(o, n)
           d == IF HasOwn(h, o, n) THEN ValueDescriptor(v) ELSE DataDescriptor(v, Flags)
<1>1. /\ Exists(o) /\ Available(v) /\ get_ic' = get_ic
      /\ \/ /\ CanPut(h, o, n)
            /\ \/ Redefine(h, o, n, d) /\ Remember(site, o, n)
               \/ (AddOwn(h, o, n, d) \/ Ignore(h, o, n, d)) /\ put_ic' = put_ic
         \/ SetHeap(h) /\ object' = object /\ put_ic' = put_ic
  BY DEF PutSlow
<1>2. /\ AllStay(heap, h) /\ Sound(h, object, get_ic, put_ic) /\ SeenIn(h, object) = SeenNow
  BY LookedUpStays DEF Inv, SeenNow
<1> HIDE DEF h
<1>3. d \in Descriptor /\ d.value = v
  <2>1. ValueDescriptor(v).value = v /\ DataDescriptor(v, Flags).value = v
    BY DEF ValueDescriptor, DataDescriptor
  <2> QED
    BY <2>1, PutDescriptorTypes
<1>4. Defining(h, o, n, d)
  <2> HIDE DEF d
  <2> QED
    BY <1>1, <1>2, <1>3 DEF Defining
<1>5. d = Assigning(o, n, v)
  <2>1. HasOwn(h, o, n) <=> n \in DOMAIN SeenNow[o].props
    <3> HIDE DEF d
    <3> QED
      BY <1>4, OwnSlot
  <2> QED
    BY <2>1 DEF Assigning
<1>6. CASE SetHeap(h) /\ object' = object /\ put_ic' = put_ic
  <2>1. heap' = h
    BY <1>2, <1>6, HeapSet DEF Sound, HeapSound, Shaped
  <2> QED
    BY <1>1, <1>2, <1>6, <2>1 DEF Inv, SeenNow
<1>7. CASE CanPut(h, o, n) /\ Redefine(h, o, n, d) /\ Remember(site, o, n)
  <2>1. d = ValueDescriptor(v)
    BY <1>7 DEF Redefine
  <2> HIDE DEF d
  <2>2. Defined(o, n, d)
    BY <1>4, <1>7, RedefineStep
  <2>3. CachesSound(heap', object', get_ic, put_ic')
    BY <1>2, <1>4, <1>7, <2>1, RememberSound
  <2> QED
    BY <1>1, <1>5, <1>7, <2>2, <2>3 DEF Defined, Sound, Inv, h
<1>8. CASE CanPut(h, o, n) /\ (AddOwn(h, o, n, d) \/ Ignore(h, o, n, d)) /\ put_ic' = put_ic
  <2> HIDE DEF d
  <2>1. Defined(o, n, d)
    BY <1>4, <1>8, AddStep, IgnoreStep
  <2> QED
    BY <1>1, <1>5, <1>8, <2>1 DEF Defined, Inv, h
<1> QED
  BY <1>1, <1>6, <1>7, <1>8

-----------------------------------------------------------------------------
(* The beginning.                                                            *)

\* Chains of which every element is an end.
LEMMA ChainedEnds ==
    ASSUME NEW S, NEW B, S \subseteq B, NEW up
    PROVE  Chained(S, B, up)
<1>1. 0 \in Nat /\ [t \in S |-> 0] \in [S -> 0..0]
  OBVIOUS
<1> QED
  BY <1>1 DEF Chained

\* The two roots are all there is.
LEMMA InitHeap ==
    ASSUME Init
    PROVE  HeapSound(heap)
<1> DEFINE h == heap
           T == {empty_object_struct, function_struct}
           b == FALSE
           r == Root(b, NoObject)
<1>1. /\ h.st = [s \in Structure |-> IF s \in T THEN r ELSE None]
      /\ h.tb = [s \in Structure |-> EmptyMap]
      /\ h.tr = [s \in Structure |-> EmptyMap]
      /\ h = [st |-> h.st, tb |-> h.tb, tr |-> h.tr]
  BY DEF Init, heap
<1>2. r \in StructureRecord /\ r # None
  <2>1. b \in BOOLEAN
    OBVIOUS
  <2> HIDE DEF b
  <2> QED
    BY <2>1, RootRecord
<1>3. T \subseteq Structure
  BY StructuresAssumption DEF Structure, empty_object_struct, function_struct
<1>4. /\ r.owner = None /\ r.previous = None /\ r.unique = b /\ r.deleted = <<>>
      /\ r.added = None /\ r.size = 0
  BY DEF Root
<1>b. ~b
  OBVIOUS
<1> HIDE DEF h, r, b
<1>5. EmptyMap \in Maps /\ EmptyMap \in Links /\ DOMAIN EmptyMap = {}
  <2>1. EmptyMap \in [{} -> Structure]
    BY DEF EmptyMap
  <2> QED
    BY <2>1, MapsFacts DEF Links, EmptyMap
<1> HIDE DEF T
<1>6. AliveIn(h) = T /\ \A s \in T : h.st[s] = r
  BY <1>1, <1>2, <1>3 DEF AliveIn
<1>7. h \in Heap
  <2>1. h.st \in [Structure -> StructureRecord \cup {None}]
    BY <1>1, <1>2
  <2>2. h.tb \in [Structure -> Maps] /\ h.tr \in [Structure -> Links]
    BY <1>1, <1>5
  <2> HIDE DEF EmptyMap
  <2> QED
    BY <1>1, <2>1, <2>2 DEF Heap
<1>8. Linked(h)
  BY <1>4, <1>6, <1>b DEF Linked
<1>9. Ranked(h)
  <2>1. Structure \subseteq {s \in Structure : h.st[s] = None \/ h.st[s].previous = None}
    BY <1>1, <1>4, <1>6
  <2> QED
    BY <2>1, ChainedEnds DEF Ranked
<1>10. Shaped(h)
  BY <1>7, <1>8, <1>9 DEF Shaped
<1>11. \A s \in AliveIn(h) : Layout(h, s)
  <2> SUFFICES ASSUME NEW s \in AliveIn(h) PROVE Layout(h, s)
    OBVIOUS
  <2>1. h.st[s] = r
    BY <1>6
  <2>2. Entries(h, s) = EmptyMap
    BY <1>4, <1>10, <2>1, EntriesStep
  <2>3. SlotsSize(h, s) = 0
    BY <1>4, <2>1 DEF SlotsSize
  <2>4. Cardinality(DOMAIN EmptyMap) = 0 /\ Len(<<>>) = 0 /\ DOMAIN <<>> = {}
    BY <1>5, FS_EmptySet
  <2> HIDE DEF EmptyMap
  <2> QED
    BY <1>4, <1>5, <2>1, <2>2, <2>3, <2>4 DEF Layout
<1>12. \A s \in T : h.st[s] = Root(FALSE, NoObject)
  BY <1>6 DEF r, b
<1> HIDE DEF EmptyMap
<1> QED
  BY <1>1, <1>5, <1>10, <1>11, <1>12 DEF HeapSound, T, h

LEMMA InitStep ==
    ASSUME Init
    PROVE  Inv /\ SeenNow = [o \in Objects |-> NoObject]
<1>1. /\ object = [o \in Objects |-> Absent]
      /\ get_ic = [n \in Names |-> None] /\ put_ic = [n \in Names |-> None]
  BY DEF Init
<1>2. \A o \in Objects : object[o].structure = None /\ ~ExistsIn(object, o)
  BY <1>1 DEF Absent, ExistsIn
<1>3. ProtosEnd(heap, object)
  <2>1. Objects \subseteq {q \in Objects : object[q].structure = None
                                \/ heap.st[object[q].structure].proto = NoObject}
    BY <1>2
  <2> QED
    BY <2>1, ChainedEnds DEF ProtosEnd
<1>4. ObjectsSound(heap, object)
  <2>1. object = [o \in Objects |-> object[o]]
    BY <1>1
  <2> QED
    BY <1>2, <1>3, <2>1 DEF ObjectsSound
<1>5. CachesSound(heap, object, get_ic, put_ic)
  <2>1. get_ic = [n \in Names |-> get_ic[n]] /\ put_ic = [n \in Names |-> put_ic[n]]
        /\ \A n \in Names : get_ic[n] = None /\ put_ic[n] = None
    BY <1>1
  <2> QED
    BY <2>1 DEF CachesSound, GetSound, PutSound
<1>6. SeenNow = [o \in Objects |-> NoObject]
  BY <1>2 DEF SeenNow, SeenIn
<1> QED
  BY <1>4, <1>5, <1>6, InitHeap DEF Inv, Sound

-----------------------------------------------------------------------------
(* The invariant.                                                            *)

LEMMA NextInv ==
    ASSUME Inv, Next
    PROVE  Inv'
<1>1. ASSUME NEW o \in Objects, NEW n \in Names, NEW v \in Values, PutSlow(o, n, v, TRUE)
      PROVE  Inv'
  <2> DEFINE b == TRUE
  <2>1. b \in BOOLEAN /\ PutSlow(o, n, v, b)
    BY <1>1
  <2> HIDE DEF b
  <2> QED
    BY <2>1, PutSlowStep
<1>2. ASSUME NEW o \in Objects, NEW n \in Names, NEW v \in Values, PutSlow(o, n, v, FALSE)
      PROVE  Inv'
  <2> DEFINE b == FALSE
  <2>1. b \in BOOLEAN /\ PutSlow(o, n, v, b)
    BY <1>2
  <2> HIDE DEF b
  <2> QED
    BY <2>1, PutSlowStep
<1>3. ASSUME NEW o \in Objects, NEW fs, SetIntegrity(o, fs)
      PROVE  Inv'
  BY <1>3, SetIntegrityStep
<1>4. ASSUME NEW o \in Objects, NEW p \in Objects,
             NewObject(o) \/ ObjectCreate(o, p) \/ NewFunction(o, p) \/ Construct(o, p)
      PROVE  Inv'
  BY <1>4, NewObjectStep, ObjectCreateStep, NewFunctionStep, ConstructStep
<1>5. ASSUME NEW o \in Objects, NEW n \in Names, NEW d \in Descriptors, DefineOwn(o, n, d)
      PROVE  Inv'
  BY <1>5, DefineOwnStep
<1>6. ASSUME NEW o \in Objects, NEW n \in Names,
             Delete(o, n) \/ GetById(o, n) \/ (\E v \in Values : PutCached(o, n, v))
      PROVE  Inv'
  BY <1>6, DeleteStep, GetByIdStep, PutCachedStep
<1>7. ASSUME NEW o \in Objects, PreventExtensions(o)
      PROVE  Inv'
  BY <1>7, PreventExtensionsStep
<1>8. Collect => Inv'
  BY CollectStep
<1> QED
  BY <1>1, <1>2, <1>3, <1>4, <1>5, <1>6, <1>7, <1>8 DEF Next

\* The structures, objects and caches are sound in every reachable state.
THEOREM SoundAlways == Spec => []Inv
<1>1. Init => Inv
  BY InitStep
<1>2. Inv /\ [Next]_vars => Inv'
  <2> SUFFICES ASSUME Inv, UNCHANGED vars PROVE Inv'
    BY NextInv
  <2>1. heap' = heap /\ object' = object /\ get_ic' = get_ic /\ put_ic' = put_ic
    BY DEF vars, heap
  <2> QED
    BY <2>1 DEF Inv
<1> QED
  BY <1>1, <1>2, PTL DEF Spec

-----------------------------------------------------------------------------
(* What the runs check.                                                      *)

LEMMA TypeHolds ==
    ASSUME Inv
    PROVE  TypeOK
<1> DEFINE h == heap
           ob == object
<1>1. /\ structure = h.st /\ table = h.tb /\ transitions = h.tr /\ Alive = AliveIn(h)
  BY DEF heap, Alive
<1>2. Sound(h, ob, get_ic, put_ic) /\ HeapSound(h) /\ Shaped(h) /\ h \in Heap
      /\ CachesSound(h, ob, get_ic, put_ic)
  BY DEF Inv, Sound, HeapSound, Shaped
<1> HIDE DEF h, ob
<1>3. ASSUME NEW s \in AliveIn(h)
      PROVE  /\ h.st[s].unique \in BOOLEAN
             /\ h.st[s].proto \in Objects \cup {NoObject}
             /\ h.st[s].owner \in AliveIn(h) \cup {None}
             /\ h.st[s].previous \in AliveIn(h) \cup {None}
             /\ h.st[s].deleted \in Seq(Nat)
             /\ h.st[s].size \in Nat
  <2>1. h.st[s] \in StructureRecord
    BY <1>2 DEF Heap, AliveIn
  <2>2. /\ h.st[s].owner # None => h.st[s].owner \in AliveIn(h)
        /\ h.st[s].previous # None => h.st[s].previous \in AliveIn(h)
    BY <1>2 DEF Shaped, Linked
  <2> QED
    BY <2>1, <2>2 DEF StructureRecord
<1>4. ASSUME NEW s \in Structure, NEW n \in DOMAIN h.tb[s]
      PROVE  n \in Names /\ h.tb[s][n] \in MapEntry
  <2>1. h.tb[s] \in Maps
    BY <1>2 DEF Heap
  <2> QED
    BY <2>1, MapsFacts
<1>5. ASSUME NEW s \in Structure, NEW k \in DOMAIN h.tr[s]
      PROVE  k \in Names \X Attributes /\ h.tr[s][k] \in AliveIn(h)
  <2>1. h.tr[s] \in Links
    BY <1>2 DEF Heap
  <2>2. k \in Names \X Attributes
    BY <2>1 DEF Links
  <2>3. Leads(h, s, k, h.tr[s][k])
    BY <1>2 DEF HeapSound
  <2> QED
    BY <2>2, <2>3 DEF Leads
<1>6. ASSUME NEW o \in Objects, ExistsIn(ob, o)
      PROVE  /\ ob[o].structure \in AliveIn(h)
             /\ ob[o].extensible \in BOOLEAN
             /\ ob[o].construct_struct \in AliveIn(h) \cup {None}
  <2>1. ConstructSound(h, ob, ob[o].construct_struct)
    BY <1>2, <1>6 DEF Sound, ObjectsSound, ObjectSound, RecordSound
  <2> QED
    BY <1>2, <1>6, <2>1, SlotThere DEF ConstructSound
<1>7. ASSUME NEW n \in Names
      PROVE  \A site \in {get_ic[n], put_ic[n]} : site # None => site.structure \in AliveIn(h)
  BY <1>2 DEF CachesSound, GetSound, PutSound
<1> QED
  BY <1>1, <1>3, <1>4, <1>5, <1>6, <1>7 DEF TypeOK, Exists, ExistsIn, ob

LEMMA UniqueHolds ==
    ASSUME Inv
    PROVE  UniqueOwned
<1> SUFFICES ASSUME NEW o \in Objects, NEW p \in Objects, Exists(o), Exists(p), o # p
             PROVE  LET s == object[o].structure
                        t == object[p].structure
                    IN  structure[s].unique =>
                            s # t /\ (structure[s].owner # None =>
                                        structure[s].owner # structure[t].owner)
  BY DEF UniqueOwned
<1>1. ExistsIn(object, o) /\ ExistsIn(object, p)
  BY DEF Exists, ExistsIn
<1>2. Separate(heap, object[o].structure, object[p].structure)
  BY <1>1 DEF Inv, Sound, ObjectsSound, Apart
<1>3. structure = heap.st
  BY DEF heap
<1> QED
  BY <1>2, <1>3 DEF Separate

LEMMA DisjointHolds ==
    ASSUME Inv
    PROVE  SlotsDisjoint
<1> SUFFICES ASSUME NEW o \in Objects, Exists(o)
             PROVE  LET E == EntriesOf(heap, o)
                        deleted == structure[object[o].structure].deleted
                    IN  /\ \A n \in DOMAIN E : /\ E[n].offset \in DOMAIN object[o].slots
                                               /\ object[o].slots[E[n].offset] # Hole
                        /\ \A m, n \in DOMAIN E : E[m].offset = E[n].offset => m = n
                        /\ \A k \in DOMAIN deleted : \A n \in DOMAIN E : E[n].offset # deleted[k]
                        /\ SlotsSize(heap, object[o].structure) = Cardinality(DOMAIN E) + Len(deleted)
  BY DEF SlotsDisjoint
<1> DEFINE h == heap
           ob == object
           s == ob[o].structure
           E == Entries(h, s)
<1>1. ExistsIn(ob, o) /\ Sound(h, ob, get_ic, put_ic) /\ structure = h.st
      /\ EntriesOf(heap, o) = E
  BY DEF Exists, ExistsIn, Inv, heap, EntriesOf
<1> HIDE DEF h, ob
<1>2. Layout(h, s)
  BY <1>1 DEF Sound, ObjectsSound, ObjectSound, RecordSound, HolderSound
<1>3. /\ \A n \in DOMAIN E : E[n].offset \in DOMAIN ob[o].slots
      /\ SlotsFit(E, Cardinality(DOMAIN E) + Len(h.st[s].deleted), ob[o].slots)
  BY <1>1, SlotThere
<1>4. ASSUME NEW n \in DOMAIN E
      PROVE  ob[o].slots[E[n].offset] # Hole
  <2>1. InSlot(E[n], ob[o].slots) \in StoredSlot
    BY <1>3 DEF SlotsFit
  <2>2. InSlot(E[n], ob[o].slots).value = ob[o].slots[E[n].offset]
    BY DEF InSlot
  <2>3. \A t \in StoredSlot : t.value # Hole
    BY MarksAssumption DEF StoredSlot
  <2> QED
    BY <2>1, <2>2, <2>3
<1> QED
  BY <1>1, <1>2, <1>3, <1>4 DEF Layout, h, ob

\* No reference to a structure dangles, no two objects share what one of them
\* changes in place, and no two properties of an object share a slot: at any
\* time, for any number of objects, names, values and structures.
THEOREM StructuresSoundHolds == Spec => []StructuresSound
<1>1. Inv => StructuresSound
  BY TypeHolds, UniqueHolds, DisjointHolds DEF StructuresSound
<1> QED
  BY <1>1, SoundAlways, PTL

\* An inline cache that hits finds the slot of the object's own property.
THEOREM CachesCoherentHolds == Spec => []CachesCoherent
<1>1. Inv => CachesCoherent
  <2> SUFFICES ASSUME Inv, NEW o \in Objects, Exists(o), NEW n \in Names
               PROVE  LET E == EntriesOf(heap, o) IN
                      /\ GetHits(o, n) =>
                        n \in DOMAIN E /\ E[n].kind = "data" /\ E[n].offset = get_ic[n].offset
                      /\ PutHits(o, n) =>
                        /\ n \in DOMAIN E /\ E[n].kind = "data" /\ "W" \in E[n].on
                        /\ E[n].offset = put_ic[n].offset
    BY DEF CachesCoherent
  <2>1. GetSound(heap, object, n, get_ic[n]) /\ PutSound(heap, object, n, put_ic[n])
    BY DEF Inv, Sound, CachesSound
  <2>2. InUse(heap, object, object[o].structure)
    BY DEF InUse
  <2> QED
    BY <2>1, <2>2 DEF GetSound, PutSound, GetHits, PutHits, EntriesOf
<1> QED
  BY <1>1, SoundAlways, PTL

-----------------------------------------------------------------------------
(* What functions remember for their instances.                              *)

\* The structure c of the heap h has the prototype p: no operation on structures
\* changes it.
HasProto(h, c, p) ==
    "st" \in DOMAIN h /\ c \in DOMAIN h.st /\ "proto" \in DOMAIN h.st[c] /\ h.st[c].proto = p

LEMMA ProtoAllocated ==
    ASSUME NEW h, NEW c \in Structure, NEW p, HasProto(h, c, p), NEW S
    PROVE  HasProto(AllocateTables(h, S), c, p)
<1> DEFINE g == AllocateTables(h, S)
           x == h.st[c]
<1>1. "st" \in DOMAIN g /\ c \in DOMAIN g.st
      /\ g.st[c] = IF c \in S THEN [x EXCEPT !.owner = c, !.previous = None] ELSE x
  BY DEF AllocateTables, HasProto
<1>2. "proto" \in DOMAIN x /\ x.proto = p
  BY DEF HasProto
<1> HIDE DEF g, x
<1> QED
  BY <1>1, <1>2 DEF HasProto, g

LEMMA ProtoTabled ==
    ASSUME NEW h, NEW c \in Structure, NEW p, HasProto(h, c, p), NEW s
    PROVE  HasProto(WithTable(h, s), c, p)
BY ProtoAllocated DEF WithTable, AllocateTable

LEMMA ProtoUnique ==
    ASSUME NEW h, NEW c \in Structure, NEW p, HasProto(h, c, p), NEW s, NEW i, i # c
    PROVE  HasProto(NewUnique(h, s, i), c, p)
BY DEF NewUnique, HasProto

LEMMA ProtoUniqueTabled ==
    ASSUME NEW h, NEW c \in Structure, NEW p, HasProto(h, c, p), NEW s, NEW i, i # c
    PROVE  HasProto(WithTable(NewUnique(h, s, i), i), c, p)
BY ProtoUnique, ProtoTabled

LEMMA ProtoAttributes ==
    ASSUME NEW h, NEW c \in Structure, NEW p, HasProto(h, c, p), NEW s, NEW i, i # c,
           NEW n, NEW attrs
    PROVE  HasProto(ChangeAttributes(h, s, i, n, attrs), c, p)
<1> DEFINE g == WithTable(NewUnique(h, s, i), i)
<1>1. HasProto(g, c, p)
  BY ProtoUniqueTabled
<1> HIDE DEF g
<1>2. ChangeAttributes(h, s, i, n, attrs)
      = [g EXCEPT !.tb[g.st[i].owner][n] = [offset |-> @.offset, kind |-> attrs.kind, on |-> attrs.on]]
  BY DEF ChangeAttributes, g
<1> QED
  BY <1>1, <1>2 DEF HasProto

LEMMA ProtoDeleted ==
    ASSUME NEW h, NEW c \in Structure, NEW p, HasProto(h, c, p), NEW s, NEW i, i # c, NEW n
    PROVE  HasProto(DeleteProperty(h, s, i, n), c, p)
<1> DEFINE g == WithTable(NewUnique(h, s, i), i)
           t == g.tb[g.st[i].owner]
           k == DeleteProperty(h, s, i, n)
<1>1. HasProto(g, c, p)
  BY ProtoUniqueTabled
<1>2. k = [g EXCEPT !.tb[g.st[i].owner] = [m \in DOMAIN @ \ {n} |-> @[m]],
                    !.st[i].deleted = <<t[n].offset>> \o @]
  BY DEF DeleteProperty
<1> HIDE DEF g, k
<1>3. "st" \in DOMAIN k /\ c \in DOMAIN k.st /\ k.st[c] = g.st[c]
  BY <1>1, <1>2 DEF HasProto
<1> QED
  BY <1>1, <1>3 DEF HasProto, k

LEMMA ProtoInPlace ==
    ASSUME NEW h, NEW c \in Structure, NEW p, HasProto(h, c, p), NEW s, NEW n, NEW attrs
    PROVE  HasProto(AddInPlace(h, s, n, attrs), c, p)
<1> DEFINE g == WithTable(h, s)
           k == AddInPlace(h, s, n, attrs)
           e == Entry(NextOffset(g, s), attrs)
<1>1. HasProto(g, c, p)
  BY ProtoTabled
<1>2. k = [g EXCEPT !.tb[g.st[s].owner] = Bind(@, n, e),
                    !.st[s].deleted = IF @ = <<>> THEN @ ELSE Tail(@)]
  BY DEF AddInPlace
<1> HIDE DEF g, k, e
<1>3. "st" \in DOMAIN k /\ c \in DOMAIN k.st
      /\ k.st[c] = IF c = s THEN [g.st[s] EXCEPT !.deleted = IF @ = <<>> THEN @ ELSE Tail(@)]
                   ELSE g.st[c]
  BY <1>1, <1>2 DEF HasProto
<1> QED
  BY <1>1, <1>3 DEF HasProto, k

LEMMA ProtoChild ==
    ASSUME NEW h, NEW c \in Structure, NEW p, HasProto(h, c, p), NEW s, NEW i, i # c,
           NEW n, NEW attrs
    PROVE  HasProto(AddChild(h, s, i, n, attrs), c, p)
BY DEF AddChild, HasProto

LEMMA ProtoAdded ==
    ASSUME NEW h, NEW c \in Structure, NEW p, HasProto(h, c, p), NEW s, NEW n, NEW attrs,
           NeedsChild(h, s, n, attrs) => Fresh(h) # c
    PROVE  HasProto(AddProperty(h, s, n, attrs).heap, c, p)
<1>1. HasProto(AddInPlace(h, s, n, attrs), c, p)
  BY ProtoInPlace
<1>2. NeedsChild(h, s, n, attrs) => HasProto(AddChild(h, s, Fresh(h), n, attrs), c, p)
  BY ProtoChild
<1> QED
  BY <1>1, <1>2 DEF AddProperty

\* The function f remembers c.
Remembers(f, c) == f \in Objects /\ Exists(f) /\ c = object[f].construct_struct /\ c # None

LEMMA RememberedProto ==
    ASSUME NEW h, Sound(h, object, get_ic, put_ic), NEW f, NEW c, Remembers(f, c)
    PROVE  /\ c \in Structure /\ HasProto(h, c, h.st[c].proto)
           /\ HasFresh(h) => Fresh(h) # c
<1> DEFINE ob == object
<1>1. ConstructSound(h, ob, ob[f].construct_struct)
  <2>1. ExistsIn(ob, f) /\ f \in Objects
    BY DEF Remembers, Exists, ExistsIn
  <2> HIDE DEF ob
  <2> QED
    BY <2>1 DEF Sound, ObjectsSound, ObjectSound, RecordSound, ob
<1>2. c \in Structure /\ h.st[c] # None
  BY <1>1 DEF ConstructSound, AliveIn, Remembers
<1>3. h \in Heap
  BY DEF Sound, HeapSound, Shaped
<1>4. h.st[c] \in StructureRecord
  BY <1>2, <1>3 DEF Heap
<1>5. HasProto(h, c, h.st[c].proto)
  BY <1>2, <1>3, <1>4 DEF HasProto, Heap, StructureRecord
<1> QED
  BY <1>2, <1>5, FreshFacts

\* Nothing but what f remembers and its prototype property makes it stale.
LEMMA StaysCurrent ==
    ASSUME Inv, Inv', NEW f \in Constructors, Exists(f), ~Stale(f),
           object'[f].construct_struct \in {None, object[f].construct_struct},
           NEW c, c = object[f].construct_struct,
           c # None /\ object'[f].construct_struct = c => structure'[c].proto = structure[c].proto,
           SeenNow'[f].props[Prototype] = SeenNow[f].props[Prototype]
    PROVE  ~Stale(f)'
<1>1. f \in Objects
  BY StructuresAssumption
<1>2. SeenNow[f].props[Prototype].value = Slot(heap, f, Prototype).value
  <2>1. SeenIn(heap, object)[f].props[Prototype].value = PrototypeOf(heap, object[f])
    BY <1>1, PrototypeSeen DEF Inv, Exists, ExistsIn
  <2> QED
    BY <2>1 DEF SeenNow, PrototypeOf, Slot, InSlot, EntriesOf
<1> SUFFICES ASSUME Stale(f)' PROVE FALSE
  OBVIOUS
<1>3. Exists(f)' /\ object'[f].construct_struct # None
  BY DEF Stale
<1>4. SeenNow'[f].props[Prototype].value = Slot(heap, f, Prototype)'.value
  <2>1. SeenIn(heap', object')[f].props[Prototype].value = PrototypeOf(heap', object'[f])
    <3> DEFINE h == heap'
               ob == object'
               gic == get_ic'
               pic == put_ic'
    <3>1. Sound(h, ob, gic, pic) /\ ExistsIn(ob, f)
      BY <1>3 DEF Inv, Exists, ExistsIn
    <3> HIDE DEF h, ob, gic, pic
    <3>2. SeenIn(h, ob)[f].props[Prototype].value = PrototypeOf(h, ob[f])
      BY <1>1, <3>1, PrototypeSeen
    <3> QED
      BY <3>2 DEF h, ob
  <2> QED
    BY <2>1 DEF SeenNow, PrototypeOf, Slot, InSlot, EntriesOf
<1>5. Slot(heap, f, Prototype)'.value = Slot(heap, f, Prototype).value
  BY <1>2, <1>4
<1> DEFINE v == Slot(heap, f, Prototype).value
<1>6. structure[c].proto = IF v \in Objects THEN v ELSE NoObject
  BY <1>3 DEF Stale
<1>7. structure'[c].proto # IF v \in Objects THEN v ELSE NoObject
  <2>1. structure'[object'[f].construct_struct].proto
        # IF v' \in Objects THEN v' ELSE NoObject
    BY DEF Stale
  <2>2. v' = v
    BY <1>5
  <2> HIDE DEF v
  <2> QED
    BY <1>3, <2>1, <2>2
<1> QED
  BY <1>3, <1>6, <1>7

\* What the step on o leaves of another object.
LEMMA OthersSeen ==
    ASSUME NEW o, NEW f \in Objects, f # o, NEW y, SeenNow' = With(SeenNow, o, y)
    PROVE  SeenNow'[f] = SeenNow[f]
<1>1. DOMAIN SeenNow = Objects
  BY DEF SeenNow, SeenIn
<1> QED
  BY <1>1 DEF With

\* The view of a function has its prototype property.
LEMMA PrototypeViewed ==
    ASSUME Inv, NEW f \in Constructors, Exists(f)
    PROVE  /\ Prototype \in DOMAIN SeenNow[f].props
           /\ DOMAIN SeenNow[f] = {"proto", "extensible", "props"}
           /\ "C" \notin SeenNow[f].props[Prototype].on
<1> DEFINE ob == object
           h == heap
           E == Entries(h, ob[f].structure)
<1>1. f \in Objects /\ ExistsIn(ob, f) /\ Sound(h, ob, get_ic, put_ic)
  BY StructuresAssumption DEF Exists, ExistsIn, Inv
<1>2. SeenNow[f] = View(h, ob[f])
  BY <1>1 DEF SeenNow, SeenIn
<1> HIDE DEF ob, h
<1>3. FunctionFits(h, E, ob, ob[f])
  BY <1>1, SlotThere
<1>4. View(h, ob[f]).props = [n \in DOMAIN E |-> InSlot(E[n], ob[f].slots)]
      /\ DOMAIN View(h, ob[f]) = {"proto", "extensible", "props"}
  BY DEF View, Viewed
<1> HIDE DEF E
<1> QED
  BY <1>2, <1>3, <1>4 DEF FunctionFits, InSlot

\* A definition of another property is none of the prototype property.
LEMMA DefinedElsewhere ==
    ASSUME Inv, NEW f \in Constructors, Exists(f), NEW n, n # Prototype, NEW d
    PROVE  DefinedAs(SeenNow[f], n, d).props[Prototype] = SeenNow[f].props[Prototype]
<1> DEFINE x == SeenNow[f]
<1>1. Prototype \in DOMAIN x.props /\ DOMAIN x = {"proto", "extensible", "props"}
  BY PrototypeViewed
<1> HIDE DEF x
<1>2. \A p : Rebound(x, n, p).props[Prototype] = x.props[Prototype]
  BY <1>1 DEF Rebound
<1>3. \A p : Extended(x, n, p).props[Prototype] = x.props[Prototype]
  BY <1>1 DEF Extended, Bind
<1> QED
  BY <1>2, <1>3 DEF DefinedAs, x

\* A step that leaves f as it is, for the engine and for the program.
LEMMA UntouchedCurrent ==
    ASSUME Inv, Inv', NEW f \in Constructors, ~Stale(f),
           object'[f] = object[f], SeenNow'[f] = SeenNow[f],
           \A c : Remembers(f, c) => structure'[c].proto = structure[c].proto
    PROVE  ~Stale(f)'
<1>1. CASE ~Exists(f)
  BY <1>1 DEF Stale, Exists
<1>2. CASE Exists(f)
  <2> DEFINE c == object[f].construct_struct
  <2>1. f \in Objects
    BY StructuresAssumption
  <2>2. c # None => structure'[c].proto = structure[c].proto
    BY <1>2, <2>1 DEF Remembers
  <2>3. object'[f].construct_struct = c
    OBVIOUS
  <2> HIDE DEF c
  <2> QED
    BY <1>2, <2>2, <2>3, StaysCurrent DEF c
<1> QED
  BY <1>1, <1>2

\* The prototype of what f remembers, after the lookups of a step.
LEMMA ProtoNow ==
    ASSUME Inv, NEW f, NEW c, Remembers(f, c)
    PROVE  /\ c \in Structure /\ HasProto(heap, c, structure[c].proto)
           /\ HasFresh(heap) => Fresh(heap) # c
           /\ \A o, n : HasProto(LookedUp(o, n), c, structure[c].proto)
           /\ \A o, n : HasProto(LookedUpOwn(o, n), c, structure[c].proto)
           /\ \A o : HasProto(Listed(o), c, structure[c].proto)
<1>1. c \in Structure /\ HasProto(heap, c, heap.st[c].proto)
      /\ (HasFresh(heap) => Fresh(heap) # c)
  BY RememberedProto DEF Inv
<1>2. heap.st[c].proto = structure[c].proto
  BY DEF heap
<1> DEFINE p == structure[c].proto
<1> HIDE DEF p
<1>3. \A S : HasProto(AllocateTables(heap, S), c, p)
  BY <1>1, <1>2, ProtoAllocated DEF p
<1>4. \A o : HasProto(Listed(o), c, p)
  BY <1>1, <1>2, <1>3 DEF Listed, AllocateTable, p
<1> QED
  BY <1>1, <1>2, <1>3, <1>4 DEF LookedUp, LookedUpOwn, Looked, p

LEMMA ProtoSet ==
    ASSUME NEW g, NEW c, NEW p, HasProto(g, c, p), SetHeap(g)
    PROVE  structure'[c].proto = p
BY DEF HasProto, SetHeap

\* The parts of a definition keep the prototypes, and reset what o remembers.
LEMMA DefiningProto ==
    ASSUME NEW h, Sound(h, object, get_ic, put_ic), NEW f, NEW c, Remembers(f, c),
           NEW p, HasProto(h, c, p), NEW o, NEW n, NEW d,
           Redefine(h, o, n, d) \/ AddOwn(h, o, n, d) \/ Ignore(h, o, n, d)
    PROVE  structure'[c].proto = p
<1>1. c \in Structure /\ (HasFresh(h) => Fresh(h) # c)
  BY RememberedProto
<1>2. CASE Redefine(h, o, n, d)
  <2> DEFINE s == object[o].structure
             t == Merge(Slot(h, o, n), d)
             moves == Attrs(t) # Attrs(Slot(h, o, n))
             g == ChangeAttributes(h, s, Fresh(h), n, Attrs(t))
  <2>1. (moves => HasFresh(h)) /\ SetHeap(IF moves THEN g ELSE h)
    BY <1>2 DEF Redefine
  <2>2. moves => HasProto(g, c, p)
    BY <1>1, <2>1, ProtoAttributes
  <2> HIDE DEF g, moves
  <2> QED
    BY <2>1, <2>2, ProtoSet
<1>3. CASE AddOwn(h, o, n, d)
  <2> DEFINE s == object[o].structure
             g == AddProperty(h, s, n, Attrs(NewSlot(d))).heap
  <2>1. (NeedsChild(h, s, n, Attrs(NewSlot(d))) => HasFresh(h)) /\ SetHeap(g)
    BY <1>3 DEF AddOwn
  <2>2. HasProto(g, c, p)
    BY <1>1, <2>1, ProtoAdded
  <2> HIDE DEF g
  <2> QED
    BY <2>1, <2>2, ProtoSet
<1>4. CASE Ignore(h, o, n, d)
  BY <1>4, ProtoSet DEF Ignore
<1> QED
  BY <1>2, <1>3, <1>4

LEMMA CellKeeps ==
    ASSUME NEW a, NEW b, NEW c, NEW e, NEW o, NEW n
    PROVE  WithConstructMap(Cell(a, b, c, e), o, n).construct_struct = Kept(c, o, n)
BY DEF Cell, WithConstructMap, Kept

LEMMA DefiningCell ==
    ASSUME NEW h, Sound(h, object, get_ic, put_ic), NEW o \in Objects, Exists(o), NEW n, NEW d,
           Redefine(h, o, n, d) \/ AddOwn(h, o, n, d) \/ Ignore(h, o, n, d)
    PROVE  /\ \A q \in Objects \ {o} : object'[q] = object[q]
           /\ object'[o].construct_struct = Kept(object[o].construct_struct, o, n)
<1> DEFINE x == object[o]
           c == x.construct_struct
           ob == object
<1>1. x = Cell(x.structure, x.extensible, c, x.slots) /\ ob = [q \in Objects |-> ob[q]]
  <2>1. ExistsIn(ob, o)
    BY DEF Exists, ExistsIn
  <2> HIDE DEF ob
  <2>2. ob[o] = Cell(ob[o].structure, ob[o].extensible, ob[o].construct_struct, ob[o].slots)
    BY <2>1, SlotThere DEF ob
  <2> QED
    BY <2>2 DEF Sound, ObjectsSound, ob
<1>2. \A y : [object EXCEPT ![o] = y][o] = y
             /\ \A q \in Objects \ {o} : [object EXCEPT ![o] = y][q] = object[q]
  BY <1>1
<1> HIDE DEF x, c, ob
<1>3. \A i, k, v : WithConstructMap(Moving(x, i, k, v), o, n).construct_struct = Kept(c, o, n)
  <2> SUFFICES ASSUME NEW i, NEW k, NEW v
               PROVE  WithConstructMap(Moving(x, i, k, v), o, n).construct_struct = Kept(c, o, n)
    OBVIOUS
  <2>1. Moving(x, i, k, v) = Cell(i, x.extensible, c, With(x.slots, k, v))
    BY <1>1, CellMoved
  <2> QED
    BY <2>1, CellKeeps
<1>4. \A i, e : WithConstructMap(Storing(x, i, e), o, n).construct_struct = Kept(c, o, n)
  <2> SUFFICES ASSUME NEW i, NEW e
               PROVE  WithConstructMap(Storing(x, i, e), o, n).construct_struct = Kept(c, o, n)
    OBVIOUS
  <2>1. Storing(x, i, e) = Cell(i, x.extensible, c, e)
    BY <1>1, CellStored
  <2> QED
    BY <2>1, CellKeeps
<1>5. WithConstructMap(x, o, n).construct_struct = Kept(c, o, n)
  BY <1>1, CellKeeps
<1>6. CASE Redefine(h, o, n, d)
  <2> DEFINE t == Merge(Slot(h, o, n), d)
             i == IF Attrs(t) # Attrs(Slot(h, o, n)) THEN Fresh(h) ELSE x.structure
             k == EntriesOf(h, o)[n].offset
             y == WithConstructMap(Moving(x, i, k, t.value), o, n)
  <2>1. object' = [object EXCEPT ![o] = y]
    BY <1>6, Zenon DEF Redefine, Moving, x
  <2>2. y.construct_struct = Kept(c, o, n)
    BY <1>3
  <2> HIDE DEF y
  <2> QED
    BY <1>2, <2>1, <2>2 DEF x, c
<1>7. CASE AddOwn(h, o, n, d)
  <2> DEFINE t == NewSlot(d)
             a == AddProperty(h, x.structure, n, Attrs(t))
             e == Stored(x.slots, Capacity(a.heap, a.to), Entries(a.heap, a.to)[n].offset, t.value)
             y == WithConstructMap(Storing(x, a.to, e), o, n)
  <2>1. object' = [object EXCEPT ![o] = y]
    BY <1>7, Zenon DEF AddOwn, Storing, x
  <2>2. y.construct_struct = Kept(c, o, n)
    BY <1>4
  <2> HIDE DEF y
  <2> QED
    BY <1>2, <2>1, <2>2 DEF x, c
<1>8. CASE Ignore(h, o, n, d)
  <2>1. object' = [object EXCEPT ![o] = WithConstructMap(x, o, n)]
    BY <1>8 DEF Ignore, x
  <2> QED
    BY <1>2, <1>5, <2>1 DEF x, c
<1> QED
  BY <1>6, <1>7, <1>8

LEMMA ObjectShape ==
    ASSUME Inv
    PROVE  DOMAIN object = Objects
<1> DEFINE ob == object
<1>1. ob = [q \in Objects |-> ob[q]]
  BY DEF Inv, Sound, ObjectsSound
<1> HIDE DEF ob
<1> QED
  BY <1>1 DEF ob

LEMMA ObjectCell ==
    ASSUME Inv, NEW o \in Objects, Exists(o)
    PROVE  object[o] = Cell(object[o].structure, object[o].extensible,
                            object[o].construct_struct, object[o].slots)
BY SlotThere DEF Inv, Exists, ExistsIn

\* The step defines n of o, in the heap h in which the prototypes are what they
\* were, and shows it as a definition of n by e or not at all.
Settles(h, o, n, d) ==
    /\ Sound(h, object, get_ic, put_ic)
    /\ \A f, c : Remembers(f, c) => HasProto(h, c, structure[c].proto)
    /\ o \in Objects /\ Exists(o)
    /\ Redefine(h, o, n, d) \/ AddOwn(h, o, n, d) \/ Ignore(h, o, n, d)

Shows(o, n, e) ==
    SeenNow' = SeenNow \/ SeenNow' = With(SeenNow, o, DefinedAs(SeenNow[o], n, e))

\* Definitions of properties, by defineProperty or by a put.
LEMMA DefiningCurrent ==
    ASSUME Inv, Inv', NEW f \in Constructors, ~Stale(f),
           NEW h, NEW o, NEW n, NEW d, Settles(h, o, n, d), NEW e, Shows(o, n, e)
    PROVE  ~Stale(f)'
<1>1. f \in Objects /\ o \in Objects /\ Exists(o)
  BY StructuresAssumption DEF Settles
<1>2. \A c : Remembers(f, c) => structure'[c].proto = structure[c].proto
  <2> SUFFICES ASSUME NEW c, Remembers(f, c)
               PROVE  structure'[c].proto = structure[c].proto
    OBVIOUS
  <2> DEFINE p == structure[c].proto
  <2> HIDE DEF p
  <2>1. HasProto(h, c, p)
    BY DEF Settles, p
  <2>2. structure'[c].proto = p
    BY <2>1, DefiningProto DEF Settles
  <2> QED
    BY <2>2 DEF p
<1>3. /\ \A q \in Objects \ {o} : object'[q] = object[q]
      /\ object'[o].construct_struct = Kept(object[o].construct_struct, o, n)
  BY DefiningCell DEF Settles
<1>4. CASE f # o
  <2>1. SeenNow'[f] = SeenNow[f]
    BY <1>1, <1>4, OthersSeen DEF Shows
  <2> QED
    BY <1>1, <1>2, <1>3, <1>4, <2>1, UntouchedCurrent
<1>5. CASE f = o /\ n = Prototype
  BY <1>3, <1>5 DEF Kept, ResetsConstructMap, Stale
<1>6. CASE f = o /\ n # Prototype
  <2>1. object'[f].construct_struct = object[f].construct_struct
    BY <1>3, <1>6 DEF Kept, ResetsConstructMap
  <2>2. With(SeenNow, f, DefinedAs(SeenNow[f], n, e))[f] = DefinedAs(SeenNow[f], n, e)
    BY <1>1 DEF With, SeenNow, SeenIn
  <2>3. SeenNow'[f].props[Prototype] = SeenNow[f].props[Prototype]
    <3>1. SeenNow' = SeenNow \/ SeenNow' = With(SeenNow, f, DefinedAs(SeenNow[f], n, e))
      BY <1>6, Zenon DEF Shows
    <3>2. DefinedAs(SeenNow[f], n, e).props[Prototype] = SeenNow[f].props[Prototype]
      BY <1>1, <1>6, DefinedElsewhere
    <3> QED
      BY <2>2, <3>1, <3>2
  <2> DEFINE c == object[f].construct_struct
  <2>4. c # None => structure'[c].proto = structure[c].proto
    BY <1>1, <1>2, <1>6 DEF Remembers
  <2>5. Exists(f) /\ object'[f].construct_struct = c
    BY <1>1, <1>6, <2>1
  <2> HIDE DEF c
  <2> QED
    BY <2>3, <2>4, <2>5, StaysCurrent DEF c
<1> QED
  BY <1>4, <1>5, <1>6

LEMMA DefineOwnCurrent ==
    ASSUME Inv, NEW f \in Constructors, ~Stale(f),
           NEW o \in Objects, NEW n \in Names, NEW d \in Descriptors, DefineOwn(o, n, d)
    PROVE  ~Stale(f)'
<1> DEFINE h == LookedUpOwn(o, n)
<1>1. Exists(o) /\ (Redefine(h, o, n, d) \/ AddOwn(h, o, n, d) \/ Ignore(h, o, n, d))
  BY DEF DefineOwn
<1>2. Inv' /\ SeenNow' = With(SeenNow, o, DefinedAs(SeenNow[o], n, d))
  BY DefineOwnStep
<1>3. Sound(h, object, get_ic, put_ic)
  BY <1>1, LookedUpOwnStays DEF Inv
<1>4. \A g, c : Remembers(g, c) => HasProto(h, c, structure[c].proto)
  BY ProtoNow
<1> HIDE DEF h
<1>5. Settles(h, o, n, d) /\ Shows(o, n, d)
  BY <1>1, <1>2, <1>3, <1>4 DEF Settles, Shows
<1> QED
  BY <1>2, <1>5, DefiningCurrent

LEMMA PutSlowCurrent ==
    ASSUME Inv, NEW f \in Constructors, ~Stale(f),
           NEW o \in Objects, NEW n \in Names, NEW v \in Values, NEW site \in BOOLEAN,
           PutSlow(o, n, v, site)
    PROVE  ~Stale(f)'
<1> DEFINE h == LookedUp(o, n)
           d == IF HasOwn(h, o, n) THEN ValueDescriptor(v) ELSE DataDescriptor(v, Flags)
           e == Assigning(o, n, v)
<1>1. /\ Exists(o)
      /\ \/ Redefine(h, o, n, d) \/ AddOwn(h, o, n, d) \/ Ignore(h, o, n, d)
         \/ ~CanPut(h, o, n) /\ SetHeap(h) /\ object' = object
  BY DEF PutSlow
<1>2. /\ Inv' /\ Shows(o, n, e)
      /\ CanPut(h, o, n) \/ SeenNow' = SeenNow
  BY PutSlowStep DEF Shows
<1>3. Sound(h, object, get_ic, put_ic)
  BY LookedUpStays DEF Inv
<1>4. \A g, c : Remembers(g, c) => HasProto(h, c, structure[c].proto)
  BY ProtoNow
<1> HIDE DEF h, d, e
<1>5. CASE Redefine(h, o, n, d) \/ AddOwn(h, o, n, d) \/ Ignore(h, o, n, d)
  <2>1. Settles(h, o, n, d)
    BY <1>1, <1>3, <1>4, <1>5 DEF Settles
  <2> QED
    BY <1>2, <2>1, DefiningCurrent
<1>6. CASE ~CanPut(h, o, n) /\ SetHeap(h) /\ object' = object
  <2>1. \A c : Remembers(f, c) => structure'[c].proto = structure[c].proto
    BY <1>4, <1>6, ProtoSet
  <2>2. object'[f] = object[f] /\ SeenNow'[f] = SeenNow[f]
    BY <1>2, <1>6
  <2> QED
    BY <1>2, <2>1, <2>2, UntouchedCurrent
<1> QED
  BY <1>1, <1>5, <1>6

\* Reads, and a collection: no object changes.
LEMMA ReadsCurrent ==
    ASSUME Inv, NEW f \in Constructors, ~Stale(f),
           NEW o \in Objects, NEW n \in Names, GetById(o, n)
    PROVE  ~Stale(f)'
<1>1. Inv' /\ SeenNow' = SeenNow
  BY GetByIdStep
<1>2. SetHeap(LookedUp(o, n)) /\ object' = object
  BY DEF GetById
<1>3. \A c : Remembers(f, c) => structure'[c].proto = structure[c].proto
  BY <1>2, ProtoNow, ProtoSet
<1>4. object'[f] = object[f] /\ SeenNow'[f] = SeenNow[f]
  BY <1>1, <1>2
<1> QED
  BY <1>1, <1>3, <1>4, UntouchedCurrent

LEMMA CollectCurrent ==
    ASSUME Inv, NEW f \in Constructors, ~Stale(f), Collect
    PROVE  ~Stale(f)'
<1>1. Inv' /\ SeenNow' = SeenNow
  BY CollectStep
<1>2. object' = object
  BY DEF Collect
<1>3. ASSUME NEW c, Remembers(f, c)
      PROVE  structure'[c].proto = structure[c].proto
  <2>1. c \in Structure
    BY <1>3, ProtoNow
  <2>2. structure'[c] = IF c \in Held THEN structure[c] ELSE None
    BY <2>1 DEF Collect
  <2>3. structure'[c] # None
    <3>1. f \in Objects /\ Exists(f) /\ c = object[f].construct_struct /\ c # None
      BY <1>3 DEF Remembers
    <3>2. ConstructSound(heap', object', object'[f].construct_struct)
      <4> DEFINE h == heap'
                 ob == object'
                 gic == get_ic'
                 pic == put_ic'
      <4>1. Sound(h, ob, gic, pic) /\ ExistsIn(ob, f)
        BY <1>1, <1>2, <3>1 DEF Inv, Exists, ExistsIn
      <4> HIDE DEF h, ob, gic, pic
      <4>2. ConstructSound(h, ob, ob[f].construct_struct)
        BY <3>1, <4>1 DEF Sound, ObjectsSound, ObjectSound, RecordSound
      <4> QED
        BY <4>2 DEF h, ob
    <3>3. c \in AliveIn(heap')
      BY <1>2, <3>1, <3>2 DEF ConstructSound
    <3> QED
      BY <3>3 DEF AliveIn, heap
  <2> QED
    BY <2>2, <2>3
<1> QED
  BY <1>1, <1>2, <1>3, UntouchedCurrent

\* New objects: only those of the function itself, and its own creation, concern it.
LEMMA CreatedCurrent ==
    ASSUME Inv, NEW f \in Constructors, ~Stale(f), NEW o \in Objects,
           NewObject(o) \/ \E p \in Objects : ObjectCreate(o, p)
    PROVE  ~Stale(f)'
<1>1. f \in Objects /\ f # o
  BY StructuresAssumption DEF NewObject, ObjectCreate
<1>2. Inv' /\ \E x : SeenNow' = With(SeenNow, o, x)
  BY NewObjectStep, ObjectCreateStep DEF CreatedAs
<1>3. SeenNow'[f] = SeenNow[f]
  BY <1>1, <1>2, OthersSeen
<1>4. object'[f] = object[f]
  BY <1>1, ObjectShape DEF NewObject, ObjectCreate
<1>5. ASSUME NEW c, Remembers(f, c)
      PROVE  structure'[c].proto = structure[c].proto
  <2>1. CASE NewObject(o)
    BY <2>1 DEF NewObject
  <2>2. CASE \E p \in Objects : ObjectCreate(o, p)
    <3>1. PICK p \in Objects : ObjectCreate(o, p)
      BY <2>2
    <3> DEFINE h == [heap EXCEPT !.st[Fresh(heap)] = Root(TRUE, p)]
    <3>2. HasFresh(heap) /\ structure' = h.st
      BY <3>1 DEF ObjectCreate, SetHeap
    <3>3. Fresh(heap) # c
      BY <1>5, <3>2, ProtoNow
    <3>4. h.st = [structure EXCEPT ![Fresh(heap)] = Root(TRUE, p)]
      BY DEF heap
    <3> HIDE DEF h
    <3>5. structure'[c] = structure[c]
      BY <1>5, <3>2, <3>3, <3>4, ProtoNow DEF HasProto, heap
    <3> QED
      BY <3>5
  <2> QED
    BY <2>1, <2>2
<1> QED
  BY <1>2, <1>3, <1>4, <1>5, UntouchedCurrent

LEMMA FunctionCurrent ==
    ASSUME Inv, NEW f \in Constructors, ~Stale(f),
           NEW e \in Objects, NEW p \in Objects, NewFunction(e, p)
    PROVE  ~Stale(f)'
<1> DEFINE attrs == [kind |-> "data", on |-> {"W"}]
           a == AddProperty(heap, function_struct, Prototype, attrs)
<1>1. /\ p \notin Constructors /\ e # p
      /\ NeedsChild(heap, function_struct, Prototype, attrs) => HasFresh(heap)
      /\ SetHeap(a.heap)
  BY DEF NewFunction
<1>2. PICK x, y : /\ object' = [object EXCEPT ![p] = x, ![e] = y]
                  /\ y.construct_struct = None
  <2> DEFINE x == New(heap, empty_object_struct)
             y == [structure |-> a.to, extensible |-> TRUE, construct_struct |-> None,
                   slots |-> Stored(<<>>, Capacity(a.heap, a.to),
                                    Entries(a.heap, a.to)[Prototype].offset, p)]
  <2>1. object' = [object EXCEPT ![p] = x, ![e] = y]
    BY Zenon DEF NewFunction
  <2>2. y.construct_struct = None
    OBVIOUS
  <2> HIDE DEF x, y
  <2> QED
    BY <2>1, <2>2
<1> HIDE DEF a, attrs
<1>3. f \in Objects /\ f # p
  BY <1>1, StructuresAssumption
<1>4. Inv' /\ \E u, w : SeenNow' = With(With(SeenNow, p, u), e, w)
  BY NewFunctionStep
<1>5. CASE f = e
  <2>1. object'[f].construct_struct = None
    BY <1>2, <1>3, <1>5, ObjectShape
  <2> QED
    BY <2>1 DEF Stale
<1>6. CASE f # e
  <2>1. object'[f] = object[f]
    BY <1>2, <1>3, <1>6, ObjectShape
  <2>2. SeenNow'[f] = SeenNow[f]
    BY <1>3, <1>4, <1>6 DEF With, SeenNow, SeenIn
  <2>3. ASSUME NEW c, Remembers(f, c)
        PROVE  structure'[c].proto = structure[c].proto
    <3> DEFINE q == structure[c].proto
    <3>1. c \in Structure /\ HasProto(heap, c, q) /\ (HasFresh(heap) => Fresh(heap) # c)
      BY <2>3, ProtoNow
    <3> HIDE DEF q
    <3>2. HasProto(a.heap, c, q)
      BY <1>1, <3>1, ProtoAdded DEF a
    <3> QED
      BY <1>1, <3>2, ProtoSet DEF q
  <2> QED
    BY <1>4, <2>1, <2>2, <2>3, UntouchedCurrent
<1> QED
  BY <1>5, <1>6

\* An instance of the function: what it remembers now is for its prototype.
LEMMA ConstructCurrent ==
    ASSUME Inv, NEW f \in Constructors, ~Stale(f),
           NEW o \in Objects, NEW e \in Objects, Construct(o, e)
    PROVE  ~Stale(f)'
<1> DEFINE h == LookedUpOwn(e, Prototype)
           v == Slot(h, e, Prototype).value
           known == object[e].construct_struct # None
           i == IF known THEN object[e].construct_struct ELSE Fresh(h)
           q == IF v \in Objects THEN v ELSE NoObject
           g == IF known THEN heap ELSE [h EXCEPT !.st[i] = Root(FALSE, q)]
           y == New(g, i)
<1>1. /\ e \in Constructors /\ Exists(e) /\ o \notin Constructors
      /\ ~known => HasFresh(h)
      /\ SetHeap(g)
      /\ object' = [object EXCEPT ![e].construct_struct = i, ![o] = y]
  BY DEF Construct
<1>2. f \in Objects /\ f # o /\ e # o
  BY <1>1, StructuresAssumption
<1>3. Inv' /\ \E x : SeenNow' = With(SeenNow, o, x)
  BY ConstructStep DEF CreatedAs
<1>4. SeenNow'[f] = SeenNow[f]
  BY <1>2, <1>3, OthersSeen
<1>5. Sound(h, object, get_ic, put_ic) /\ SeenIn(h, object) = SeenNow
  BY <1>1, LookedUpOwnStays DEF Inv, SeenNow
<1>6. \A d, c : Remembers(d, c) => /\ c \in Structure /\ HasProto(h, c, structure[c].proto)
                                   /\ HasProto(heap, c, structure[c].proto)
                                   /\ (HasFresh(h) => Fresh(h) # c)
  BY <1>5, ProtoNow, RememberedProto
<1>7. v = SeenNow[e].props[Prototype].value
  <2>1. SeenIn(h, object)[e].props[Prototype].value = PrototypeOf(h, object[e])
    <3> DEFINE ob == object
    <3>1. ExistsIn(ob, e) /\ Sound(h, ob, get_ic, put_ic)
      BY <1>1, <1>5 DEF Exists, ExistsIn
    <3> HIDE DEF h, ob
    <3>2. SeenIn(h, ob)[e].props[Prototype].value = PrototypeOf(h, ob[e])
      BY <1>1, <3>1, PrototypeSeen
    <3> QED
      BY <3>2 DEF ob
  <2> QED
    BY <1>5, <2>1 DEF Slot, InSlot, EntriesOf, PrototypeOf
<1> HIDE DEF h, v, y
<1>8. /\ object'[f] = IF f = e THEN [object[e] EXCEPT !.construct_struct = i] ELSE object[f]
  BY <1>1, <1>2, ObjectShape
<1>9. CASE f # e \/ known
  <2>1. object'[f] = object[f]
    <3>1. f = e => object[e] = [object[e] EXCEPT !.construct_struct = object[e].construct_struct]
      BY <1>1, ObjectCell DEF Cell
    <3> QED
      BY <1>8, <1>9, <3>1
  <2>2. ASSUME NEW c, Remembers(f, c)
        PROVE  structure'[c].proto = structure[c].proto
    <3>1. CASE known
      BY <1>1, <3>1 DEF SetHeap, heap
    <3>2. CASE ~known
      <4>1. structure' = [h EXCEPT !.st[i] = Root(FALSE, q)].st /\ i # c
        BY <1>1, <1>6, <2>2, <3>2 DEF SetHeap
      <4>2. HasProto(h, c, structure[c].proto)
        BY <1>6, <2>2
      <4> HIDE DEF i, q
      <4>3. structure'[c] = h.st[c]
        BY <4>1, <4>2 DEF HasProto
      <4> QED
        BY <4>2, <4>3 DEF HasProto
    <3> QED
      BY <3>1, <3>2
  <2> QED
    BY <1>3, <1>4, <2>1, <2>2, UntouchedCurrent
<1>10. CASE f = e /\ ~known
  <2>1. object'[f].construct_struct = i
    <3> DEFINE x == object[e]
    <3>1. x = Cell(x.structure, x.extensible, x.construct_struct, x.slots)
      BY <1>1, <1>2, <1>10, ObjectCell
    <3> HIDE DEF i, x
    <3>2. [x EXCEPT !.construct_struct = i].construct_struct = i
      BY <3>1 DEF Cell
    <3> QED
      BY <1>8, <1>10, <3>2 DEF x
  <2>2. structure'[i].proto = q
    <3>1. structure' = [h EXCEPT !.st[i] = Root(FALSE, q)].st
      BY <1>1, <1>10 DEF SetHeap
    <3>2. i \in DOMAIN h.st /\ "st" \in DOMAIN h
      <4>1. i \in Structure /\ h \in Heap
        BY <1>1, <1>5, <1>10, FreshFacts DEF Sound, HeapSound, Shaped
      <4> QED
        BY <4>1 DEF Heap
    <3> HIDE DEF i, q
    <3>3. structure'[i] = Root(FALSE, q)
      BY <3>1, <3>2
    <3> QED
      BY <3>3 DEF Root
  <2>3. Exists(f)' => Slot(heap, f, Prototype)'.value = v
    <3> SUFFICES ASSUME Exists(f)' PROVE Slot(heap, f, Prototype)'.value = v
      OBVIOUS
    <3>1. SeenIn(heap', object')[f].props[Prototype].value = PrototypeOf(heap', object'[f])
      <4> DEFINE k == heap'
                 ob == object'
                 gic == get_ic'
                 pic == put_ic'
      <4>1. Sound(k, ob, gic, pic) /\ ExistsIn(ob, f)
        BY <1>3 DEF Inv, Exists, ExistsIn
      <4> HIDE DEF k, ob, gic, pic
      <4>2. SeenIn(k, ob)[f].props[Prototype].value = PrototypeOf(k, ob[f])
        BY <1>2, <4>1, PrototypeSeen
      <4> QED
        BY <4>2 DEF k, ob
    <3>2. SeenNow'[f].props[Prototype].value = Slot(heap, f, Prototype)'.value
      BY <3>1 DEF SeenNow, PrototypeOf, Slot, InSlot, EntriesOf
    <3> QED
      BY <1>4, <1>7, <1>10, <3>2
  <2> HIDE DEF i
  <2> QED
    BY <2>1, <2>2, <2>3 DEF Stale
<1> QED
  BY <1>9, <1>10

\* The step leaves everything of o that matters as it was, if o is f.
LEMMA ChangedCurrent ==
    ASSUME Inv, Inv', NEW f \in Constructors, ~Stale(f), NEW o \in Objects, Exists(o),
           \A q \in Objects \ {o} : object'[q] = object[q],
           object'[o].construct_struct \in {None, object[o].construct_struct},
           \A c : Remembers(f, c) => structure'[c].proto = structure[c].proto,
           NEW y, SeenNow' = With(SeenNow, o, y),
           f = o => y.props[Prototype] = SeenNow[o].props[Prototype]
    PROVE  ~Stale(f)'
<1>1. f \in Objects /\ DOMAIN SeenNow = Objects
  BY StructuresAssumption DEF SeenNow, SeenIn
<1>2. CASE f # o
  <2>1. SeenNow'[f] = SeenNow[f] /\ object'[f] = object[f]
    BY <1>1, <1>2, OthersSeen
  <2> QED
    BY <2>1, UntouchedCurrent
<1>3. CASE f = o
  <2> DEFINE c == object[f].construct_struct
  <2>1. SeenNow'[f].props[Prototype] = SeenNow[f].props[Prototype]
    BY <1>1, <1>3 DEF With
  <2>2. c # None => structure'[c].proto = structure[c].proto
    BY <1>1, <1>3 DEF Remembers
  <2>3. Exists(f) /\ object'[f].construct_struct \in {None, c}
    BY <1>3
  <2> HIDE DEF c
  <2> QED
    BY <2>1, <2>2, <2>3, StaysCurrent DEF c
<1> QED
  BY <1>2, <1>3

\* A deletion: the prototype property of a function cannot be deleted.
LEMMA DeleteCurrent ==
    ASSUME Inv, NEW f \in Constructors, ~Stale(f),
           NEW o \in Objects, NEW n \in Names, Delete(o, n)
    PROVE  ~Stale(f)'
<1> DEFINE h == LookedUpOwn(o, n)
           x == object[o]
           i == Fresh(h)
           k == EntriesOf(h, o)[n].offset
           y == Removed(SeenNow[o], n)
<1>1. /\ Exists(o) /\ HasFresh(h)
      /\ SetHeap(DeleteProperty(h, x.structure, i, n))
      /\ object' = Twice(object, o, i, k, Hole)
  BY Zenon DEF Delete, Twice
<1>2. /\ Inv' /\ SeenNow' = With(SeenNow, o, y)
      /\ n \in DOMAIN SeenNow[o].props /\ "C" \in SeenNow[o].props[n].on
  BY DeleteStep
<1>3. f = o => y.props[Prototype] = SeenNow[o].props[Prototype]
  <2> SUFFICES ASSUME f = o PROVE y.props[Prototype] = SeenNow[o].props[Prototype]
    OBVIOUS
  <2> DEFINE z == SeenNow[o]
  <2>1. /\ Prototype \in DOMAIN z.props /\ DOMAIN z = {"proto", "extensible", "props"}
        /\ n # Prototype
    BY <1>1, <1>2, PrototypeViewed
  <2> HIDE DEF z
  <2> QED
    BY <2>1 DEF Removed, z
<1>4. ASSUME NEW c, Remembers(f, c)
      PROVE  structure'[c].proto = structure[c].proto
  <2> DEFINE p == structure[c].proto
  <2>1. Sound(h, object, get_ic, put_ic)
    BY <1>1, LookedUpOwnStays DEF Inv
  <2>2. c \in Structure /\ HasProto(h, c, p)
    BY <1>4, ProtoNow
  <2>3. i # c
    BY <1>1, <1>4, <2>1, RememberedProto
  <2> HIDE DEF p, h, i
  <2>4. HasProto(DeleteProperty(h, x.structure, i, n), c, p)
    BY <2>2, <2>3, ProtoDeleted
  <2> QED
    BY <1>1, <2>4, ProtoSet DEF p
<1>5. /\ \A q \in Objects \ {o} : object'[q] = object[q]
      /\ object'[o].construct_struct = x.construct_struct
  <2>1. x = Cell(x.structure, x.extensible, x.construct_struct, x.slots)
    BY <1>1, ObjectCell
  <2> HIDE DEF i, k
  <2>2. Twice(object, o, i, k, Hole)[o] = Moving(x, i, k, Hole)
        /\ \A q \in Objects \ {o} : Twice(object, o, i, k, Hole)[q] = object[q]
    BY ObjectShape DEF Twice, Moving
  <2> HIDE DEF x
  <2>3. Moving(x, i, k, Hole) = Cell(i, x.extensible, x.construct_struct, With(x.slots, k, Hole))
    BY <2>1, CellMoved
  <2> QED
    BY <1>1, <2>2, <2>3 DEF Cell
<1> HIDE DEF h, y, k, i
<1> QED
  BY <1>1, <1>2, <1>3, <1>4, <1>5, ChangedCurrent

\* A put that hits the cache writes the slot of the property and no other.
LEMMA PutCachedCurrent ==
    ASSUME Inv, NEW f \in Constructors, ~Stale(f),
           NEW o \in Objects, NEW n \in Names, NEW v \in Values, PutCached(o, n, v),
           f # o \/ n # Prototype
    PROVE  ~Stale(f)'
<1> DEFINE k == put_ic[n].offset
           y == DefinedAs(SeenNow[o], n, ValueDescriptor(v))
           x == object[o]
<1>1. Exists(o) /\ structure' = structure /\ object' = [object EXCEPT ![o].slots[k] = v]
  BY DEF PutCached
<1>2. Inv' /\ SeenNow' = With(SeenNow, o, y)
  BY PutCachedStep DEF Puts
<1>3. f = o => y.props[Prototype] = SeenNow[o].props[Prototype]
  BY <1>1, DefinedElsewhere
<1>4. /\ \A q \in Objects \ {o} : object'[q] = object[q]
      /\ object'[o].construct_struct = x.construct_struct
  <2>1. x = Cell(x.structure, x.extensible, x.construct_struct, x.slots)
    BY <1>1, ObjectCell
  <2> HIDE DEF k
  <2>2. object'[o] = [x EXCEPT !.slots[k] = v] /\ \A q \in Objects \ {o} : object'[q] = object[q]
    BY <1>1, ObjectShape
  <2> HIDE DEF x
  <2>3. [x EXCEPT !.slots[k] = v].construct_struct = x.construct_struct
    BY <2>1 DEF Cell
  <2> QED
    BY <2>2, <2>3
<1> HIDE DEF y, k
<1> QED
  BY <1>1, <1>2, <1>3, <1>4, ChangedCurrent

\* Nothing else about the prototype property changes when an object is closed.
LEMMA LockedPrototype ==
    ASSUME Inv, NEW f \in Constructors, Exists(f)
    PROVE  Locked(SeenNow[f], FALSE, {}).props[Prototype] = SeenNow[f].props[Prototype]
<1> DEFINE z == SeenNow[f]
           e == z.props[Prototype]
<1>1. Prototype \in DOMAIN z.props /\ DOMAIN z = {"proto", "extensible", "props"}
  BY PrototypeViewed
<1>2. e = [kind |-> e.kind, on |-> e.on, value |-> e.value]
  <2> DEFINE ob == object
             h == heap
             E == Entries(h, ob[f].structure)
  <2>1. SeenNow[f] = View(h, ob[f])
    BY StructuresAssumption DEF SeenNow, SeenIn, Exists, ExistsIn
  <2>2. View(h, ob[f]).props = [n \in DOMAIN E |-> InSlot(E[n], ob[f].slots)]
    BY DEF View, Viewed
  <2> HIDE DEF ob, h, E
  <2> QED
    BY <1>1, <2>1, <2>2 DEF InSlot
<1> HIDE DEF z, e
<1>3. [e EXCEPT !.on = @ \ {}] = e
  BY <1>2
<1> QED
  BY <1>1, <1>3 DEF Locked, Unset, z, e

LEMMA PreventExtensionsCurrent ==
    ASSUME Inv, NEW f \in Constructors, ~Stale(f), NEW o \in Objects, PreventExtensions(o)
    PROVE  ~Stale(f)'
<1> DEFINE i == Fresh(heap)
           x == object[o]
           y == Locked(SeenNow[o], FALSE, {})
           s == x.structure
<1>1. /\ Exists(o) /\ HasFresh(heap)
      /\ SetHeap(NewUnique(heap, s, i))
      /\ object' = TwiceClosed(object, o, i, FALSE)
  BY Zenon DEF PreventExtensions, TwiceClosed
<1>2. Inv' /\ SeenNow' = With(SeenNow, o, y)
  BY PreventExtensionsStep
<1>3. f = o => y.props[Prototype] = SeenNow[o].props[Prototype]
  BY <1>1, LockedPrototype
<1>4. ASSUME NEW c, Remembers(f, c)
      PROVE  structure'[c].proto = structure[c].proto
  <2> DEFINE p == structure[c].proto
  <2>1. c \in Structure /\ HasProto(heap, c, p) /\ i # c
    BY <1>1, <1>4, ProtoNow
  <2> HIDE DEF p, i, s
  <2>2. HasProto(NewUnique(heap, s, i), c, p)
    BY <2>1, ProtoUnique
  <2> QED
    BY <1>1, <2>2, ProtoSet DEF p
<1>5. /\ \A q \in Objects \ {o} : object'[q] = object[q]
      /\ object'[o].construct_struct = x.construct_struct
  <2>1. x = Cell(x.structure, x.extensible, x.construct_struct, x.slots)
    BY <1>1, ObjectCell
  <2> DEFINE b == FALSE
  <2>2. object' = TwiceClosed(object, o, i, b)
    BY <1>1
  <2> HIDE DEF i, b
  <2>3. TwiceClosed(object, o, i, b) = With(object, o, Closing(x, i, b))
    BY TwiceCloses
  <2>4. With(object, o, Closing(x, i, b))[o] = Closing(x, i, b)
        /\ \A q \in Objects \ {o} : With(object, o, Closing(x, i, b))[q] = object[q]
    BY ObjectShape DEF With
  <2> HIDE DEF x, s
  <2>5. Closing(x, i, b) = Cell(i, b, x.construct_struct, x.slots)
    BY <2>1, CellClosed
  <2>6. Closing(x, i, b).construct_struct = x.construct_struct
    BY <2>5 DEF Cell
  <2> QED
    BY <2>2, <2>3, <2>4, <2>6
<1> HIDE DEF y, i
<1> QED
  BY <1>1, <1>2, <1>3, <1>4, <1>5, ChangedCurrent

\* A function that is sealed or frozen forgets what it remembered.
LEMMA SetIntegrityCurrent ==
    ASSUME Inv, NEW f \in Constructors, ~Stale(f), NEW o \in Objects, NEW fs, SetIntegrity(o, fs)
    PROVE  ~Stale(f)'
<1> DEFINE ob == object
           h == Listed(o)
           x == ob[o]
           s == x.structure
           E == Entries(h, s)
           i == Fresh(h)
           u == NewUnique(h, s, i)
           r == Restricted(WithTable(u, i), i, fs)
           changes == \E n \in DOMAIN E : E[n].on \cap fs # {}
           b == FALSE
           z == IF Prototype \in DOMAIN E THEN WithConstructMap(Closing(x, i, b), o, Prototype)
                ELSE Closing(x, i, b)
<1>1. /\ ExistsIn(ob, o) /\ HasFresh(h) /\ SetHeap(IF changes THEN r ELSE u)
      /\ object' = With(ob, o, z)
  BY DEF SetIntegrity, Exists, ExistsIn, Listed, EntriesOf, With, Closing
<1>2. Operating(h, o)
  BY <1>1, ListedStays
<1>3. Inv' /\ \E y : SeenNow' = With(SeenNow, o, y)
  BY SetIntegrityStep
<1>4. f \in Objects /\ DOMAIN ob = Objects
  BY StructuresAssumption, ObjectShape
<1>5. ASSUME NEW c, Remembers(f, c)
      PROVE  structure'[c].proto = structure[c].proto
  <2> DEFINE p == structure[c].proto
  <2>1. c \in Structure /\ HasProto(h, c, p)
    BY <1>5, ProtoNow
  <2>2. i # c
    BY <1>1, <1>2, <1>5, RememberedProto DEF Operating
  <2> HIDE DEF p, h, i, s
  <2>3. HasProto(u, c, p) /\ HasProto(WithTable(u, i), c, p)
    BY <2>1, <2>2, ProtoUnique, ProtoTabled
  <2>4. HasProto(r, c, p)
    <3> DEFINE w == WithTable(u, i)
    <3>1. HasProto(w, c, p)
      BY <2>3
    <3> HIDE DEF w
    <3>2. HasProto(Restricted(w, i, fs), c, p)
      BY <3>1 DEF Restricted, HasProto
    <3> QED
      BY <3>2 DEF w
  <2> HIDE DEF r, u, changes
  <2>5. \A g : HasProto(g, c, p) /\ SetHeap(g) => structure'[c].proto = p
    BY ProtoSet
  <2> QED
    BY <1>1, <2>3, <2>4, <2>5 DEF p
<1>6. CASE f # o
  <2> HIDE DEF z
  <2>1. object'[f] = object[f]
    BY <1>1, <1>4, <1>6 DEF With
  <2>2. SeenNow'[f] = SeenNow[f]
    BY <1>3, <1>4, <1>6, OthersSeen
  <2> QED
    BY <1>3, <1>5, <2>1, <2>2, UntouchedCurrent
<1>7. CASE f = o
  <2>1. Prototype \in DOMAIN E
    <3> HIDE DEF ob, h
    <3>1. FunctionFits(h, E, ob, x)
      <4>1. Sound(h, ob, get_ic, put_ic)
        BY <1>2 DEF Operating, ob
      <4> QED
        BY <1>1, <1>7, <4>1, SlotThere
    <3> QED
      BY <3>1 DEF FunctionFits
  <2>2. x = Cell(s, x.extensible, x.construct_struct, x.slots)
    BY <1>2, OperatingFacts
  <2> HIDE DEF x, i, b, E, h, s
  <2>3. Closing(x, i, b) = Cell(i, b, x.construct_struct, x.slots)
    BY <2>2, CellClosed
  <2>4. z.construct_struct = Kept(x.construct_struct, o, Prototype)
    BY <2>1, <2>3, CellKeeps
  <2> HIDE DEF z
  <2>5. object'[f].construct_struct = None
    BY <1>1, <1>4, <1>7, <2>4 DEF With, Kept, ResetsConstructMap
  <2> QED
    BY <2>5 DEF Stale
<1> QED
  BY <1>6, <1>7

LEMMA NextCurrent ==
    ASSUME Inv, Next, NEW f \in Constructors, ~Stale(f), Stale(f)'
    PROVE  \E v \in Values : PutCached(f, Prototype, v)
<1> SUFFICES ASSUME \A v \in Values : ~PutCached(f, Prototype, v) PROVE FALSE
  OBVIOUS
<1>1. \A o \in Objects, n \in Names, v \in Values : ~PutCached(o, n, v)
  <2> SUFFICES ASSUME NEW o \in Objects, NEW n \in Names, NEW v \in Values, PutCached(o, n, v)
               PROVE  FALSE
    OBVIOUS
  <2>1. f # o \/ n # Prototype
    OBVIOUS
  <2> QED
    BY <2>1, PutCachedCurrent
<1>2. \A o \in Objects, n \in Names, v \in Values : ~PutSlow(o, n, v, TRUE) /\ ~PutSlow(o, n, v, FALSE)
  <2>1. \A o \in Objects, n \in Names, v \in Values, b \in BOOLEAN : ~PutSlow(o, n, v, b)
    BY PutSlowCurrent
  <2>2. TRUE \in BOOLEAN /\ FALSE \in BOOLEAN
    OBVIOUS
  <2> QED
    BY ONLY <2>1, <2>2, Zenon
<1>3. \A o \in Objects, n \in Names :
        /\ ~Delete(o, n) /\ ~GetById(o, n)
        /\ \A d \in Descriptors : ~DefineOwn(o, n, d)
  BY DeleteCurrent, ReadsCurrent, DefineOwnCurrent
<1>4. \A o \in Objects : /\ ~NewObject(o) /\ ~PreventExtensions(o)
                         /\ \A fs : ~SetIntegrity(o, fs)
  BY CreatedCurrent, PreventExtensionsCurrent, SetIntegrityCurrent
<1>5. \A o, p \in Objects : ~ObjectCreate(o, p) /\ ~NewFunction(o, p) /\ ~Construct(o, p)
  BY CreatedCurrent, FunctionCurrent, ConstructCurrent
<1>6. ~Collect
  BY CollectCurrent
<1> QED
  BY <1>1, <1>2, <1>3, <1>4, <1>5, <1>6, Zenon DEF Next

\* Only a put that hits its cache leaves a function with what it remembered for
\* another prototype: definitions, other puts, deletions, integrity levels,
\* constructions and collections never do, for any objects, names, values,
\* descriptors, access sites and number of structures.
THEOREM ConstructMapCurrentHolds == Spec => ConstructMapCurrent
<1>1. Inv /\ [Next]_vars =>
        [\A f \in Constructors :
            Stale(f)' => Stale(f) \/ \E v \in Values : PutCached(f, Prototype, v)]_vars
  BY NextCurrent
<1> QED
  BY <1>1, SoundAlways, PTL DEF Spec, ConstructMapCurrent

-----------------------------------------------------------------------------
(* Structures implements Objects.                                            *)

LEMMA SeenIs ==
    /\ Seen = SeenNow
    /\ Seen' = SeenNow'
<1>1. Seen = SeenNow
  BY Zenon DEF Seen, SeenNow, SeenIn, Exists, ExistsIn, View, Viewed, EntriesOf, heap
<1>2. Seen' = SeenNow'
  BY Zenon DEF Seen, SeenNow, SeenIn, Exists, ExistsIn, View, Viewed, EntriesOf, heap
<1> QED
  BY <1>1, <1>2

\* Descriptors mean the same to both.
LEMMA SameVerdict ==
    ASSUME NEW s, NEW d
    PROVE  Abstract!Verdict(s, d) = Verdict(s, d)
BY DEF Verdict, NoEffect, Rejected, Kind, Agrees, DataFields, AccessorFields,
       Abstract!Verdict, Abstract!NoEffect, Abstract!Rejected, Abstract!Kind, Abstract!Agrees,
       Abstract!DataFields, Abstract!AccessorFields

LEMMA SameMerge ==
    ASSUME NEW s, NEW d
    PROVE  Abstract!Merge(s, d) = Merge(s, d)
BY Zenon DEF Merge, Replaced, Kind, Flags, DataFields, AccessorFields,
       Abstract!Merge, Abstract!Replaced, Abstract!Kind, Abstract!Flags,
       Abstract!DataFields, Abstract!AccessorFields

LEMMA SameNewSlot ==
    ASSUME NEW d
    PROVE  Abstract!NewSlot(d) = NewSlot(d)
BY Zenon DEF NewSlot, Kind, DataFields, AccessorFields,
       Abstract!NewSlot, Abstract!Kind, Abstract!DataFields, Abstract!AccessorFields

LEMMA SameDefined ==
    ASSUME NEW x, NEW n, NEW d
    PROVE  Abstract!Defined(x, n, d) = DefinedAs(x, n, d)
<1>1. Abstract!Applied(x.props[n], d) = Assigned(x.props[n], d)
  BY SameVerdict, SameMerge DEF Abstract!Applied, Assigned
<1>2. Abstract!NewSlot(d) = NewSlot(d)
  BY SameNewSlot
<1>3. Abstract!Defined(x, n, d) =
        IF n \in DOMAIN x.props THEN [x EXCEPT !.props[n] = Abstract!Applied(x.props[n], d)]
        ELSE IF x.extensible THEN [x EXCEPT !.props = Bind(@, n, Abstract!NewSlot(d))] ELSE x
  BY Zenon DEF Abstract!Defined, Abstract!Bind, Bind
<1> QED
  BY <1>1, <1>2, <1>3, Zenon DEF DefinedAs, Rebound, Extended, Assigned

LEMMA SameEmpty ==
    ASSUME NEW p
    PROVE  Abstract!Empty(p) = Bare(p)
BY Zenon DEF Abstract!Empty, Bare

\* Every object is to a program what it is to the model of its view.
LEMMA SeenFacts ==
    ASSUME Inv, NEW o \in Objects
    PROVE  /\ Abstract!Exists(o) <=> Exists(o)
           /\ Exists(o) => /\ Seen[o] = View(heap, object[o])
                           /\ Seen[o].props \in [DOMAIN Seen[o].props -> StoredSlot]
<1> DEFINE ob == object
           h == heap
           s == ob[o].structure
           E == Entries(h, s)
           V == View(h, ob[o])
<1>1. Sound(h, ob, get_ic, put_ic) /\ (Exists(o) <=> ExistsIn(ob, o))
  BY DEF Inv, Exists, ExistsIn
<1>2. Seen[o] = IF ExistsIn(ob, o) THEN V ELSE NoObject
  BY SeenIs DEF SeenNow, SeenIn
<1> HIDE DEF ob, h
<1>3. ASSUME ExistsIn(ob, o) PROVE V # NoObject /\ V.props \in [DOMAIN V.props -> StoredSlot]
  <2>1. /\ E \in Maps /\ ob[o].extensible \in BOOLEAN
        /\ h.st[s].proto \in Objects \cup {NoObject}
        /\ SlotsFit(E, Cardinality(DOMAIN E) + Len(h.st[s].deleted), ob[o].slots)
    BY <1>1, <1>3, SlotThere
  <2>2. DOMAIN E \in SUBSET Names
    BY <2>1, MapsFacts
  <2> DEFINE P == [n \in DOMAIN E |-> InSlot(E[n], ob[o].slots)]
  <2>3. P \in [DOMAIN E -> StoredSlot] /\ DOMAIN P = DOMAIN E
    BY <2>1 DEF SlotsFit
  <2>4. V = [proto |-> h.st[s].proto, extensible |-> ob[o].extensible, props |-> P]
    BY DEF View, Viewed
  <2> DEFINE R == UNION {[N -> StoredSlot] : N \in SUBSET Names}
  <2>5. P \in R
    BY <2>2, <2>3
  <2> HIDE DEF P, R, V, E
  <2>6. V \in [proto : Objects \cup {NoObject}, extensible : BOOLEAN, props : R] /\ V.props = P
    BY <2>1, <2>4, <2>5
  <2>7. V # NoObject
    BY <2>6, MarksAssumption DEF R
  <2> QED
    BY <2>3, <2>6, <2>7
<1> HIDE DEF V
<1>4. Abstract!Exists(o) <=> Seen[o] # NoObject
  BY DEF Abstract!Exists
<1> QED
  BY <1>1, <1>2, <1>3, <1>4 DEF V, h, ob

\* The properties and the prototype that a program sees are those in any heap
\* that looking properties up makes.
LEMMA SeenLookups ==
    ASSUME Inv, NEW h, SeenIn(h, object) = SeenNow, NEW q \in Objects, Exists(q)
    PROVE  /\ \A n : n \in DOMAIN Seen[q].props <=> HasOwn(h, q, n)
           /\ \A n : HasOwn(h, q, n) => Seen[q].props[n] = Slot(h, q, n)
           /\ Seen[q].proto = h.st[object[q].structure].proto
           /\ Seen[q].extensible = object[q].extensible
<1>1. SeenIn(h, object)[q] = View(h, object[q])
  BY DEF SeenIn, Exists, ExistsIn
<1>2. Seen[q] = View(h, object[q])
  BY <1>1, SeenIs
<1> QED
  BY <1>2 DEF View, Viewed, HasOwn, Slot, EntriesOf

\* A program finds a property where the engine finds it.
LEMMA SameHolder ==
    ASSUME Inv, NEW h, ObjectsSound(h, object), SeenIn(h, object) = SeenNow, NEW n, NEW o \in Objects
    PROVE  Abstract!Holder(o, n) = Holder(h, o, n)
<1> DEFINE Body(f) == [q \in Objects |->
                IF ~Abstract!Exists(q) THEN NoObject
                ELSE IF n \in DOMAIN Seen[q].props THEN q
                ELSE IF Seen[q].proto = NoObject THEN NoObject ELSE f[Seen[q].proto]]
           F == CHOOSE g : g = Body(g)
<1>1. \A f : Body(f) = HolderBody(h, n, f)
  <2> SUFFICES ASSUME NEW f PROVE Body(f) = HolderBody(h, n, f)
    OBVIOUS
  <2> DEFINE a(q) == IF ~Abstract!Exists(q) THEN NoObject
                     ELSE IF n \in DOMAIN Seen[q].props THEN q
                     ELSE IF Seen[q].proto = NoObject THEN NoObject ELSE f[Seen[q].proto]
             b(q) == IF ~Exists(q) THEN NoObject
                     ELSE IF HasOwn(h, q, n) THEN q
                     ELSE LET p == h.st[object[q].structure].proto IN
                          IF p = NoObject THEN NoObject ELSE f[p]
  <2>1. ASSUME NEW q \in Objects PROVE a(q) = b(q)
    <3>1. Abstract!Exists(q) <=> Exists(q)
      BY SeenFacts
    <3>2. Exists(q) => /\ n \in DOMAIN Seen[q].props <=> HasOwn(h, q, n)
                       /\ Seen[q].proto = h.st[object[q].structure].proto
      BY SeenLookups
    <3> QED
      BY <3>1, <3>2
  <2>2. Body(f) = [q \in Objects |-> a(q)] /\ HolderBody(h, n, f) = [q \in Objects |-> b(q)]
    BY DEF HolderBody
  <2> HIDE DEF a, b
  <2> QED
    BY <2>1, <2>2
<1>2. Abstract!Holder(o, n) = F[o]
  BY Zenon DEF Abstract!Holder
<1> HIDE DEF Body
<1>3. PICK f : f = HolderBody(h, n, f) /\ \A q \in Objects : Holder(h, q, n) = f[q]
  BY HolderIs
<1>4. F = Body(F)
  <2>1. f = Body(f)
    BY <1>1, <1>3
  <2> QED
    BY <2>1
<1>5. F = HolderBody(h, n, F)
  BY <1>1, <1>4
<1> HIDE DEF F
<1>6. F[o] = f[o]
  BY <1>3, <1>5, HolderUnique
<1> QED
  BY <1>2, <1>3, <1>6

LEMMA ImplementsNewObject ==
    ASSUME Inv, NEW o \in Objects, NewObject(o)
    PROVE  Abstract!NewObject(o)
<1>1. o \notin Constructors /\ ~Exists(o)
  BY DEF NewObject
<1>2. Seen' = [Seen EXCEPT ![o] = Bare(NoObject)]
  BY NewObjectStep, SeenIs DEF CreatedAs, With
<1> QED
  BY <1>1, <1>2, SeenFacts, SameEmpty DEF Abstract!NewObject, Abstract!Create

LEMMA ImplementsObjectCreate ==
    ASSUME Inv, NEW o \in Objects, NEW p \in Objects, ObjectCreate(o, p)
    PROVE  Abstract!ObjectCreate(o, p)
<1>1. o \notin Constructors /\ ~Exists(o) /\ Exists(p)
  BY DEF ObjectCreate
<1>2. Seen' = [Seen EXCEPT ![o] = Bare(p)]
  BY ObjectCreateStep, SeenIs DEF CreatedAs, With
<1> QED
  BY <1>1, <1>2, SeenFacts, SameEmpty DEF Abstract!ObjectCreate, Abstract!Create

\* A new function, as a definition of its prototype property makes it.
LEMMA FunctionDefined ==
    ASSUME NEW p
    PROVE  Abstract!Defined(Abstract!Empty(NoObject), Prototype,
                            Abstract!DataDescriptor(p, {"W"}))
             = Extended(Bare(NoObject), Prototype, Protoed(p))
<1> DEFINE d == Abstract!DataDescriptor(p, {"W"})
<1>1. NewSlot(d) = Protoed(p)
  <2>1. d.has = {"value", "W", "E", "C"} /\ d.on = {"W"} /\ d.value = p
    BY DEF Abstract!DataDescriptor
  <2> HIDE DEF d
  <2>2. Kind(d) = "data"
    BY <2>1 DEF Kind, DataFields
  <2> QED
    BY <2>1, <2>2 DEF NewSlot, Protoed
<1> HIDE DEF d
<1>2. DOMAIN Bare(NoObject).props = {} /\ Bare(NoObject).extensible = TRUE
  BY DEF Bare
<1>3. DefinedAs(Bare(NoObject), Prototype, d) = Extended(Bare(NoObject), Prototype, NewSlot(d))
  BY <1>2 DEF DefinedAs
<1>4. Abstract!Defined(Bare(NoObject), Prototype, d) = DefinedAs(Bare(NoObject), Prototype, d)
  BY SameDefined
<1> QED
  BY <1>1, <1>3, <1>4, SameEmpty DEF d

LEMMA ImplementsNewFunction ==
    ASSUME Inv, NEW f \in Objects, NEW p \in Objects, NewFunction(f, p)
    PROVE  Abstract!NewFunction(f, p)
<1> DEFINE x == Bare(NoObject)
           y == Extended(Bare(NoObject), Prototype, Protoed(p))
<1>1. f \in Constructors /\ ~Exists(f) /\ p \notin Constructors /\ ~Exists(p)
  BY DEF NewFunction
<1>2. Seen' = With(With(Seen, p, x), f, y)
  BY NewFunctionStep, SeenIs
<1>3. Abstract!Empty(NoObject) = x
      /\ Abstract!Defined(Abstract!Empty(NoObject), Prototype, Abstract!DataDescriptor(p, {"W"})) = y
  BY SameEmpty, FunctionDefined
<1>4. ~Abstract!Exists(f) /\ ~Abstract!Exists(p)
  BY <1>1, SeenFacts
<1> HIDE DEF x, y
<1>5. Seen' = [Seen EXCEPT ![p] = x, ![f] = y]
  BY <1>2 DEF With
<1> QED
  BY <1>1, <1>3, <1>4, <1>5 DEF Abstract!NewFunction

LEMMA ImplementsConstruct ==
    ASSUME Inv, NEW o \in Objects, NEW f \in Objects, Construct(o, f)
    PROVE  /\ Abstract!NewObject(o) \/ \E p \in Objects : Abstract!ObjectCreate(o, p)
           /\ ~Stale(f) => Abstract!Construct(o, f)
<1>1. f \in Constructors /\ Exists(f) /\ o \notin Constructors /\ ~Exists(o)
  BY DEF Construct
<1> DEFINE v == Seen[f].props[Prototype].value
<1>2. PICK q \in Objects \cup {NoObject} :
        /\ Seen' = [Seen EXCEPT ![o] = Bare(q)] /\ (q # NoObject => Exists(q))
        /\ ~Stale(f) => q = InstanceProto(v)
  BY ConstructStep, SeenIs DEF CreatedAs, With, Exists, ExistsIn
<1>3. Abstract!Empty(q) = Bare(q)
  BY SameEmpty
<1>4. ~Abstract!Exists(o) /\ Abstract!Exists(f) /\ (q # NoObject => Abstract!Exists(q))
  BY <1>1, <1>2, SeenFacts
<1>5. q = NoObject => Abstract!NewObject(o)
  BY <1>1, <1>2, <1>3, <1>4 DEF Abstract!NewObject, Abstract!Create
<1>6. q # NoObject => q \in Objects /\ Abstract!ObjectCreate(o, q)
  BY <1>1, <1>2, <1>3, <1>4 DEF Abstract!ObjectCreate, Abstract!Create
<1>7. ~Stale(f) => Abstract!Construct(o, f)
  BY <1>1, <1>2, <1>3, <1>4 DEF Abstract!Construct, Abstract!Create, InstanceProto
<1> QED
  BY <1>2, <1>5, <1>6, <1>7

LEMMA ImplementsDefineOwn ==
    ASSUME Inv, NEW o \in Objects, NEW n \in Names, NEW d \in Descriptors, DefineOwn(o, n, d)
    PROVE  Abstract!DefineOwn(o, n, d)
<1>1. Exists(o) /\ Available(d.value)
  BY DEF DefineOwn
<1>2. Seen' = [Seen EXCEPT ![o] = DefinedAs(Seen[o], n, d)]
  BY DefineOwnStep, SeenIs DEF With
<1>3. Abstract!Defined(Seen[o], n, d) = DefinedAs(Seen[o], n, d)
  BY SameDefined
<1>4. Abstract!Exists(o) /\ Abstract!Available(d.value)
  BY <1>1, SeenFacts DEF Available, Abstract!Available
<1> QED
  BY <1>2, <1>3, <1>4 DEF Abstract!DefineOwn

LEMMA ImplementsDelete ==
    ASSUME Inv, NEW o \in Objects, NEW n \in Names, Delete(o, n)
    PROVE  Abstract!Delete(o, n)
<1>1. Abstract!Exists(o)
  BY SeenFacts DEF Delete
<1>2. n \in DOMAIN Seen[o].props /\ "C" \in Seen[o].props[n].on
      /\ Seen' = [Seen EXCEPT ![o] = Removed(Seen[o], n)]
  BY DeleteStep, SeenIs DEF With
<1>3. [Seen EXCEPT ![o] = Removed(Seen[o], n)]
        = [Seen EXCEPT ![o].props = [m \in DOMAIN @ \ {n} |-> @[m]]]
  BY Zenon DEF Removed
<1> QED
  BY <1>1, <1>2, <1>3 DEF Abstract!Delete

\* Nothing changes in properties that lose no flags.
LEMMA UnsetNothing ==
    ASSUME NEW m, m \in [DOMAIN m -> StoredSlot]
    PROVE  Unset(m, {}) = m
<1>1. ASSUME NEW s \in StoredSlot PROVE [s EXCEPT !.on = @ \ {}] = s
  BY DEF StoredSlot
<1>2. Unset(m, {}) = [n \in DOMAIN m |-> m[n]]
  BY <1>1 DEF Unset
<1> HIDE DEF Unset
<1> QED
  BY <1>2

LEMMA ImplementsPreventExtensions ==
    ASSUME Inv, NEW o \in Objects, PreventExtensions(o)
    PROVE  Abstract!PreventExtensions(o)
<1> DEFINE x == Seen[o]
           b == FALSE
           fs == {}
           y == [x EXCEPT !.extensible = b, !.props = x.props]
<1>1. Exists(o)
  BY DEF PreventExtensions
<1>2. Seen' = [Seen EXCEPT ![o] = Locked(x, b, fs)]
  BY PreventExtensionsStep, SeenIs DEF With
<1>3. x.props \in [DOMAIN x.props -> StoredSlot] /\ x = View(heap, object[o])
  BY <1>1, SeenFacts
<1>4. Unset(x.props, fs) = x.props
  BY <1>3, UnsetNothing
<1> HIDE DEF b, fs
<1>5. Locked(x, b, fs) = y
  <2>1. Locked(x, b, fs) = [x EXCEPT !.extensible = b, !.props = Unset(x.props, fs)]
    <3>1. x = [proto |-> x.proto, extensible |-> x.extensible, props |-> x.props]
      BY <1>3 DEF View, Viewed
    <3> HIDE DEF x
    <3>2. [x EXCEPT !.extensible = b].props = x.props
      BY <3>1
    <3> QED
      BY <3>1, <3>2 DEF Locked
  <2> QED
    BY <1>4, <2>1
<1>6. y = [x EXCEPT !.extensible = b]
  <2>1. x = [proto |-> x.proto, extensible |-> x.extensible, props |-> x.props]
    BY <1>3 DEF View, Viewed
  <2> HIDE DEF x
  <2> QED
    BY <2>1
<1>7. Seen' = [Seen EXCEPT ![o] = [x EXCEPT !.extensible = b]]
  BY <1>2, <1>5, <1>6
<1>8. Seen' = [Seen EXCEPT ![o].extensible = b]
  <2> QED
    BY <1>7, Zenon
<1>9. Abstract!Exists(o)
  BY <1>1, SeenFacts
<1> QED
  BY <1>8, <1>9 DEF Abstract!PreventExtensions, b

\* The objects f with o not extensible and without the flags fs.
Secured(f, o, b, fs) == [f EXCEPT ![o].extensible = b, ![o].props = Unset(@, fs)]

LEMMA SecuredLocked ==
    ASSUME NEW f, NEW o, NEW b, NEW fs
    PROVE  Secured(f, o, b, fs) = With(f, o, Locked(f[o], b, fs))
<1> DEFINE y == [f[o] EXCEPT !.extensible = b]
           q == [f EXCEPT ![o] = y]
           a == [y EXCEPT !.props = Unset(@, fs)]
<1>1. [f EXCEPT ![o].extensible = b] = q
  BY Zenon
<1>2. [q EXCEPT ![o].props = Unset(@, fs)] = [f EXCEPT ![o] = a]
  <2>1. [q EXCEPT ![o].props = Unset(@, fs)] = [q EXCEPT ![o] = [q[o] EXCEPT !.props = Unset(@, fs)]]
    BY Zenon
  <2>2. o \in DOMAIN f => q[o] = y
    <3> HIDE DEF y
    <3> QED
      OBVIOUS
  <2>3. o \in DOMAIN f => [q[o] EXCEPT !.props = Unset(@, fs)] = a
    BY <2>2, Zenon
  <2> DEFINE c == [q[o] EXCEPT !.props = Unset(@, fs)]
  <2> HIDE DEF y, a, c
  <2>4. [q EXCEPT ![o] = c] = [f EXCEPT ![o] = c]
    OBVIOUS
  <2>5. [f EXCEPT ![o] = c] = [f EXCEPT ![o] = a]
    BY <2>3 DEF c
  <2> QED
    BY <2>1, <2>4, <2>5 DEF c
<1> QED
  BY <1>1, <1>2, Zenon DEF Secured, With, Locked

LEMMA ImplementsSetIntegrity ==
    ASSUME Inv, NEW o \in Objects, NEW fs, SetIntegrity(o, fs)
    PROVE  Abstract!SetIntegrity(o, fs)
<1> DEFINE b == FALSE
<1>1. Exists(o)
  BY DEF SetIntegrity
<1>2. Seen' = With(Seen, o, Locked(Seen[o], b, fs))
  BY SetIntegrityStep, SeenIs
<1> HIDE DEF b
<1>3. Seen' = Secured(Seen, o, b, fs)
  BY <1>2, SecuredLocked
<1>4. \A m : Abstract!Unset(m, fs) = Unset(m, fs)
  BY Zenon DEF Abstract!Unset, Unset
<1>5. Abstract!Exists(o)
  BY <1>1, SeenFacts
<1> QED
  BY <1>3, <1>4, <1>5, Zenon DEF Abstract!SetIntegrity, Secured, b, Abstract!Unset, Unset

\* An assignment is allowed by the program's view when the engine allows it.
LEMMA SameCanPut ==
    ASSUME Inv, NEW h, Sound(h, object, get_ic, put_ic), SeenIn(h, object) = SeenNow,
           NEW o \in Objects, Exists(o), NEW n, CanPut(h, o, n)
    PROVE  Abstract!CanPut(o, n) /\ ~Abstract!FindsAccessor(o, n)
<1> DEFINE q == Holder(h, o, n)
<1>1. ObjectsSound(h, object)
  BY DEF Sound
<1>2. Abstract!Holder(o, n) = q
  BY <1>1, SameHolder
<1>3. q # NoObject => q \in Objects /\ Exists(q) /\ HasOwn(h, q, n)
  BY <1>1, HolderFacts
<1>4. CASE q = NoObject
  BY <1>2, <1>4, SeenLookups DEF CanPut, Abstract!CanPut, Abstract!FindsAccessor
<1>5. CASE q # NoObject
  <2>1. Slot(h, q, n).kind = "data" /\ "W" \in Slot(h, q, n).on
    BY <1>5 DEF CanPut
  <2> HIDE DEF q
  <2>2. Seen[q].props[n] = Slot(h, q, n)
    BY <1>3, <1>5, SeenLookups
  <2> QED
    BY <1>2, <1>5, <2>1, <2>2 DEF Abstract!CanPut, Abstract!FindsAccessor
<1> QED
  BY <1>4, <1>5

LEMMA SamePutDescriptor ==
    ASSUME NEW o, NEW n, NEW v
    PROVE  Abstract!PutDescriptor(o, n, v) = Assigning(o, n, v)
<1>1. Seen = SeenNow
  BY SeenIs
<1> QED
  BY <1>1, Zenon DEF Abstract!PutDescriptor, Assigning, Abstract!ValueDescriptor, ValueDescriptor,
        Abstract!DataDescriptor, DataDescriptor, Abstract!Flags, Flags

\* What an assignment does for the program.
LEMMA PutImplemented ==
    ASSUME Inv, NEW h, Sound(h, object, get_ic, put_ic), SeenIn(h, object) = SeenNow,
           NEW o \in Objects, Exists(o), NEW n, NEW v, Available(v), CanPut(h, o, n),
           SeenNow' = With(SeenNow, o, DefinedAs(SeenNow[o], n, Assigning(o, n, v)))
    PROVE  Abstract!Put(o, n, v)
<1>1. Abstract!CanPut(o, n) /\ ~Abstract!FindsAccessor(o, n)
  BY SameCanPut
<1>2. Abstract!Exists(o) /\ Abstract!Available(v)
  BY SeenFacts DEF Available, Abstract!Available
<1>3. Seen' = [Seen EXCEPT ![o] = DefinedAs(Seen[o], n, Assigning(o, n, v))]
  BY SeenIs DEF With
<1>4. Abstract!Defined(Seen[o], n, Abstract!PutDescriptor(o, n, v))
        = DefinedAs(Seen[o], n, Assigning(o, n, v))
  BY SameDefined, SamePutDescriptor
<1> QED
  BY <1>1, <1>2, <1>3, <1>4 DEF Abstract!Put

LEMMA ImplementsPutCached ==
    ASSUME Inv, NEW o \in Objects, NEW n \in Names, NEW v \in Values, PutCached(o, n, v)
    PROVE  Abstract!Put(o, n, v)
<1>1. Exists(o) /\ Available(v)
  BY DEF PutCached
<1>2. Puts(o, n, v)
  BY PutCachedStep
<1>3. Sound(heap, object, get_ic, put_ic) /\ ObjectsSound(heap, object)
      /\ SeenIn(heap, object) = SeenNow
  BY DEF Inv, Sound, SeenNow
<1>4. HasOwn(heap, o, n) /\ Slot(heap, o, n) = SeenNow[o].props[n]
  BY <1>1, <1>2, <1>3, SeenLookups, SeenIs DEF Puts
<1>5. CanPut(heap, o, n)
  <2>1. Holder(heap, o, n) = o /\ o # NoObject
    BY <1>1, <1>3, <1>4, HolderOwn, StructuresAssumption
  <2> QED
    BY <1>2, <1>4, <2>1 DEF CanPut, Puts
<1>6. SeenNow' = With(SeenNow, o, DefinedAs(SeenNow[o], n, Assigning(o, n, v)))
  BY <1>2 DEF Puts, Assigning
<1> QED
  BY <1>1, <1>3, <1>5, <1>6, PutImplemented

LEMMA ImplementsPutSlow ==
    ASSUME Inv, NEW o \in Objects, NEW n \in Names, NEW v \in Values, NEW site \in BOOLEAN,
           PutSlow(o, n, v, site)
    PROVE  Seen' = Seen \/ Abstract!Put(o, n, v)
<1> DEFINE h == LookedUp(o, n)
<1>1. Exists(o) /\ Available(v)
  BY DEF PutSlow
<1>2. Sound(h, object, get_ic, put_ic) /\ SeenIn(h, object) = SeenNow
  BY LookedUpStays DEF Inv, SeenNow
<1>3. \/ SeenNow' = SeenNow
      \/ /\ CanPut(h, o, n)
         /\ SeenNow' = With(SeenNow, o, DefinedAs(SeenNow[o], n, Assigning(o, n, v)))
  BY PutSlowStep
<1> HIDE DEF h
<1> QED
  BY <1>1, <1>2, <1>3, PutImplemented, SeenIs

LEMMA NextImplements ==
    ASSUME Inv, Next
    PROVE  Seen' = Seen \/ Abstract!Next
<1>1. ASSUME NEW o \in Objects, NEW n \in Names, NEW v \in Values,
             PutCached(o, n, v) \/ PutSlow(o, n, v, TRUE) \/ PutSlow(o, n, v, FALSE)
      PROVE  Seen' = Seen \/ Abstract!Put(o, n, v)
  <2>1. CASE PutCached(o, n, v)
    BY <2>1, ImplementsPutCached
  <2>2. CASE PutSlow(o, n, v, TRUE)
    <3> DEFINE b == TRUE
    <3>1. b \in BOOLEAN /\ PutSlow(o, n, v, b)
      BY <2>2
    <3> HIDE DEF b
    <3> QED
      BY <3>1, ImplementsPutSlow
  <2>3. CASE PutSlow(o, n, v, FALSE)
    <3> DEFINE b == FALSE
    <3>1. b \in BOOLEAN /\ PutSlow(o, n, v, b)
      BY <2>3
    <3> HIDE DEF b
    <3> QED
      BY <3>1, ImplementsPutSlow
  <2> QED
    BY <1>1, <2>1, <2>2, <2>3
<1>2. ASSUME NEW o \in Objects, NewObject(o)
      PROVE  Abstract!NewObject(o)
  BY <1>2, ImplementsNewObject
<1>3. ASSUME NEW o \in Objects, NEW p \in Objects,
             ObjectCreate(o, p) \/ NewFunction(o, p) \/ Construct(o, p)
      PROVE  \/ Abstract!NewObject(o) \/ (\E q \in Objects : Abstract!ObjectCreate(o, q))
             \/ Abstract!NewFunction(o, p)
  BY <1>3, ImplementsObjectCreate, ImplementsNewFunction, ImplementsConstruct
<1>4. ASSUME NEW o \in Objects, NEW n \in Names, NEW d \in Descriptors, DefineOwn(o, n, d)
      PROVE  Abstract!DefineOwn(o, n, d)
  BY <1>4, ImplementsDefineOwn
<1>5. ASSUME NEW o \in Objects, NEW n \in Names, Delete(o, n)
      PROVE  Abstract!Delete(o, n)
  BY <1>5, ImplementsDelete
<1>6. ASSUME NEW o \in Objects, NEW n \in Names, GetById(o, n)
      PROVE  Seen' = Seen
  BY <1>6, GetByIdStep, SeenIs
<1>7. ASSUME NEW o \in Objects, PreventExtensions(o)
      PROVE  Abstract!PreventExtensions(o)
  BY <1>7, ImplementsPreventExtensions
<1>8. ASSUME NEW o \in Objects, NEW fs, SetIntegrity(o, fs)
      PROVE  Abstract!SetIntegrity(o, fs)
  BY <1>8, ImplementsSetIntegrity
<1>9. Collect => Seen' = Seen
  BY CollectStep, SeenIs
<1>10. Abstract!Seal = {"C"} /\ Abstract!Freeze = {"W", "C"}
  BY DEF Abstract!Seal, Abstract!Freeze
<1> SUFFICES ASSUME ~Collect, Seen' # Seen PROVE Abstract!Next
  BY <1>9
<1>11. CASE \E o \in Objects : NewObject(o)
  BY <1>2, <1>11 DEF Abstract!Next
<1>12. CASE \E o, p \in Objects : ObjectCreate(o, p) \/ NewFunction(o, p) \/ Construct(o, p)
  BY <1>3, <1>12 DEF Abstract!Next
<1>13. CASE \E o \in Objects, n \in Names :
               \/ \E d \in Descriptors : DefineOwn(o, n, d)
               \/ Delete(o, n)
               \/ GetById(o, n)
               \/ \E v \in Values : PutCached(o, n, v) \/ PutSlow(o, n, v, TRUE)
                                                       \/ PutSlow(o, n, v, FALSE)
  BY <1>1, <1>4, <1>5, <1>6, <1>13 DEF Abstract!Next
<1>14. CASE \E o \in Objects :
               PreventExtensions(o) \/ SetIntegrity(o, {"C"}) \/ SetIntegrity(o, {"W", "C"})
  BY <1>7, <1>8, <1>10, <1>14 DEF Abstract!Next
<1> QED
  BY <1>11, <1>12, <1>13, <1>14 DEF Next

\* Structures, slots, transitions, tables, collections and both caches together
\* are invisible: every step is a step of Objects or none, and an instance gets
\* the prototype that its function has, unless the function is stale, for any
\* objects, names, values, descriptors, access sites and number of structures.
THEOREM ImplementsObjectsHolds == Spec => ImplementsObjects
<1>1. Init => Abstract!Init
  BY InitStep, SeenIs DEF Abstract!Init
<1>2. Inv /\ [Next]_vars => [UNCHANGED Seen \/ Abstract!Next]_vars
  BY NextImplements
<1>3. Spec => [][UNCHANGED Seen \/ Abstract!Next]_vars
  BY <1>2, SoundAlways, PTL DEF Spec
<1>4. Inv => \A o, f \in Objects : Construct(o, f) => Abstract!Construct(o, f) \/ Stale(f)
  BY ImplementsConstruct
<1>5. Spec => [][\A o, f \in Objects : Construct(o, f) => Abstract!Construct(o, f) \/ Stale(f)]_vars
  BY <1>4, SoundAlways, PTL DEF Spec
<1> QED
  BY <1>1, <1>3, <1>5, PTL DEF Spec, ImplementsObjects
=============================================================================
