--------------------------- MODULE Collector_proofs ---------------------------
(***************************************************************************)
(* Proofs about Collector, for any cells.  The weak references are right   *)
(* for NativeSpec too; that nothing dangles is proved for Spec only, until *)
(* a leftover cell is handed out: a snapshot leaves marks behind, and a    *)
(* later collection keeps a marked object but frees its children.          *)
(***************************************************************************)
EXTENDS Collector, FiniteSetTheorems, TLAPS

-----------------------------------------------------------------------------
\* Reach holds its roots, is closed, and is the least such set.
LEMMA ReachFacts ==
    ASSUME NEW rs \in SUBSET Cells, NEW e \in [Cells -> SUBSET Cells]
    PROVE  /\ Reach(rs, e) \subseteq Cells
           /\ rs \subseteq Reach(rs, e)
           /\ Closed(Reach(rs, e), e)
           /\ \A S \in SUBSET Cells : rs \subseteq S /\ Closed(S, e) => Reach(rs, e) \subseteq S
<1>1. Reach(rs, e) \subseteq Cells /\ rs \subseteq Reach(rs, e)
  BY DEF Reach
<1>2. Closed(Reach(rs, e), e)
  <2> SUFFICES ASSUME NEW c \in Reach(rs, e), NEW d \in e[c]
               PROVE  d \in Reach(rs, e)
    BY DEF Closed
  <2>1. c \in Cells /\ d \in Cells
    BY <1>1
  <2>2. ASSUME NEW S \in SUBSET Cells, rs \subseteq S, Closed(S, e)
        PROVE  d \in S
    <3>1. c \in S
      BY <2>2 DEF Reach
    <3> QED
      BY <2>2, <3>1 DEF Closed
  <2> QED
    BY <2>1, <2>2 DEF Reach
<1>3. \A S \in SUBSET Cells : rs \subseteq S /\ Closed(S, e) => Reach(rs, e) \subseteq S
  BY DEF Reach
<1> QED
  BY <1>1, <1>2, <1>3

\* What a mark phase visits is live, holds the live roots, and is closed under
\* the references to live cells.
LEMMA VisitedFacts ==
    ASSUME TypeOK, NEW rs \in SUBSET Cells
    PROVE  /\ Visited(rs) \subseteq live
           /\ rs \cap live \subseteq Visited(rs)
           /\ \A c \in Visited(rs) : edges[c] \cap live \subseteq Visited(rs)
<1> DEFINE e == [c \in Cells |-> edges[c] \cap live]
<1>1. e \in [Cells -> SUBSET Cells] /\ rs \cap live \in SUBSET Cells /\ live \in SUBSET Cells
  BY DEF TypeOK
<1>2. Visited(rs) = Reach(rs \cap live, e)
  BY DEF Visited
<1>3. Closed(live, e)
  BY <1>1 DEF Closed
<1>4. Visited(rs) \subseteq live /\ rs \cap live \subseteq Visited(rs)
  <2> HIDE DEF e
  <2>1. \A S \in SUBSET Cells :
            rs \cap live \subseteq S /\ Closed(S, e) => Reach(rs \cap live, e) \subseteq S
    BY <1>1, ReachFacts
  <2>2. rs \cap live \subseteq Reach(rs \cap live, e)
    BY <1>1, ReachFacts
  <2> QED
    BY <1>1, <1>2, <1>3, <2>1, <2>2
<1>5. Closed(Visited(rs), e)
  BY <1>1, <1>2, ReachFacts
<1>6. \A c \in Visited(rs) : edges[c] \cap live \subseteq Visited(rs)
  BY <1>1, <1>4, <1>5 DEF Closed
<1> QED
  BY <1>4, <1>6

-----------------------------------------------------------------------------
LEMMA InitTypes == Init => TypeOK
<1> SUFFICES ASSUME Init PROVE TypeOK
  OBVIOUS
<1>1. /\ edges \in [Cells -> SUBSET Cells]
      /\ target \in [Cells -> Small \cup {None}]
  BY DEF Init
<1>2. defers \in 0..MaxDefers /\ max_heap_size \in Nat
  BY BoundsAssumption DEF Init
<1>3. revived \in BOOLEAN
  BY Zenon DEF Init
<1> QED
  BY <1>1, <1>2, <1>3 DEF Init, TypeOK

LEMMA RootsType == TypeOK => Roots \in SUBSET Cells
BY DEF TypeOK, Roots

\* A collection keeps the types.
LEMMA CollectTypes == TypeOK /\ Collect => TypeOK'
<1> SUFFICES ASSUME TypeOK, Collect PROVE TypeOK'
  OBVIOUS
<1> DEFINE m == marked \cup Visited(Roots)
<1>1. m \subseteq live /\ m \subseteq Cells
  BY RootsType, VisitedFacts DEF TypeOK
<1>2. live' = live \cap m /\ marked' = m \cap Large /\ slots' = slots \cap m
      /\ weak_refs' = weak_refs \cap m
  BY DEF Collect, SweptMarks
<1>3. edges' \in [Cells -> SUBSET Cells]
  BY DEF Collect, TypeOK
<1>4. target' \in [Cells -> Small \cup {None}]
  BY DEF Collect, TypeOK, ClearedTargets
<1>5. max_heap_size' \in Nat
  <2>1. live \cap m \subseteq Cells
    BY <1>1
  <2>2. Cardinality(live \cap m) \in Nat
    BY <2>1, FiniteAssumption, FS_Subset, FS_CardinalityType DEF Cells
  <2>3. max_heap_size' = NewThreshold(live \cap m)
    BY DEF Collect
  <2> DEFINE k == Cardinality(live \cap m)
  <2>4. NewThreshold(live \cap m) = IF k > max_heap_size THEN (k * 3) \div 2 ELSE max_heap_size
    BY DEF NewThreshold
  <2>5. max_heap_size \in Nat
    BY DEF TypeOK
  <2> HIDE DEF k, m
  <2> QED
    BY <2>2, <2>3, <2>4, <2>5 DEF k
<1>6. UNCHANGED <<stack, stale, persistent, shadow, defers, revived>>
  BY DEF Collect
<1>7. walked' = {} /\ leftover' \in SUBSET live'
  BY DEF Collect
<1> HIDE DEF m
<1> QED
  BY <1>1, <1>2, <1>3, <1>4, <1>5, <1>6, <1>7 DEF TypeOK

\* Every other step keeps the types.
LEMMA StepTypes == TypeOK /\ [NativeNext]_vars => TypeOK'
<1> SUFFICES ASSUME TypeOK, [NativeNext]_vars PROVE TypeOK'
  OBVIOUS
<1> USE BoundsAssumption DEF history
<1>1. ASSUME NEW c \in Cells, Allocate(c) PROVE TypeOK'
  BY <1>1 DEF Allocate, TypeOK
<1>2. ASSUME NEW s \in Small, NEW t \in (Held \cap Small) \cup {None}, MakeWeak(s, t) PROVE TypeOK'
  BY <1>2 DEF MakeWeak, TypeOK, Cells
<1>3. ASSUME NEW a \in Held, NEW b \in Held, Store(a, b) PROVE TypeOK'
  BY <1>3 DEF Store, TypeOK, Held
<1>4. ASSUME NEW a \in Held, NEW b \in edges[a], Clear(a, b) PROVE TypeOK'
  BY <1>4 DEF Clear, TypeOK, Held
<1>5. ASSUME NEW c \in Cells, Hold(c), revived' \in BOOLEAN PROVE TypeOK'
  BY <1>5 DEF Hold, TypeOK
<1>6. ASSUME NEW a \in Held, Load(a) PROVE TypeOK'
  BY <1>5, <1>6 DEF Load, TypeOK, Held
<1>7. ASSUME NEW s \in Held, Upgrade(s) PROVE TypeOK'
  BY <1>5, <1>7 DEF Upgrade, TypeOK, Held, Cells
<1>8. ASSUME NEW c \in stack, Drop(c) PROVE TypeOK'
  BY <1>8 DEF Drop, TypeOK
<1>9. ASSUME Overwrite PROVE TypeOK'
  BY <1>9 DEF Overwrite, TypeOK
<1>10. ASSUME NEW c \in Held, AddPersistentRoot(c) PROVE TypeOK'
  BY <1>10 DEF AddPersistentRoot, TypeOK, Held
<1>11. ASSUME NEW c \in persistent, RemovePersistentRoot(c) PROVE TypeOK'
  BY <1>11 DEF RemovePersistentRoot, TypeOK
<1>12. ASSUME NEW c \in Held, RootBuffer(c) PROVE TypeOK'
  BY <1>12 DEF RootBuffer, TypeOK, Held
<1>13. ASSUME LoadBuffer PROVE TypeOK'
  BY <1>5, <1>13 DEF LoadBuffer, TypeOK
<1>14. ASSUME UnrootBuffer PROVE TypeOK'
  BY <1>14 DEF UnrootBuffer, TypeOK
<1>15. ASSUME Defer PROVE TypeOK'
  BY <1>15 DEF Defer, TypeOK, mutator
<1>16. ASSUME Undefer PROVE TypeOK'
  BY <1>16 DEF Undefer, TypeOK, mutator
<1>17. ASSUME NEW r \in persistent \cap live, WalkInContext(r) PROVE TypeOK'
  <2>1. edges[r] \in SUBSET Cells
    BY DEF TypeOK
  <2>2. Visited(edges[r]) \subseteq live
    BY <2>1, VisitedFacts
  <2> QED
    BY <1>17, <2>2 DEF WalkInContext, TypeOK, mutator
<1>18. ASSUME Gc \/ CollectIfNecessary PROVE TypeOK'
  BY <1>18, CollectTypes DEF Gc, CollectIfNecessary
<1>19. CASE UNCHANGED vars
  BY <1>19 DEF vars, mutator, TypeOK
<1> QED
  BY <1>1, <1>2, <1>3, <1>4, <1>6, <1>7, <1>8, <1>9, <1>10, <1>11, <1>12, <1>13,
     <1>14, <1>15, <1>16, <1>17, <1>18, <1>19 DEF NativeNext, Next

\* Every variable of the collector keeps its type; in particular only live
\* cells are marked, so a cell is never allocated with its mark already set,
\* and the count of defers never goes below zero.
THEOREM TypeCorrect == NativeSpec => []TypeOK
<1>1. Init => TypeOK
  BY InitTypes
<1>2. TypeOK /\ [NativeNext]_vars => TypeOK'
  BY StepTypes
<1> QED
  BY <1>1, <1>2, PTL DEF NativeSpec
-----------------------------------------------------------------------------
\* The weak references of a state are right.
WeakInv == TypeOK /\ WeakTargetsLive /\ WeakListExact

LEMMA CollectWeak == WeakInv /\ Collect => WeakInv'
<1> SUFFICES ASSUME WeakInv, Collect PROVE WeakInv'
  OBVIOUS
<1> DEFINE m == marked \cup Visited(Roots)
<1>1. TypeOK' /\ TypeOK
  BY CollectTypes DEF WeakInv
<1>2. /\ live' = live \cap m
      /\ slots' = slots \cap m
      /\ weak_refs' = weak_refs \cap m
      /\ target' = [s \in Cells |-> IF s \in m THEN ClearedTargets(m)[s] ELSE None]
  BY DEF Collect
<1>3. WeakListExact'
  BY <1>2 DEF WeakInv, WeakListExact
<1>4. ASSUME NEW s \in slots' PROVE target'[s] \in live' \cup {None}
  <2>1. s \in slots /\ s \in m /\ s \in weak_refs /\ s \in Cells
    BY <1>1, <1>2, <1>4 DEF WeakInv, WeakListExact, TypeOK
  <2>2. target'[s] = IF target[s] \notin m THEN None ELSE target[s]
    BY <1>2, <2>1 DEF ClearedTargets
  <2>3. target[s] \in live \cup {None}
    BY <2>1 DEF WeakInv, WeakTargetsLive
  <2> QED
    BY <1>2, <2>2, <2>3
<1> QED
  BY <1>1, <1>3, <1>4 DEF WeakInv, WeakTargetsLive

LEMMA StepWeak == WeakInv /\ [NativeNext]_vars => WeakInv'
<1> SUFFICES ASSUME WeakInv, [NativeNext]_vars PROVE WeakInv'
  OBVIOUS
<1>0. TypeOK /\ TypeOK'
  BY StepTypes DEF WeakInv
<1>1. ASSUME NEW c \in Cells, Allocate(c) PROVE WeakInv'
  BY <1>0, <1>1 DEF WeakInv, Allocate, TypeOK, WeakTargetsLive, WeakListExact
<1>2. ASSUME NEW s \in Small, NEW t \in (Held \cap Small) \cup {None}, MakeWeak(s, t) PROVE WeakInv'
  BY <1>0, <1>2 DEF WeakInv, MakeWeak, TypeOK, WeakTargetsLive, WeakListExact, Held
<1>3. ASSUME UNCHANGED <<live, slots, target, weak_refs>> PROVE WeakInv'
  BY <1>0, <1>3 DEF WeakInv, WeakTargetsLive, WeakListExact
<1>4. ASSUME Gc \/ CollectIfNecessary PROVE WeakInv'
  BY <1>4, CollectWeak DEF Gc, CollectIfNecessary
<1>5. ASSUME \/ \E a, b \in Held : Store(a, b)
             \/ \E a \in Held : \E b \in edges[a] : Clear(a, b)
             \/ \E a \in Held : Load(a)
             \/ \E s \in Held : Upgrade(s)
             \/ LoadBuffer
      PROVE  UNCHANGED <<live, slots, target, weak_refs>>
  BY <1>5 DEF Store, Clear, Load, Upgrade, LoadBuffer, Hold
<1>6. ASSUME \/ \E c \in stack : Drop(c)
             \/ Overwrite
             \/ \E c \in Held : AddPersistentRoot(c)
             \/ \E c \in persistent : RemovePersistentRoot(c)
             \/ \E c \in Held : RootBuffer(c)
             \/ UnrootBuffer
      PROVE  UNCHANGED <<live, slots, target, weak_refs>>
  BY <1>6 DEF Drop, Overwrite, AddPersistentRoot, RemovePersistentRoot, RootBuffer, UnrootBuffer
<1>7. ASSUME \/ Defer \/ Undefer
             \/ \E r \in persistent \cap live : WalkInContext(r)
             \/ UNCHANGED vars
      PROVE  UNCHANGED <<live, slots, target, weak_refs>>
  BY <1>7 DEF Defer, Undefer, WalkInContext, mutator, vars
<1> QED
  BY <1>1, <1>2, <1>3, <1>4, <1>5, <1>6, <1>7 DEF NativeNext, Next

LEMMA WeakInvariant == NativeSpec => []WeakInv
<1>1. Init => WeakInv
  BY InitTypes DEF Init, WeakInv, WeakTargetsLive, WeakListExact
<1>2. WeakInv /\ [NativeNext]_vars => WeakInv'
  BY StepWeak
<1> QED
  BY <1>1, <1>2, PTL DEF NativeSpec

\* Whatever features are used, upgrade returns None or an allocated cell.
THEOREM WeakTargetsLiveHolds == NativeSpec => []WeakTargetsLive
<1>1. WeakInv => WeakTargetsLive
  BY DEF WeakInv
<1> QED
  BY <1>1, WeakInvariant, PTL

\* weak_refs is exactly the set of live slots.
THEOREM WeakListExactHolds == NativeSpec => []WeakListExact
<1>1. WeakInv => WeakListExact
  BY DEF WeakInv
<1> QED
  BY <1>1, WeakInvariant, PTL

\* A weak reference is cleared only by the collection that frees its target.
THEOREM ClearedOnlyWhenFreedHolds == NativeSpec => ClearedOnlyWhenFreed
<1> DEFINE Step == \A s \in slots \cap slots' :
                      target[s] # None /\ target'[s] # target[s] => target[s] \notin live'
<1>1. ASSUME WeakInv, [NativeNext]_vars PROVE Step \/ UNCHANGED vars
  <2> SUFFICES ASSUME NEW s \in slots \cap slots', target[s] # None,
                      target'[s] # target[s], ~ UNCHANGED vars
               PROVE  target[s] \notin live'
    OBVIOUS
  <2>1. CASE Gc \/ CollectIfNecessary
    <3> DEFINE m == marked \cup Visited(Roots)
    <3>1. /\ live' = live \cap m
          /\ slots' = slots \cap m
          /\ target' = [x \in Cells |-> IF x \in m THEN ClearedTargets(m)[x] ELSE None]
      BY <2>1 DEF Collect, Gc, CollectIfNecessary
    <3>2. s \in m /\ s \in Cells
      BY <1>1, <3>1 DEF WeakInv, TypeOK
    <3>3. target[s] \notin m
      BY <3>1, <3>2 DEF ClearedTargets
    <3> QED
      BY <3>1, <3>3
  <2>2. ASSUME NEW x \in Small, NEW t \in (Held \cap Small) \cup {None}, MakeWeak(x, t)
        PROVE  FALSE
    BY <1>1, <2>2 DEF MakeWeak, WeakInv, TypeOK
  <2>3. ASSUME NEW c \in Cells, Allocate(c) PROVE FALSE
    BY <2>3 DEF Allocate
  <2>4. ASSUME \/ \E a, b \in Held : Store(a, b)
               \/ \E a \in Held : \E b \in edges[a] : Clear(a, b)
               \/ \E a \in Held : Load(a)
               \/ \E x \in Held : Upgrade(x)
               \/ LoadBuffer
        PROVE  FALSE
    BY <2>4 DEF Store, Clear, Load, Upgrade, LoadBuffer, Hold
  <2>5. ASSUME \/ \E c \in stack : Drop(c)
               \/ Overwrite
               \/ \E c \in Held : AddPersistentRoot(c)
               \/ \E c \in persistent : RemovePersistentRoot(c)
               \/ \E c \in Held : RootBuffer(c)
               \/ UnrootBuffer
        PROVE  FALSE
    BY <2>5 DEF Drop, Overwrite, AddPersistentRoot, RemovePersistentRoot, RootBuffer, UnrootBuffer
  <2>6. ASSUME \/ Defer \/ Undefer
               \/ \E r \in persistent \cap live : WalkInContext(r)
        PROVE  FALSE
    BY <2>6 DEF Defer, Undefer, WalkInContext, mutator
  <2> QED
    BY <1>1, <2>1, <2>2, <2>3, <2>4, <2>5, <2>6 DEF NativeNext, Next
<1>2. WeakInv /\ [NativeNext]_vars => [Step]_vars
  BY <1>1
<1>3. NativeSpec => [][NativeNext]_vars
  BY DEF NativeSpec
<1>4. NativeSpec => [][Step]_vars
  BY <1>2, <1>3, WeakInvariant, PTL
<1> QED
  BY <1>4 DEF ClearedOnlyWhenFreed

-----------------------------------------------------------------------------
\* The cells that are whole: a collection keeps what it has visited with all
\* its children.  A leftover cell is kept for its mark alone, when its children
\* go.
Whole == live \ leftover

\* All the program can come to hold is whole, if no leftover was handed out.
HoldsWhole ==
    /\ stack \cup persistent \subseteq Whole
    /\ stale \cap live \subseteq Whole
    /\ Closed(Whole, edges)

Sound ==
    /\ WeakInv
    /\ marked \cap Small \subseteq walked
    /\ \A c \in Cells : c \notin live => edges[c] = {}
    /\ ~revived => HoldsWhole

\* What a mark phase visits of whole cells is whole.
LEMMA VisitedWhole ==
    ASSUME TypeOK, HoldsWhole
    PROVE  Visited(Roots) \subseteq Whole
<1> DEFINE e == [c \in Cells |-> edges[c] \cap live]
<1>1. e \in [Cells -> SUBSET Cells] /\ Roots \cap live \in SUBSET Cells /\ Whole \in SUBSET Cells
  BY RootsType DEF TypeOK, Whole
<1>2. Roots \cap live \subseteq Whole
  BY DEF HoldsWhole, Roots
<1>3. Closed(Whole, e)
  BY <1>1 DEF HoldsWhole, Closed, Whole
<1>4. Visited(Roots) = Reach(Roots \cap live, e)
  BY DEF Visited
<1> HIDE DEF e
<1>5. \A S \in SUBSET Cells :
          Roots \cap live \subseteq S /\ Closed(S, e) => Reach(Roots \cap live, e) \subseteq S
  BY <1>1, ReachFacts
<1> QED
  BY <1>1, <1>2, <1>3, <1>4, <1>5

LEMMA CollectSound == Sound /\ Collect => Sound'
<1> SUFFICES ASSUME Sound, Collect PROVE Sound'
  OBVIOUS
<1> DEFINE V == Visited(Roots)
           m == marked \cup V
<1>1. TypeOK /\ WeakInv' /\ Roots \in SUBSET Cells
  BY CollectWeak, RootsType DEF Sound, WeakInv
<1>2. /\ V \subseteq live
      /\ Roots \cap live \subseteq V
      /\ \A c \in V : edges[c] \cap live \subseteq V
  BY <1>1, VisitedFacts
<1>3. /\ live' = live \cap m
      /\ marked' = m \cap Large
      /\ edges' = [c \in Cells |-> IF c \in m THEN edges[c] ELSE {}]
      /\ leftover' = live' \ V
      /\ UNCHANGED <<stack, stale, persistent, revived>>
  BY DEF Collect, SweptMarks
<1>4. ~revived => V \subseteq Whole
  BY <1>1, VisitedWhole DEF Sound
<1> HIDE DEF V
<1>5. Whole' = V
  BY <1>2, <1>3 DEF Whole
<1>6. ASSUME ~revived PROVE HoldsWhole'
  <2>1. HoldsWhole
    BY <1>6 DEF Sound
  <2>2. stack' \cup persistent' \subseteq V
    BY <1>2, <1>3, <2>1 DEF HoldsWhole, Whole, Roots
  <2>3. stale' \cap live' \subseteq V
    BY <1>2, <1>3 DEF Roots
  <2>4. ASSUME NEW c \in V PROVE edges'[c] \subseteq V
    <3>1. c \in Cells /\ c \in m /\ c \in Whole
      BY <1>1, <1>2, <1>4, <1>6 DEF TypeOK
    <3>2. edges'[c] = edges[c]
      BY <1>3, <3>1
    <3>3. edges[c] \subseteq live
      BY <2>1, <3>1 DEF HoldsWhole, Closed, Whole
    <3> QED
      BY <1>2, <3>2, <3>3
  <2>5. Closed(V, edges')
    BY <2>4 DEF Closed
  <2>6. HoldsWhole' <=> /\ stack' \cup persistent' \subseteq Whole'
                        /\ stale' \cap live' \subseteq Whole'
                        /\ Closed(Whole', edges')
    BY DEF HoldsWhole, Closed
  <2> QED
    BY <1>5, <2>2, <2>3, <2>5, <2>6
<1>7. \A c \in Cells : c \notin live' => edges'[c] = {}
  <2>1. m \subseteq live
    BY <1>1, <1>2 DEF TypeOK
  <2> QED
    BY <1>3, <2>1
<1>8. marked' \cap Small \subseteq walked'
  BY <1>3, SmallLargeAssumption
<1> QED
  BY <1>1, <1>3, <1>6, <1>7, <1>8 DEF Sound

\* Every other step keeps Sound.
LEMMA StepSound == Sound /\ [Next]_vars => Sound'
<1> SUFFICES ASSUME Sound, [Next]_vars PROVE Sound'
  OBVIOUS
<1>0. TypeOK /\ TypeOK' /\ WeakInv /\ WeakInv'
  BY StepTypes, StepWeak DEF Sound, WeakInv, NativeNext
<1>1. ~revived => HoldsWhole
  BY DEF Sound
<1> USE DEF history
<1>2. ASSUME UNCHANGED <<live, marked, walked, leftover, edges>>,
             ~revived' => ~revived /\ HoldsWhole'
      PROVE  Sound'
  BY <1>0, <1>2 DEF Sound
<1>3. ASSUME NEW c \in Cells, Allocate(c) PROVE Sound'
  <2>1. /\ live' = live \cup {c} /\ stack' = stack \cup {c} /\ stale' = stale \ {c} /\ c \notin live
        /\ UNCHANGED <<marked, edges, persistent, walked, leftover, revived>>
    BY <1>3 DEF Allocate
  <2>2. leftover \subseteq live /\ edges[c] = {}
    BY <1>0, <2>1 DEF TypeOK, Sound
  <2>3. Whole' = Whole \cup {c}
    BY <2>1, <2>2 DEF Whole
  <2>4. HoldsWhole => HoldsWhole'
    BY <2>1, <2>2, <2>3 DEF HoldsWhole, Closed
  <2> QED
    BY <1>0, <1>1, <2>1, <2>4 DEF Sound
<1>4. ASSUME NEW s \in Small, NEW t \in (Held \cap Small) \cup {None}, MakeWeak(s, t) PROVE Sound'
  <2>1. /\ live' = live \cup {s} /\ stack' = stack \cup {s} /\ stale' = stale \ {s} /\ s \notin live
        /\ UNCHANGED <<marked, edges, persistent, walked, leftover, revived>>
    BY <1>4 DEF MakeWeak
  <2>2. leftover \subseteq live /\ edges[s] = {}
    BY <1>0, <2>1 DEF TypeOK, Sound, Cells
  <2>3. Whole' = Whole \cup {s}
    BY <2>1, <2>2 DEF Whole
  <2>4. HoldsWhole => HoldsWhole'
    BY <2>1, <2>2, <2>3 DEF HoldsWhole, Closed
  <2> QED
    BY <1>0, <1>1, <2>1, <2>4 DEF Sound
<1>5. ASSUME NEW a \in Held, NEW b \in Held, Store(a, b) PROVE Sound'
  <2>1. /\ edges' = [edges EXCEPT ![a] = @ \cup {b}]
        /\ UNCHANGED <<live, marked, stack, stale, persistent, walked, leftover, revived>>
    BY <1>5 DEF Store
  <2>2. Whole' = Whole
    BY <2>1 DEF Whole
  <2>3. HoldsWhole => HoldsWhole'
    <3> SUFFICES ASSUME HoldsWhole PROVE HoldsWhole'
      OBVIOUS
    <3>1. a \in Whole /\ b \in Whole /\ Whole \subseteq Cells
      BY <1>0 DEF HoldsWhole, Held, Whole, TypeOK
    <3>2. Closed(Whole, edges')
      BY <1>0, <2>1, <3>1 DEF HoldsWhole, Closed, TypeOK
    <3> QED
      BY <2>1, <2>2, <3>2 DEF HoldsWhole, Closed
  <2>4. \A c \in Cells : c \notin live' => edges'[c] = {}
    BY <1>0, <2>1 DEF Sound, TypeOK, Held
  <2> QED
    BY <1>0, <1>1, <2>1, <2>3, <2>4 DEF Sound
<1>6. ASSUME NEW a \in Held, NEW b \in edges[a], Clear(a, b) PROVE Sound'
  <2>1. /\ edges' = [edges EXCEPT ![a] = @ \ {b}]
        /\ UNCHANGED <<live, marked, stack, stale, persistent, walked, leftover, revived>>
    BY <1>6 DEF Clear
  <2>2. Whole' = Whole /\ Whole \subseteq Cells
    BY <1>0, <2>1 DEF Whole, TypeOK
  <2>3. \A c \in Cells : edges'[c] \subseteq edges[c]
    BY <1>0, <2>1 DEF TypeOK
  <2>4. HoldsWhole => HoldsWhole'
    BY <2>1, <2>2, <2>3 DEF HoldsWhole, Closed
  <2>5. \A c \in Cells : c \notin live' => edges'[c] = {}
    BY <2>1, <2>3 DEF Sound
  <2> QED
    BY <1>0, <1>1, <2>1, <2>4, <2>5 DEF Sound
<1>7. ASSUME NEW c, Hold(c), ~revived' => ~revived /\ c \in Whole PROVE Sound'
  <2>1. /\ stack' = stack \cup {c} /\ stale' \subseteq stale
        /\ UNCHANGED <<live, marked, edges, persistent, walked, leftover>>
    BY <1>7 DEF Hold
  <2>2. Whole' = Whole
    BY <2>1 DEF Whole
  <2>3. c \in Whole /\ HoldsWhole => HoldsWhole'
    BY <2>1, <2>2 DEF HoldsWhole, Closed
  <2> QED
    BY <1>1, <1>2, <1>7, <2>1, <2>3
<1>8. ASSUME NEW a \in Held, Load(a) PROVE Sound'
  <2>1. PICK c \in edges[a] : Hold(c) /\ UNCHANGED revived
    BY <1>8 DEF Load
  <2>2. ~revived => c \in Whole
    BY <1>1, <2>1 DEF Held, HoldsWhole, Closed
  <2> QED
    BY <1>7, <2>1, <2>2
<1>9. ASSUME NEW s \in Held, Upgrade(s) PROVE Sound'
  <2>1. s \in slots /\ target[s] # None /\ Hold(target[s]) /\ revived' = (revived \/ target[s] \in leftover)
    BY <1>9 DEF Upgrade
  <2>2. target[s] \in live
    BY <1>0, <2>1 DEF WeakInv, WeakTargetsLive
  <2>3. ~revived' => ~revived /\ target[s] \in Whole
    BY <2>1, <2>2 DEF Whole
  <2> QED
    BY <1>7, <2>1, <2>3
<1>10. ASSUME NEW c \in Held, AddPersistentRoot(c) PROVE Sound'
  <2>1. /\ persistent' = persistent \cup {c}
        /\ UNCHANGED <<live, marked, edges, stack, stale, walked, leftover, revived>>
    BY <1>10 DEF AddPersistentRoot
  <2>2. Whole' = Whole
    BY <2>1 DEF Whole
  <2>3. HoldsWhole => HoldsWhole'
    BY <2>1, <2>2 DEF HoldsWhole, Closed, Held
  <2> QED
    BY <1>1, <1>2, <2>1, <2>3
<1>11. ASSUME \/ \E c \in stack : Drop(c)
              \/ Overwrite
              \/ \E c \in persistent : RemovePersistentRoot(c)
              \/ Defer \/ Undefer \/ UNCHANGED vars
       PROVE  Sound'
  <2>1. /\ stack' \subseteq stack /\ persistent' \subseteq persistent
        /\ stale' \subseteq stale \cup stack
        /\ UNCHANGED <<live, marked, edges, walked, leftover, revived>>
    BY <1>11 DEF Drop, Overwrite, RemovePersistentRoot, Defer, Undefer, vars, mutator
  <2>2. Whole' = Whole
    BY <2>1 DEF Whole
  <2>3. HoldsWhole => HoldsWhole'
    BY <2>1, <2>2 DEF HoldsWhole, Closed
  <2> QED
    BY <1>1, <1>2, <2>1, <2>3
<1>12. ASSUME NEW r, WalkInContext(r) PROVE Sound'
  <2>1. /\ marked' = marked \cup Visited(edges[r])
        /\ walked' = walked \cup (Visited(edges[r]) \cap Small)
        /\ UNCHANGED <<live, edges, stack, stale, persistent, leftover, revived>>
    BY <1>12 DEF WalkInContext, mutator
  <2>2. marked' \cap Small \subseteq walked'
    BY <2>1 DEF Sound
  <2>3. HoldsWhole => HoldsWhole'
    BY <2>1 DEF HoldsWhole, Closed, Whole
  <2> QED
    BY <1>0, <1>1, <2>1, <2>2, <2>3 DEF Sound
<1>13. ASSUME Gc \/ CollectIfNecessary PROVE Sound'
  BY <1>13, CollectSound DEF Gc, CollectIfNecessary
<1> QED
  BY <1>3, <1>4, <1>5, <1>6, <1>8, <1>9, <1>10, <1>11, <1>12, <1>13 DEF Next

LEMMA SoundInvariant == Spec => []Sound
<1>1. Init => Sound
  <2> SUFFICES ASSUME Init PROVE Sound
    OBVIOUS
  <2>1. WeakInv
    BY InitTypes DEF Init, WeakInv, WeakTargetsLive, WeakListExact
  <2> QED
    BY <2>1 DEF Init, Sound, HoldsWhole, Whole, Closed
<1> QED
  BY <1>1, StepSound, PTL DEF Spec

\* A program that keeps its values on the stack never reaches a freed cell,
\* snapshots included, until a weak reference hands out a leftover cell.
THEOREM NoDanglingHolds == Spec => []NoDangling
<1>1. Sound => NoDangling
  <2> SUFFICES ASSUME Sound, ~revived PROVE Reach(stack \cup persistent, edges) \subseteq live
    BY DEF NoDangling
  <2>1. TypeOK /\ HoldsWhole
    BY DEF Sound, WeakInv
  <2>2. /\ stack \cup persistent \in SUBSET Cells /\ Whole \in SUBSET Cells
        /\ edges \in [Cells -> SUBSET Cells] /\ Whole \subseteq live
    BY <2>1 DEF TypeOK, Whole
  <2>3. Reach(stack \cup persistent, edges) \subseteq Whole
    BY <2>1, <2>2, ReachFacts DEF HoldsWhole
  <2> QED
    BY <2>2, <2>3
<1> QED
  BY <1>1, SoundInvariant, PTL

\* A collection deletes the small cells it does not visit, but for those that a
\* snapshot has marked since the collection before.
THEOREM GarbageDeletedHolds == Spec => GarbageDeleted
<1> DEFINE Step == Collect => live' \cap Small \subseteq Visited(Roots) \cup walked
<1>1. Sound => [Step]_vars
  <2> SUFFICES ASSUME Sound, Collect PROVE live' \cap Small \subseteq Visited(Roots) \cup walked
    OBVIOUS
  <2>1. live' = live \cap (marked \cup Visited(Roots))
    BY DEF Collect
  <2>2. marked \cap Small \subseteq walked
    BY DEF Sound
  <2> QED
    BY <2>1, <2>2
<1>2. Spec => [][Step]_vars
  BY <1>1, SoundInvariant, PTL
<1> QED
  BY <1>2 DEF GarbageDeleted
=============================================================================
