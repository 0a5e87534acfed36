------------------------------ MODULE Collector ------------------------------
(***************************************************************************)
(* The collector as the runtime sees it (gc.rs, with the sweeps of         *)
(* gc/allocation.rs and gc/large_object_space.rs, WeakSlot and WeakRef of  *)
(* gc/cell.rs, the roots of vm.rs and the shadow stack).                   *)
(*                                                                         *)
(* One thread runs the program and the collector, so a collection is one   *)
(* step; the order of its parts (mark, clear weak references, drop dead    *)
(* slots, sweep) is kept inside it.  ParallelMarking says what its mark    *)
(* phase finds.  A cell is its address: a freed cell may be allocated      *)
(* again.                                                                  *)
(*                                                                         *)
(* A snapshot of a context, which the first context of every runtime       *)
(* takes, leaves marks behind.  Three history variables say what comes of  *)
(* them; no action's guard reads them.                                     *)
(***************************************************************************)
EXTENDS Integers, FiniteSets

CONSTANTS
    Small,          \* cells of the segregated space: mark bits in a bitmap
    Large,          \* precise allocations: a mark flag in their header
    None,           \* WeakSlot.value = None
    InitThreshold,  \* max_heap_size at start, counted in cells
    MaxDefers,      \* bound on nested defer()
    MaxFields,      \* bound on the fields an object has in use
    MaxPersistent   \* bound on the contexts and persistent roots

ASSUME SmallLargeAssumption == Small \cap Large = {}
ASSUME NoneAssumption == None \notin Small \cup Large
ASSUME FiniteAssumption == IsFiniteSet(Small \cup Large)
ASSUME BoundsAssumption ==
    {InitThreshold, MaxDefers, MaxFields, MaxPersistent} \subseteq Nat

Cells == Small \cup Large

VARIABLES
    live,           \* the allocated cells
    marked,         \* set mark bits and is_marked flags
    edges,          \* edges[c]: what the Trace implementation of c visits
    slots,          \* the live cells that are WeakSlots
    target,         \* target[s]: WeakSlot.value
    weak_refs,      \* Heap::weak_refs
    stack,          \* cells the program holds on the native stack
    stale,          \* cells that only dead words of the native stack name
    persistent,     \* contexts and persistent roots, visited by the constraint
    shadow,         \* cells held in Rust buffers that the shadow stack names
    defers,
    max_heap_size,
    walked,         \* the small cells that snapshots marked since the last collection
    leftover,       \* the live cells that the last collection kept without visiting them
    revived         \* a weak reference has handed out a leftover cell

mutator == <<edges, slots, target, weak_refs, stack, stale, persistent, shadow>>
history == <<walked, leftover, revived>>
vars == <<live, marked, mutator, defers, max_heap_size, history>>

INSTANCE Reachability

\* What a mark phase visits from rs.  With is_heap_pointer: the visitor follows
\* only pointers to live cells.
Visited(rs) == Reach(rs \cap live, [c \in Cells |-> edges[c] \cap live])

TypeOK ==
    /\ live \in SUBSET Cells
    /\ marked \in SUBSET live
    /\ edges \in [Cells -> SUBSET Cells]
    /\ slots \in SUBSET (live \cap Small)
    /\ target \in [Cells -> Small \cup {None}]
    /\ weak_refs \in SUBSET Cells
    /\ {stack, stale, persistent, shadow} \subseteq SUBSET Cells
    /\ defers \in 0..MaxDefers
    /\ max_heap_size \in Nat
    /\ walked \subseteq live \cap Small
    /\ leftover \in SUBSET live
    /\ revived \in BOOLEAN

-----------------------------------------------------------------------------
Init ==
    /\ live = {} /\ marked = {}
    /\ edges = [c \in Cells |-> {}]
    /\ slots = {} /\ weak_refs = {}
    /\ target = [c \in Cells |-> None]
    /\ stack = {} /\ stale = {} /\ persistent = {} /\ shadow = {}
    /\ defers = 0
    /\ max_heap_size = InitThreshold
    /\ walked = {} /\ leftover = {} /\ revived = FALSE

\* Heap::allocate: the cell is white and only the caller's local names it.
Allocate(c) ==
    /\ c \notin live
    /\ live' = live \cup {c}
    /\ stack' = stack \cup {c}
    /\ stale' = stale \ {c}
    /\ UNCHANGED <<marked, edges, slots, target, weak_refs, persistent,
                   shadow, defers, max_heap_size, history>>

\* make_weak and, for t = None, make_null_weak.  The targets are structures and
\* objects of fixed size, so they are small.
MakeWeak(s, t) ==
    /\ s \in Small \ live
    /\ live' = live \cup {s}
    /\ slots' = slots \cup {s}
    /\ target' = [target EXCEPT ![s] = t]
    /\ weak_refs' = weak_refs \cup {s}
    /\ stack' = stack \cup {s}
    /\ stale' = stale \ {s}
    /\ UNCHANGED <<marked, edges, persistent, shadow, defers, max_heap_size, history>>

\* The program stores, clears and loads a field, and drops a local.
Store(a, b) ==
    /\ a \notin slots
    /\ b \notin edges[a]
    /\ Cardinality(edges[a]) < MaxFields
    /\ edges' = [edges EXCEPT ![a] = @ \cup {b}]
    /\ UNCHANGED <<live, marked, slots, target, weak_refs, stack, stale,
                   persistent, shadow, defers, max_heap_size, history>>

Clear(a, b) ==
    /\ edges' = [edges EXCEPT ![a] = @ \ {b}]
    /\ UNCHANGED <<live, marked, slots, target, weak_refs, stack, stale,
                   persistent, shadow, defers, max_heap_size, history>>

Hold(c) ==
    /\ c \notin stack
    /\ stack' = stack \cup {c}
    /\ stale' = stale \ {c}
    /\ UNCHANGED <<live, marked, edges, slots, target, weak_refs, persistent,
                   shadow, defers, max_heap_size, walked, leftover>>

Load(a) == (\E b \in edges[a] : Hold(b)) /\ UNCHANGED revived

\* WeakRef::upgrade.
Upgrade(s) ==
    /\ s \in slots /\ target[s] # None /\ Hold(target[s])
    /\ revived' = (revived \/ target[s] \in leftover)

\* A local goes out of scope; its word stays until the stack is reused.
Drop(c) ==
    /\ stack' = stack \ {c}
    /\ stale' = stale \cup {c}
    /\ UNCHANGED <<live, marked, edges, slots, target, weak_refs, persistent,
                   shadow, defers, max_heap_size, history>>

Overwrite ==
    /\ stale # {}
    /\ stale' = {}
    /\ UNCHANGED <<live, marked, edges, slots, target, weak_refs, stack,
                   persistent, shadow, defers, max_heap_size, history>>

\* Runtime::add_persistent_root (and contexts.push), PersistentRooted::drop.
AddPersistentRoot(c) ==
    /\ c \notin persistent
    /\ Cardinality(persistent) < MaxPersistent
    /\ persistent' = persistent \cup {c}
    /\ UNCHANGED <<live, marked, edges, slots, target, weak_refs, stack, stale,
                   shadow, defers, max_heap_size, history>>

RemovePersistentRoot(c) ==
    /\ persistent' = persistent \ {c}
    /\ UNCHANGED <<live, marked, edges, slots, target, weak_refs, stack, stale,
                   shadow, defers, max_heap_size, history>>

\* letroot! of a value whose cells are in a Rust buffer: Arguments over a Vec, as
\* in Function.prototype.apply.  The entry names the buffer, the stack does not
\* name the cells.
RootBuffer(c) ==
    /\ c \notin shadow
    /\ shadow' = shadow \cup {c}
    /\ UNCHANGED <<live, marked, edges, slots, target, weak_refs, stack, stale,
                   persistent, defers, max_heap_size, history>>

LoadBuffer == (\E c \in shadow \cap live : Hold(c)) /\ UNCHANGED revived

\* RootedInternal::drop unlinks the entry.
UnrootBuffer ==
    /\ shadow # {}
    /\ shadow' = {}
    /\ UNCHANGED <<live, marked, edges, slots, target, weak_refs, stack, stale,
                   persistent, defers, max_heap_size, history>>

Defer ==
    /\ defers < MaxDefers
    /\ defers' = defers + 1
    /\ UNCHANGED <<live, marked, mutator, max_heap_size, history>>

\* undefer without a defer panics; every caller brackets it.
Undefer ==
    /\ defers > 0
    /\ defers' = defers - 1
    /\ UNCHANGED <<live, marked, mutator, max_heap_size, history>>

-----------------------------------------------------------------------------
\* Mutant of Roots: the constraint forgets the persistent roots.
Roots_StackOnly == stack \cup stale

\* The roots of a mark phase: conservative scan and constraints.  The
\* constraint does not visit the shadow stack.
Roots == stack \cup stale \cup persistent

\* Mutant of ClearedTargets: tests the slot instead of its value.
ClearedTargets_TestsSlot(m) ==
    [s \in Cells |-> IF s \in weak_refs /\ s \notin m THEN None ELSE target[s]]

\* update_weak_references.
ClearedTargets(m) ==
    [s \in Cells |-> IF s \in weak_refs /\ target[s] \notin m THEN None ELSE target[s]]

\* Mutant of SweptMarks: the sweep tests the mark bits and does not clear them.
SweptMarks_Kept(m) == m

\* Space::sweep clears the bit of every small survivor; the flag of a large one
\* is cleared nowhere.
SweptMarks(m) == m \cap Large

NewThreshold(survivors) ==
    IF Cardinality(survivors) > max_heap_size
    THEN (Cardinality(survivors) * 3) \div 2
    ELSE max_heap_size

\* Mutant of Collect: weak references are updated after the sweep has cleared
\* the mark bits.
Collect_WeakAfterSweep ==
    LET m == marked \cup Visited(Roots)
    IN  /\ defers = 0
        /\ weak_refs' = weak_refs \cap m
        /\ live' = live \cap m
        /\ marked' = SweptMarks(m)
        /\ slots' = slots \cap m
        /\ target' = [s \in Cells |-> IF s \in m THEN ClearedTargets(marked')[s] ELSE None]
        /\ edges' = [c \in Cells |-> IF c \in m THEN edges[c] ELSE {}]
        /\ max_heap_size' = NewThreshold(live \cap m)
        /\ walked' = {} /\ leftover' = live' \ Visited(Roots)
        /\ UNCHANGED <<stack, stale, persistent, shadow, defers, revived>>

\* Mutant of Collect: reset_weak_references is left out.
Collect_KeepsDeadSlots ==
    LET m == marked \cup Visited(Roots)
    IN  /\ defers = 0
        /\ weak_refs' = weak_refs
        /\ live' = live \cap m
        /\ marked' = SweptMarks(m)
        /\ slots' = slots \cap m
        /\ target' = [s \in Cells |-> IF s \in m THEN ClearedTargets(m)[s] ELSE None]
        /\ edges' = [c \in Cells |-> IF c \in m THEN edges[c] ELSE {}]
        /\ max_heap_size' = NewThreshold(live \cap m)
        /\ walked' = {} /\ leftover' = live' \ Visited(Roots)
        /\ UNCHANGED <<stack, stale, persistent, shadow, defers, revived>>

\* collect_internal.  m is what is marked when the mark phase ends: what it
\* visited, and what was marked before it began.
Collect ==
    LET m == marked \cup Visited(Roots)
    IN  /\ defers = 0
        /\ target' = [s \in Cells |-> IF s \in m THEN ClearedTargets(m)[s] ELSE None]
        /\ weak_refs' = weak_refs \cap m
        /\ live' = live \cap m
        /\ marked' = SweptMarks(m)
        /\ slots' = slots \cap m
        /\ edges' = [c \in Cells |-> IF c \in m THEN edges[c] ELSE {}]
        /\ max_heap_size' = NewThreshold(live \cap m)
        /\ walked' = {} /\ leftover' = live' \ Visited(Roots)
        /\ UNCHANGED <<stack, stale, persistent, shadow, defers, revived>>

\* The gc() builtin, and the safepoints of the interpreter.
Gc == Collect

CollectIfNecessary == Cardinality(live) >= max_heap_size /\ Collect

\* walk_in_context, for a snapshot of context r: what r reaches is marked, and
\* whitened again without clearing the marks.
WalkInContext(r) ==
    /\ marked' = marked \cup Visited(edges[r])
    /\ walked' = walked \cup (Visited(edges[r]) \cap Small)
    /\ UNCHANGED <<live, mutator, defers, max_heap_size, leftover, revived>>

-----------------------------------------------------------------------------
\* Only live cells are used: after a use of a freed one anything may happen.
Held == stack \cap live

Next ==
    \/ \E c \in Cells : Allocate(c)
    \/ \E s \in Small, t \in (Held \cap Small) \cup {None} : MakeWeak(s, t)
    \/ \E a, b \in Held : Store(a, b)
    \/ \E a \in Held : \E b \in edges[a] : Clear(a, b)
    \/ \E a \in Held : Load(a)
    \/ \E s \in Held : Upgrade(s)
    \/ \E c \in stack : Drop(c)
    \/ Overwrite
    \/ \E c \in Held : AddPersistentRoot(c)
    \/ \E c \in persistent : RemovePersistentRoot(c)
    \/ Defer
    \/ Undefer
    \/ Gc
    \/ CollectIfNecessary
    \/ \E r \in persistent \cap live : WalkInContext(r)

\* A program that keeps its values in locals, fields and persistent roots, and
\* takes snapshots.
Spec == Init /\ [][Next]_vars

\* Native code that keeps values in letroot!-ed buffers too.
NativeNext ==
    \/ Next
    \/ \E c \in Held : RootBuffer(c)
    \/ LoadBuffer
    \/ UnrootBuffer

NativeSpec == Init /\ [][NativeNext]_vars

-----------------------------------------------------------------------------
\* Everything the program can reach from its stack and the persistent roots is
\* allocated, until a weak reference hands out a cell that a collection kept for
\* its mark alone: such a cell may have lost its children.  No other weak
\* reference, and no cell kept for the flag of a large one or the mark of a
\* snapshot, leads the program to a freed cell.
NoDangling == ~revived => Reach(stack \cup persistent, edges) \subseteq live

\* The value of a live weak slot is None or an allocated cell: upgrade never
\* returns a freed cell, nor one allocated later at the same address.
WeakTargetsLive == \A s \in slots : target[s] \in live \cup {None}

\* weak_refs lists exactly the live slots: none is missed by
\* update_weak_references, none is a freed cell that it would write to.
WeakListExact == weak_refs = slots

\* A weak reference is cleared only by the collection that frees its target.
ClearedOnlyWhenFreed ==
    [][\A s \in slots \cap slots' :
            target[s] # None /\ target'[s] # target[s] => target[s] \notin live']_vars

\* A collection keeps a small cell that no root or stale word leads to only if a
\* snapshot has marked it since the collection before: garbage is deleted by
\* the second collection after it at the latest.
GarbageDeleted ==
    [][Collect => live' \cap Small \subseteq Visited(Roots) \cup walked]_vars

=============================================================================
