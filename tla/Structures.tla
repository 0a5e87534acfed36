------------------------------ MODULE Structures ------------------------------
(***************************************************************************)
(* Objects with structures (hidden classes, vm/structure.rs), slots and    *)
(* the inline caches of OP_GET_BY_ID and OP_PUT_BY_ID                      *)
(* (vm/interpreter.rs): the implementation of Objects.                     *)
(*                                                                         *)
(* A structure says which slot of an object holds which property.  Shared  *)
(* structures form a tree of transitions, each adding one property to its  *)
(* previous one; the table of all properties is built when it is first     *)
(* needed.  A unique structure belongs to one object.  It changes in       *)
(* place when a property is added, and is replaced by another unique       *)
(* structure over the same table when one is deleted or redefined.         *)
(*                                                                         *)
(* One access site of each kind is modelled per name; puts that reach an   *)
(* object by other ways (built-ins, other sites) use no cache.             *)
(***************************************************************************)
EXTENDS PropertyDescriptor, Integers, Sequences, FiniteSets, TLC

CONSTANTS
    Objects, Names, Descriptors, Constructors, Prototype, NoObject,
    NumStructures,  \* bound: structures alive at a time
    FirstCapacity,  \* slots of the smallest non-empty storage (8 in the code)
    Sites,          \* the names with cached access sites ({}: the feature
                    \* no-inline-caching)
    None, Hole

ASSUME StructuresAssumption ==
    /\ Constructors \subseteq Objects
    /\ Constructors # {} => Objects \subseteq Values /\ Prototype \in Names
    /\ Descriptors \subseteq Descriptor
    /\ NumStructures \in Nat /\ NumStructures >= 2
    /\ FirstCapacity \in Nat \ {0}
    /\ Sites \subseteq Names
    /\ NoObject \notin Values \cup {Undefined} \cup Objects

Structure == 1..NumStructures
empty_object_struct == 1
function_struct == 2

VARIABLES
    structure,      \* structure[s], or None when s is free
    table,          \* table[t]: the table first built for structure t
    transitions,    \* transitions[s]: weak references to the children of s
    object,
    get_ic,         \* get_ic[n]: the feedback of the site that gets n
    put_ic          \* put_ic[n]: the feedback of the site that puts n

vars == <<structure, table, transitions, object, get_ic, put_ic>>
caches == <<get_ic, put_ic>>

Attributes == [kind : {"data", "accessor"}, on : SUBSET Flags]
MapEntry == [offset : Nat, kind : {"data", "accessor"}, on : SUBSET Flags]
EmptyMap == [n \in {} |-> None]

\* The map m with k bound to v.
Bind(m, k, v) == [j \in DOMAIN m \cup {k} |-> IF j = k THEN v ELSE m[j]]

StructureRecord ==
    [unique : BOOLEAN, proto : Objects \cup {NoObject}, owner : Structure \cup {None},
     deleted : Seq(Nat), added : [name : Names, entry : MapEntry] \cup {None},
     previous : Structure \cup {None}, size : Nat]

\* The feedback of a get site; that of a put site has no mode.
GetEntry == [mode : {"Default", "ProtoLoad"}, structure : Structure, offset : Nat]
PutEntry == [structure : Structure, offset : Nat]

\* None, Hole and NoObject are none of the values in whose place they stand.
ASSUME MarksAssumption ==
    /\ None \notin Structure \cup StructureRecord \cup GetEntry \cup PutEntry
    /\ None \notin [name : Names, entry : MapEntry]
    /\ Hole \notin Values \cup {Undefined} \cup Accessor
    /\ NoObject \notin [proto : Objects \cup {NoObject}, extensible : BOOLEAN,
                       props : UNION {[N -> StoredSlot] : N \in SUBSET Names}]

\* A structure without a previous one and without properties
\* (Structure::new_indexed, new_unique_indexed).
Root(unique, proto) ==
    [unique |-> unique, proto |-> proto, owner |-> None, deleted |-> <<>>,
     added |-> None, previous |-> None, size |-> 0]

\* An object that is not created yet.
Absent == [structure |-> None, extensible |-> TRUE, construct_struct |-> None, slots |-> <<>>]

Init ==
    /\ structure = [s \in Structure |->
            IF s \in {empty_object_struct, function_struct}
            THEN Root(FALSE, NoObject) ELSE None]
    /\ table = [s \in Structure |-> EmptyMap]
    /\ transitions = [s \in Structure |-> EmptyMap]
    /\ object = [o \in Objects |-> Absent]
    /\ get_ic = [n \in Names |-> None]
    /\ put_ic = [n \in Names |-> None]

Exists(o) == object[o].structure # None
Available(v) == v \in Objects => Exists(v)
Attrs(x) == [kind |-> x.kind, on |-> x.on]

-----------------------------------------------------------------------------
(* Operators on the structure heap h = [st, tb, tr].                        *)

heap == [st |-> structure, tb |-> table, tr |-> transitions]

SetHeap(h) == structure' = h.st /\ table' = h.tb /\ transitions' = h.tr

AliveIn(h) == {s \in Structure : h.st[s] # None}

\* The properties of structure s: its table, or what allocate_table collects
\* from the structures before it.
Entries(h, s) ==
    LET E[t \in Structure] ==
            IF h.st[t] = None THEN EmptyMap
            ELSE IF h.st[t].owner # None THEN h.tb[h.st[t].owner]
            ELSE IF h.st[t].previous = None THEN EmptyMap
            ELSE IF h.st[t].added = None THEN E[h.st[t].previous]
            ELSE Bind(E[h.st[t].previous], h.st[t].added.name, h.st[t].added.entry)
    IN  E[s]

\* Structure::allocate_table, of each structure in S.
AllocateTables(h, S) ==
    [h EXCEPT
      !.st = [s \in Structure |-> IF s \in S THEN [@[s] EXCEPT !.owner = s, !.previous = None]
                                  ELSE @[s]],
      !.tb = [s \in Structure |-> IF s \in S THEN Entries(h, s) ELSE @[s]]]

AllocateTable(h, s) == AllocateTables(h, {s})

\* Structure::get builds the table, unless it has one, there is nothing to
\* collect, or n is the property that s adds.
NeedsTable(h, s, n) ==
    /\ h.st[s].owner = None
    /\ h.st[s].previous # None
    /\ h.st[s].added = None \/ h.st[s].added.name # n

\* The heap after n was looked up in the structures S.
Looked(h, S, n) == AllocateTables(h, {s \in S : NeedsTable(h, s, n)})

\* Structure::get_slots_size.
SlotsSize(h, s) ==
    IF h.st[s].owner # None
    THEN Cardinality(DOMAIN h.tb[h.st[s].owner]) + Len(h.st[s].deleted)
    ELSE h.st[s].size

\* The least power of two that is not below n.
clp2[n \in Nat] == IF n <= 1 THEN 1 ELSE 2 * clp2[(n + 1) \div 2]

\* Structure::storage_capacity.
Capacity(h, s) ==
    LET n == SlotsSize(h, s) IN
    IF n = 0 THEN 0 ELSE IF n < FirstCapacity THEN FirstCapacity ELSE clp2[n]

\* The next structure to be allocated.
HasFresh(h) == \E i \in Structure : h.st[i] = None
Fresh(h) == CHOOSE i \in Structure :
                h.st[i] = None /\ \A j \in Structure : h.st[j] = None => i <= j

\* Structure::new_unique.  A structure that has its table has no use for
\* previous, and the model drops it then.
NewUnique(h, s, i) ==
    LET shared == h.st[s].unique /\ h.st[s].owner # None IN
    [h EXCEPT !.st[i] =
        [unique |-> TRUE, proto |-> h.st[s].proto,
         owner |-> IF shared THEN h.st[s].owner ELSE None,
         deleted |-> h.st[s].deleted, added |-> None,
         previous |-> IF shared THEN None ELSE s,
         size |-> SlotsSize(h, s)]]

WithTable(h, s) == IF h.st[s].owner # None THEN h ELSE AllocateTable(h, s)

\* Structure::change_attributes_transition, to the unique structure i.
ChangeAttributes(h, s, i, n, attrs) ==
    LET g == WithTable(NewUnique(h, s, i), i) IN
    [g EXCEPT !.tb[g.st[i].owner][n] = [offset |-> @.offset, kind |-> attrs.kind, on |-> attrs.on]]

\* Mutant of DeleteProperty: the offset is not recorded as deleted.
DeleteProperty_ForgetsOffset(h, s, i, n) ==
    LET g == WithTable(NewUnique(h, s, i), i) IN
    [g EXCEPT !.tb[g.st[i].owner] = [m \in DOMAIN @ \ {n} |-> @[m]]]

\* Structure::delete_property_transition, to the unique structure i.
DeleteProperty(h, s, i, n) ==
    LET g == WithTable(NewUnique(h, s, i), i)
        t == g.tb[g.st[i].owner]
    IN  [g EXCEPT !.tb[g.st[i].owner] = [m \in DOMAIN @ \ {n} |-> @[m]],
                  !.st[i].deleted = <<t[n].offset>> \o @]

\* The slot that a new property gets.
NextOffset(h, s) ==
    IF h.st[s].deleted # <<>> THEN Head(h.st[s].deleted) ELSE SlotsSize(h, s)

Entry(offset, attrs) == [offset |-> offset, kind |-> attrs.kind, on |-> attrs.on]

\* add_property_transition of a unique structure: in place.
AddInPlace(h, s, n, attrs) ==
    LET g == WithTable(h, s) IN
    [g EXCEPT !.tb[g.st[s].owner] = Bind(@, n, Entry(NextOffset(g, s), attrs)),
              !.st[s].deleted = IF @ = <<>> THEN @ ELSE Tail(@)]

\* Structure::new for a transition that does not exist yet.
AddChild(h, s, i, n, attrs) ==
    [h EXCEPT
      !.st[i] = [unique |-> FALSE, proto |-> h.st[s].proto, owner |-> None,
                 deleted |-> <<>>,
                 added |-> [name |-> n, entry |-> Entry(NextOffset(h, s), attrs)],
                 previous |-> s, size |-> SlotsSize(h, s) + 1],
      !.tr[s] = Bind(@, <<n, attrs>>, i)]

\* Mutant of Transition: the attributes are left out of the transition key.
Transition_ByName(h, s, n, attrs) ==
    LET K == {k \in DOMAIN h.tr[s] : k[1] = n} IN
    IF K = {} THEN None ELSE h.tr[s][CHOOSE k \in K : TRUE]

\* TransitionsTable::find.
Transition(h, s, n, attrs) ==
    IF <<n, attrs>> \in DOMAIN h.tr[s] THEN h.tr[s][<<n, attrs>>] ELSE None

\* Structure::add_property_transition: the heap, and the structure to which an
\* object of structure s moves.
NeedsChild(h, s, n, attrs) == ~h.st[s].unique /\ Transition(h, s, n, attrs) = None

AddProperty(h, s, n, attrs) ==
    IF h.st[s].unique THEN [heap |-> AddInPlace(h, s, n, attrs), to |-> s]
    ELSE IF NeedsChild(h, s, n, attrs)
         THEN [heap |-> AddChild(h, s, Fresh(h), n, attrs), to |-> Fresh(h)]
         ELSE [heap |-> h, to |-> Transition(h, s, n, attrs)]

-----------------------------------------------------------------------------
(* Objects.                                                                 *)

EntriesOf(h, o) == Entries(h, object[o].structure)
HasOwn(h, o, n) == n \in DOMAIN EntriesOf(h, o)

\* The property of the map entry e, in the given slots.
InSlot(e, slots) == [kind |-> e.kind, on |-> e.on, value |-> slots[e.offset]]

\* The own property n of o.
Slot(h, o, n) ==
    InSlot(EntriesOf(h, o)[n], object[o].slots)

\* Slots resized to capacity c, with v at offset k.
Stored(slots, c, k, v) ==
    [j \in 0..(c - 1) |-> IF j = k THEN v ELSE IF j \in DOMAIN slots THEN slots[j] ELSE Hole]

\* A new object of structure s.
New(h, s) ==
    [structure |-> s, extensible |-> TRUE, construct_struct |-> None,
     slots |-> [j \in 0..(Capacity(h, s) - 1) |-> Hole]]

\* The objects that a lookup of n from o visits, and where it ends.
Holder(h, o, n) ==
    LET H[q \in Objects] ==
            IF ~Exists(q) THEN NoObject
            ELSE IF HasOwn(h, q, n) THEN q
            ELSE LET p == h.st[object[q].structure].proto IN
                 IF p = NoObject THEN NoObject ELSE H[p]
    IN  H[o]

Visited(h, o, n) ==
    LET V[q \in Objects] ==
            IF ~Exists(q) THEN {}
            ELSE LET p == h.st[object[q].structure].proto IN
                 IF HasOwn(h, q, n) \/ p = NoObject THEN {q} ELSE {q} \cup V[p]
    IN  {object[q].structure : q \in V[o]}

\* The property that a lookup of n from o finds: get_own_non_indexed_property_slot
\* on the way looks n up in each structure.
LookedUp(o, n) == Looked(heap, Visited(heap, o, n), n)
LookedUpOwn(o, n) == Looked(heap, {object[o].structure}, n)

\* Mutant of ResetsConstructMap: the override in JsFunction is missing.
ResetsConstructMap_Never(o, n) == FALSE

\* JsFunction::DefineOwnNonIndexedPropertySlotMethod, "prototype override".
ResetsConstructMap(o, n) == o \in Constructors /\ n = Prototype

WithConstructMap(x, o, n) ==
    IF ResetsConstructMap(o, n) THEN [x EXCEPT !.construct_struct = None] ELSE x

\* JsObject::DefineOwnNonIndexedPropertySlotMethod on the heap h after the
\* lookups: the property exists and d is merged into it.
Redefine(h, o, n, d) ==
    LET x == object[o]
        s == x.structure
        t == Merge(Slot(h, o, n), d)
        moves == Attrs(t) # Attrs(Slot(h, o, n))
        k == EntriesOf(h, o)[n].offset
    IN  /\ HasOwn(h, o, n)
        /\ Verdict(Slot(h, o, n), d) = "merge"
        /\ moves => HasFresh(h)
        /\ SetHeap(IF moves THEN ChangeAttributes(h, s, Fresh(h), n, Attrs(t)) ELSE h)
        /\ object' = [object EXCEPT ![o] = WithConstructMap(
                [x EXCEPT !.structure = IF moves THEN Fresh(h) ELSE s, !.slots[k] = t.value],
                o, n)]

\* ... it does not exist, and o is extensible.
AddOwn(h, o, n, d) ==
    LET x == object[o]
        t == NewSlot(d)
        a == AddProperty(h, x.structure, n, Attrs(t))
        k == Entries(a.heap, a.to)[n].offset
    IN  /\ ~HasOwn(h, o, n) /\ x.extensible
        /\ NeedsChild(h, x.structure, n, Attrs(t)) => HasFresh(h)
        /\ SetHeap(a.heap)
        /\ object' = [object EXCEPT ![o] = WithConstructMap(
                [x EXCEPT !.structure = a.to,
                          !.slots = Stored(@, Capacity(a.heap, a.to), k, t.value)],
                o, n)]

\* ... it is refused, or is to have no effect.
Ignore(h, o, n, d) ==
    /\ IF HasOwn(h, o, n) THEN Verdict(Slot(h, o, n), d) # "merge"
                          ELSE ~object[o].extensible
    /\ SetHeap(h)
    /\ object' = [object EXCEPT ![o] = WithConstructMap(@, o, n)]

\* Object.defineProperty.
DefineOwn(o, n, d) ==
    LET h == LookedUpOwn(o, n) IN
    /\ Exists(o) /\ Available(d.value)
    /\ Redefine(h, o, n, d) \/ AddOwn(h, o, n, d) \/ Ignore(h, o, n, d)
    /\ UNCHANGED caches

\* JsObject::new_empty.
NewObject(o) ==
    /\ o \notin Constructors /\ ~Exists(o)
    /\ object' = [object EXCEPT ![o] = New(heap, empty_object_struct)]
    /\ UNCHANGED <<structure, table, transitions, caches>>

\* Object.create: every object gets a unique structure of its own.
ObjectCreate(o, p) ==
    LET h == [heap EXCEPT !.st[Fresh(heap)] = Root(TRUE, p)] IN
    /\ o \notin Constructors /\ ~Exists(o) /\ Exists(p)
    /\ HasFresh(heap)
    /\ SetHeap(h)
    /\ object' = [object EXCEPT ![o] = New(h, Fresh(heap))]
    /\ UNCHANGED caches

\* JsVMFunction::new.
NewFunction(f, p) ==
    LET attrs == [kind |-> "data", on |-> {"W"}]
        a == AddProperty(heap, function_struct, Prototype, attrs)
    IN  /\ f \in Constructors /\ ~Exists(f)
        /\ p \notin Constructors /\ ~Exists(p)
        /\ NeedsChild(heap, function_struct, Prototype, attrs) => HasFresh(heap)
        /\ SetHeap(a.heap)
        /\ object' = [object EXCEPT
             ![p] = New(heap, empty_object_struct),
             ![f] = [structure |-> a.to, extensible |-> TRUE, construct_struct |-> None,
                     slots |-> Stored(<<>>, Capacity(a.heap, a.to),
                                      Entries(a.heap, a.to)[Prototype].offset, p)]]
        /\ UNCHANGED caches

\* OP_NEW: func_construct_map remembers the structure it makes for the
\* instances of f until the prototype property is redefined.
Construct(o, f) ==
    LET h == LookedUpOwn(f, Prototype)
        v == Slot(h, f, Prototype).value
        known == object[f].construct_struct # None
        i == IF known THEN object[f].construct_struct ELSE Fresh(h)
        g == IF known THEN heap
             ELSE [h EXCEPT !.st[i] = Root(FALSE, IF v \in Objects THEN v ELSE NoObject)]
    IN  /\ f \in Constructors /\ Exists(f)
        /\ o \notin Constructors /\ ~Exists(o)
        /\ ~known => HasFresh(h)
        /\ SetHeap(g)
        /\ object' = [object EXCEPT ![f].construct_struct = i, ![o] = New(g, i)]
        /\ UNCHANGED caches

\* JsObject::DeleteNonIndexedMethod.
Delete(o, n) ==
    LET h == LookedUpOwn(o, n) IN
    /\ Exists(o)
    /\ HasOwn(h, o, n) /\ "C" \in Slot(h, o, n).on
    /\ HasFresh(h)
    /\ SetHeap(DeleteProperty(h, object[o].structure, Fresh(h), n))
    /\ object' = [object EXCEPT
         ![o].structure = Fresh(h), ![o].slots[EntriesOf(h, o)[n].offset] = Hole]
    /\ UNCHANGED caches

\* JsObject::change_extensible.
PreventExtensions(o) ==
    /\ Exists(o)
    /\ HasFresh(heap)
    /\ SetHeap(NewUnique(heap, object[o].structure, Fresh(heap)))
    /\ object' = [object EXCEPT ![o].structure = Fresh(heap), ![o].extensible = FALSE]
    /\ UNCHANGED caches

\* Without the flags fs in any entry of the map m, or of the table of s.
Unset(m, fs) == [n \in DOMAIN m |-> [m[n] EXCEPT !.on = @ \ fs]]
Restricted(h, s, fs) == [h EXCEPT !.tb[h.st[s].owner] = Unset(@, fs)]

\* JsObject::seal and freeze: one definition per property and
\* change_extensible.  Of the unique structures made on the way only the last
\* one is represented.
SetIntegrity(o, fs) ==
    LET s == object[o].structure
        h == IF heap.st[s].owner = None /\ heap.st[s].previous # None
             THEN AllocateTable(heap, s) ELSE heap
        i == Fresh(h)
        changes == \E n \in DOMAIN EntriesOf(h, o) : EntriesOf(h, o)[n].on \cap fs # {}
        g == NewUnique(h, s, i)
    IN  /\ Exists(o)
        /\ HasFresh(h)
        /\ SetHeap(IF changes THEN Restricted(WithTable(g, i), i, fs) ELSE g)
        /\ object' = [object EXCEPT
             ![o] = IF Prototype \in DOMAIN EntriesOf(h, o)
                    THEN WithConstructMap([@ EXCEPT !.structure = i, !.extensible = FALSE],
                                          o, Prototype)
                    ELSE [@ EXCEPT !.structure = i, !.extensible = FALSE]]
        /\ UNCHANGED caches

-----------------------------------------------------------------------------
(* The access sites.                                                        *)

GetHits(o, n) ==
    get_ic[n] # None /\ get_ic[n].mode = "Default"
    /\ get_ic[n].structure = object[o].structure

\* Mutant of GetFeedback: also a property that was found on the prototype is
\* cached as an own one of the object.
GetFeedback_OwnStructure(h, o, n) ==
    LET b == Holder(h, o, n) IN
    IF Slot(h, b, n).kind # "data" THEN get_ic[n]
    ELSE [mode |-> "Default", structure |-> object[o].structure,
          offset |-> EntriesOf(h, b)[n].offset]

\* What slow_get_by_id leaves in the site.  A property of the direct prototype
\* is recorded with a mode that never hits; one from further up with the
\* structure of the object that has it.
GetFeedback(h, o, n) ==
    LET b == Holder(h, o, n)
        direct == b = h.st[object[o].structure].proto
    IN  IF Slot(h, b, n).kind # "data" THEN get_ic[n]
        ELSE [mode |-> IF direct THEN "ProtoLoad" ELSE "Default",
              structure |-> IF direct THEN object[o].structure ELSE object[b].structure,
              offset |-> EntriesOf(h, b)[n].offset]

\* OP_GET_BY_ID that misses the cache.  (A hit changes nothing.)
GetById(o, n) ==
    LET h == LookedUp(o, n) IN
    /\ Exists(o)
    /\ ~GetHits(o, n)
    /\ SetHeap(h)
    /\ get_ic' = IF n \in Sites /\ Holder(h, o, n) # NoObject
                 THEN [get_ic EXCEPT ![n] = GetFeedback(h, o, n)] ELSE get_ic
    /\ UNCHANGED <<object, put_ic>>

PutHits(o, n) == put_ic[n] # None /\ put_ic[n].structure = object[o].structure

\* OP_PUT_BY_ID that hits the cache writes the slot and nothing else.
PutCached(o, n, v) ==
    /\ Exists(o) /\ Available(v)
    /\ PutHits(o, n)
    /\ object' = [object EXCEPT ![o].slots[put_ic[n].offset] = v]
    /\ UNCHANGED <<structure, table, transitions, caches>>

\* JsObject::can_put_non_indexed, and the property found is not an accessor.
CanPut(h, o, n) ==
    LET b == Holder(h, o, n) IN
    IF b = NoObject THEN object[o].extensible
    ELSE Slot(h, b, n).kind = "data" /\ "W" \in Slot(h, b, n).on

\* The site remembers where o has n now (put_by_id_slow, PutResultType::Replace).
Remember(site, o, n) ==
    put_ic' = IF site /\ n \in Sites
              THEN [put_ic EXCEPT ![n] = [structure |-> object'[o].structure,
                                          offset |-> EntriesOf(heap, o)[n].offset]]
              ELSE put_ic

\* JsObject::PutNonIndexedSlotMethod, from put_by_id_slow when site is TRUE.
PutSlow(o, n, v, site) ==
    LET h == LookedUp(o, n)
        d == IF HasOwn(h, o, n) THEN ValueDescriptor(v) ELSE DataDescriptor(v, Flags)
    IN  /\ Exists(o) /\ Available(v)
        /\ site => ~PutHits(o, n)
        /\ \/ /\ CanPut(h, o, n)
              /\ \/ Redefine(h, o, n, d) /\ Remember(site, o, n)
                 \/ (AddOwn(h, o, n, d) \/ Ignore(h, o, n, d)) /\ UNCHANGED put_ic
           \/ /\ ~CanPut(h, o, n)
              /\ SetHeap(h)
              /\ UNCHANGED <<object, put_ic>>
        /\ UNCHANGED get_ic

-----------------------------------------------------------------------------
\* Structures that a collection keeps: CodeBlock::trace and JsFunction::trace
\* mark the caches.  A structure is also kept in the model while the table
\* named after it is.
Held ==
    LET K[s \in AliveIn(heap)] ==
            {s} \cup (IF structure[s].owner = None THEN {} ELSE {structure[s].owner})
                \cup (IF structure[s].previous = None THEN {} ELSE K[structure[s].previous])
        roots == {empty_object_struct, function_struct}
                 \cup {object[o].structure : o \in {q \in Objects : Exists(q)}}
                 \cup {object[o].construct_struct : o \in {q \in Objects :
                            Exists(q) /\ object[q].construct_struct # None}}
                 \cup {get_ic[n].structure : n \in {m \in Names : get_ic[m] # None}}
                 \cup {put_ic[n].structure : n \in {m \in Names : put_ic[m] # None}}
    IN  UNION {K[s] : s \in roots}

\* A collection: unreachable structures are freed, the weak references of
\* transitions to them cleared.  Objects are taken to be reachable.
Collect ==
    /\ structure' = [s \in Structure |-> IF s \in Held THEN structure[s] ELSE None]
    /\ table' = [s \in Structure |-> IF s \in Held THEN table[s] ELSE EmptyMap]
    /\ transitions' = [s \in Structure |->
            IF s \notin Held THEN EmptyMap
            ELSE LET K == {k \in DOMAIN transitions[s] : transitions[s][k] \in Held}
                 IN  [k \in K |-> transitions[s][k]]]
    /\ UNCHANGED <<object, caches>>

Next ==
    \/ \E o \in Objects : NewObject(o)
    \/ \E o, p \in Objects :
        ObjectCreate(o, p) \/ NewFunction(o, p) \/ Construct(o, p)
    \/ \E o \in Objects, n \in Names :
        \/ \E d \in Descriptors : DefineOwn(o, n, d)
        \/ Delete(o, n)
        \/ GetById(o, n)
        \/ \E v \in Values : PutCached(o, n, v) \/ PutSlow(o, n, v, TRUE)
                                                \/ PutSlow(o, n, v, FALSE)
    \/ \E o \in Objects :
        PreventExtensions(o) \/ SetIntegrity(o, {"C"}) \/ SetIntegrity(o, {"W", "C"})
    \/ Collect

Spec == Init /\ [][Next]_vars

-----------------------------------------------------------------------------
Alive == AliveIn(heap)

\* The types of the structures, objects and feedback entries; no reference to a
\* structure dangles after a collection, those of transitions included.
TypeOK ==
    /\ \A s \in Alive :
        /\ structure[s].unique \in BOOLEAN
        /\ structure[s].proto \in Objects \cup {NoObject}
        /\ {structure[s].owner, structure[s].previous} \subseteq Alive \cup {None}
        /\ structure[s].deleted \in Seq(Nat)
        /\ structure[s].size \in Nat
    /\ \A s \in Structure : \A n \in DOMAIN table[s] :
        n \in Names /\ table[s][n] \in MapEntry
    /\ \A s \in Structure : \A k \in DOMAIN transitions[s] :
        k \in Names \X Attributes /\ transitions[s][k] \in Alive
    /\ \A o \in Objects : Exists(o) =>
        /\ object[o].structure \in Alive
        /\ object[o].extensible \in BOOLEAN
        /\ object[o].construct_struct \in Alive \cup {None}
    /\ \A n \in Names : \A site \in {get_ic[n], put_ic[n]} :
        site # None => site.structure \in Alive

\* What the engine relies on when it changes a structure in place: a unique
\* structure, and a table that a unique structure has, belongs to one object.
\* The table of a shared structure is never that of a unique one.
\* (Structure::ctor hands the table on only from a unique structure.)
UniqueOwned ==
    \A o, p \in Objects : Exists(o) /\ Exists(p) /\ o # p =>
        LET s == object[o].structure
            t == object[p].structure
        IN  structure[s].unique =>
                s # t /\ (structure[s].owner # None => structure[s].owner # structure[t].owner)

\* The slots of an object: every property has one within the storage, no two
\* properties share one, and no deleted offset that will be handed out again
\* is in use (get_slots_size, add_property_transition, resize).
SlotsDisjoint ==
    \A o \in {q \in Objects : Exists(q)} :
        LET E == EntriesOf(heap, o)
            deleted == structure[object[o].structure].deleted
        IN  /\ \A n \in DOMAIN E : /\ E[n].offset \in DOMAIN object[o].slots
                                   /\ object[o].slots[E[n].offset] # Hole
            /\ \A m, n \in DOMAIN E : E[m].offset = E[n].offset => m = n
            /\ \A k \in DOMAIN deleted : \A n \in DOMAIN E : E[n].offset # deleted[k]
            /\ SlotsSize(heap, object[o].structure) = Cardinality(DOMAIN E) + Len(deleted)

\* What structures and objects are to each other between any two operations:
\* no dangling reference, one object for a unique structure, one slot for a name.
StructuresSound == TypeOK /\ UniqueOwned /\ SlotsDisjoint

\* Whatever happened since an access site was filled, when it hits it reads the
\* slot of the object's own data property of that name, or writes that of an own
\* writable one: deletions, redefinitions, freezes and in-place additions change
\* the structure of every object for which the entry is no longer right.
CachesCoherent ==
    \A o \in {q \in Objects : Exists(q)}, n \in Names :
        LET E == EntriesOf(heap, o) IN
        /\ GetHits(o, n) =>
            n \in DOMAIN E /\ E[n].kind = "data" /\ E[n].offset = get_ic[n].offset
        /\ PutHits(o, n) =>
            /\ n \in DOMAIN E /\ E[n].kind = "data" /\ "W" \in E[n].on
            /\ E[n].offset = put_ic[n].offset

\* What func_construct_map remembers for f is not for the prototype property that
\* f has now.
Stale(f) ==
    /\ Exists(f) /\ object[f].construct_struct # None
    /\ LET v == Slot(heap, f, Prototype).value IN
        structure[object[f].construct_struct].proto # (IF v \in Objects THEN v ELSE NoObject)

\* Only a put that hits its cache can leave a function with what it remembered
\* for another prototype: every definition of the property, "prototype override"
\* in vm/function.rs, and no other operation or collection, resets it.
ConstructMapCurrent ==
    [][\A f \in Constructors :
          Stale(f)' => Stale(f) \/ \E v \in Values : PutCached(f, Prototype, v)]_vars

\* The objects as a program sees them.
Seen ==
    [o \in Objects |->
        IF ~Exists(o) THEN NoObject
        ELSE LET E == EntriesOf(heap, o) IN
             [proto |-> structure[object[o].structure].proto,
              extensible |-> object[o].extensible,
              props |-> [n \in DOMAIN E |-> InSlot(E[n], object[o].slots)]]]

Abstract == INSTANCE Objects WITH object <- Seen

\* Structures, slots, transitions, tables, the collector and both caches
\* together are invisible: every step is a step of Objects or none, and a
\* function makes its instances with the prototype that it has now, unless it is
\* stale.
ImplementsObjects ==
    /\ Abstract!Init
    /\ [][UNCHANGED Seen \/ Abstract!Next]_vars
    /\ [][\A o, f \in Objects : Construct(o, f) => Abstract!Construct(o, f) \/ Stale(f)]_vars
=============================================================================
