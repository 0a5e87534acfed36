--------------------------- MODULE IndexedElements ---------------------------
(***************************************************************************)
(* The elements of a JavaScript object (vm/indexed_elements.rs,            *)
(* vm/array_storage.rs, the indexed operations of vm/object.rs and the     *)
(* length of vm/array.rs).                                                 *)
(*                                                                         *)
(* An object keeps its elements in a vector of values, whose properties    *)
(* are all plain, or in a map from indices to stored properties.  "dense"  *)
(* says which of the two counts for the indices below MAX_VECTOR_SIZE;     *)
(* the map holds the larger ones in either case.  Operations switch        *)
(* between the two, and nothing but their code keeps them apart.           *)
(***************************************************************************)
EXTENDS PropertyDescriptor, Integers, SequencesExt

CONSTANTS
    Empty,          \* the value of a cell that holds no element
    MaxVector,      \* MAX_VECTOR_SIZE
    MaxU32,         \* u32::MAX
    SparseStep      \* what set_length deletes one index at a time, 1 << 24

ASSUME WidthAssumption ==
    /\ MaxVector \in Nat \ {0} /\ MaxU32 \in Nat /\ MaxVector < MaxU32
    /\ SparseStep \in Nat \ {0, 1}

ASSUME EmptyAssumption == Empty \notin Values \cup {Undefined}

Index == 0..MaxU32
NoElements == [i \in {} |-> Empty]
PlainSlot(v) == [kind |-> "data", on |-> Flags, value |-> v]
NotFound == [kind |-> "none", on |-> {}, value |-> Undefined]

\* JsArray::new(n): an array of n holes; its structure is an indexed one.
NewArray(n) ==
    [dense |-> TRUE, writable |-> TRUE, extensible |-> TRUE, indexed |-> TRUE,
     vector |-> <<>>, map |-> NoElements, length |-> n]

\* Array.prototype, an ordinary object whose structure is not indexed yet.
NewPrototype == [NewArray(0) EXCEPT !.indexed = FALSE]

\* What an operation leaves and what its caller sees.
Outcome(o, r) == [object |-> o, result |-> r]
Refused(o, throwable) == Outcome(o, IF throwable THEN "TypeError" ELSE "refused")

\* ArrayStorage::resize: new cells are empty (the capacity, which grows to
\* twice its size or to n, cannot be seen).
Resize(v, n) == [k \in 1..n |-> IF k <= Len(v) THEN v[k] ELSE Empty]

Cell(o, i) == o.vector[i + 1]
InVector(o, i) == o.dense /\ i < Len(o.vector)
FilledCells(o) == {i \in 0..(Len(o.vector) - 1) : Cell(o, i) # Empty}

\* IndexedElements::make_sparse moves the filled cells to the map.
MakeSparse(o) ==
    [o EXCEPT !.dense = FALSE,
              !.vector = [k \in DOMAIN @ |-> Empty],
              !.map = [i \in DOMAIN @ \cup FilledCells(o) |->
                         IF i \in FilledCells(o) THEN PlainSlot(Cell(o, i)) ELSE @[i]]]

\* IndexedElements::make_dense drops the map, whatever it holds.
MakeDense(o) == [o EXCEPT !.dense = TRUE, !.map = NoElements]

-----------------------------------------------------------------------------
\* JsObject::GetOwnIndexedPropertySlotMethod.
GetOwn(o, i) ==
    IF InVector(o, i)
    THEN IF Cell(o, i) = Empty THEN NotFound ELSE PlainSlot(Cell(o, i))
    ELSE IF i \in DOMAIN o.map /\ i < o.length THEN o.map[i] ELSE NotFound

\* JsObject::GetIndexedPropertySlotMethod, along a chain of objects.
Lookup(chain, i) ==
    LET holders == {k \in DOMAIN chain : GetOwn(chain[k], i) # NotFound}
    IN IF holders = {} THEN NotFound ELSE GetOwn(chain[Min(holders)], i)

\* Slot::get; the accessors of this model have no getter.
ValueOf(s) == IF s.kind = "data" THEN s.value ELSE Undefined
Get(chain, i) == ValueOf(Lookup(chain, i))

\* JsObject::has_indexed_property.
HasIndexed(chain) == \E k \in DOMAIN chain : chain[k].indexed

\* JsObject::can_put_indexed.
CanPut(chain, i) ==
    LET s == Lookup(chain, i) IN
    CASE s.kind = "accessor" -> s.value.set # Undefined
      [] s.kind = "data" -> "W" \in s.on
      [] OTHER -> chain[1].extensible

\* JsObject::define_own_indexe_value_dense_internal.
DefineDense(o, i, v) ==
    [o EXCEPT !.vector = [Resize(@, Max({i + 1, Len(@)})) EXCEPT ![i + 1] = v],
              !.indexed = @ \/ i >= Len(o.vector),
              !.length = Max({@, i + 1})]

\* AttrExternal::is_default.
IsDefault(d) == Kind(d) = "data" /\ d.on = Flags

\* is_absent_descriptor asks of a data descriptor that its writable be both
\* true and absent, which none is.
IsAbsent(d) == Kind(d) = "generic" /\ d.has \subseteq d.on

\* A map with one more entry.
Extended(m, i, s) == [k \in DOMAIN m \cup {i} |-> IF k = i THEN s ELSE m[k]]

\* define_own_indexed_property_internal, where it has turned to the map.  The
\* length after the last index wraps to zero.
DefineInMap(o, i, d, throwable) ==
    IF i \in DOMAIN o.map
    THEN LET verdict == Verdict(o.map[i], d) IN
         IF verdict = "reject" THEN Refused(o, throwable)
         ELSE Outcome(IF verdict = "keep" THEN o
                      ELSE [o EXCEPT !.map[i] = Merge(@, d)], "ok")
    ELSE IF ~o.extensible THEN Refused(o, throwable)
    ELSE Outcome([o EXCEPT !.indexed = TRUE,
                           !.length = IF i < @ THEN @ ELSE (i + 1) % (MaxU32 + 1),
                           !.map = Extended(@, i, NewSlot(d))], "ok")

\* JsObject::define_own_indexed_property_internal.  A dense object takes any
\* plain element below MAX_VECTOR_SIZE, extensible or not, and one without a
\* value makes the element undefined.
Define(o, i, d, throwable) ==
    IF i >= o.length /\ ~o.writable THEN Refused(o, throwable)
    ELSE IF o.dense /\ IsDefault(d) /\ i < MaxVector
    THEN Outcome(DefineDense(o, i, IF "value" \in d.has THEN d.value ELSE Undefined), "ok")
    ELSE IF InVector(o, i) /\ Cell(o, i) # Empty /\ IsAbsent(d) THEN Outcome(o, "ok")
    ELSE DefineInMap(IF o.dense /\ ~IsDefault(d) /\ i < MaxVector THEN MakeSparse(o) ELSE o,
                     i, d, throwable)

\* Mutant of Put: the fast path does not ask for an indexed prototype.
Put_AlwaysFast(o, above, i, v, throwable) ==
    IF i < MaxVector /\ o.dense
    THEN Outcome(DefineDense(o, i, v), "ok")
    ELSE Define(o, i, DataDescriptor(v, Flags), throwable)

\* JsObject::PutIndexedSlotMethod, of an object whose prototypes are "above".
\* The fast path, which looks at no prototype, is the one for objects that do
\* have a prototype with elements.
Put(o, above, i, v, throwable) ==
    LET s == Lookup(<<o>> \o above, i) IN
    IF i < MaxVector /\ o.dense /\ (above = <<>> \/ HasIndexed(above))
    THEN Outcome(DefineDense(o, i, v), "ok")
    ELSE IF ~CanPut(<<o>> \o above, i) THEN Refused(o, throwable)
    ELSE IF s.kind = "accessor" THEN Outcome(o, "called")
    ELSE IF GetOwn(o, i).kind = "data" THEN Define(o, i, ValueDescriptor(v), throwable)
    ELSE Define(o, i, DataDescriptor(v, Flags), throwable)

\* The interpreter's OP_PUT_BY_VAL writes an existing cell at once.
PutByVal(o, above, i, v, throwable) ==
    IF InVector(o, i) THEN Outcome([o EXCEPT !.vector[i + 1] = v], "ok")
    ELSE Put(o, above, i, v, throwable)

\* OP_PUT_BY_VAL of the key i + 1/2: it rounds the key down before it looks
\* for a cell; elsewhere the key names a property that is no element.
PutByFraction(o, i, v) ==
    Outcome(IF InVector(o, i) THEN [o EXCEPT !.vector[i + 1] = v] ELSE o, "ok")

\* The map without the indices D; a map that becomes empty makes the object
\* dense.
Without(o, D) ==
    LET kept == Restrict(o.map, DOMAIN o.map \ D) IN
    IF DOMAIN kept = {} /\ DOMAIN o.map # {} THEN MakeDense(o) ELSE [o EXCEPT !.map = kept]

\* JsObject::delete_indexed_internal.
Delete(o, i, throwable) ==
    IF i >= o.length THEN Outcome(o, "ok")
    ELSE IF InVector(o, i) THEN Outcome([o EXCEPT !.vector[i + 1] = Empty], "ok")
    ELSE IF i \notin DOMAIN o.map \/ (o.dense /\ i < MaxVector) THEN Outcome(o, "ok")
    ELSE IF "C" \notin o.map[i].on THEN Refused(o, throwable)
    ELSE Outcome(Without(o, {i}), "ok")

-----------------------------------------------------------------------------
(* The length of an array.                                                 *)

Fixed(o, I) == {i \in I \cap DOMAIN o.map : "C" \notin o.map[i].on}

\* Mutant of ShrinkDense: the vector keeps the cells above the length.
ShrinkDense_KeepsCells(o, n) ==
    IF n <= MaxVector THEN [MakeDense(o) EXCEPT !.length = n]
    ELSE LET gone == IF \E i \in DOMAIN o.map : i < n THEN {} ELSE DOMAIN o.map
         IN [Without(o, gone) EXCEPT !.length = n]

\* set_length of a dense array.  Beyond MAX_VECTOR_SIZE it visits the keys of
\* the map from the smallest one up and stops at the first that may stay.
ShrinkDense(o, n) ==
    IF n <= MaxVector
    THEN [MakeDense(o) EXCEPT !.vector = Resize(@, Min({n, Len(@)})), !.length = n]
    ELSE LET gone == IF \E i \in DOMAIN o.map : i < n THEN {} ELSE DOMAIN o.map
         IN [Without(o, gone) EXCEPT !.length = n]

\* set_length of a sparse array, one index at a time from the end, up to an
\* element that cannot be deleted.
ShrinkSparse(o, n, throwable) ==
    LET fixed == Fixed(o, n..(o.length - 1))
        m == IF fixed = {} THEN n ELSE Max(fixed) + 1
        shrunk == [Without(o, m..(o.length - 1)) EXCEPT !.length = m]
    IN IF fixed = {} THEN Outcome(shrunk, "ok") ELSE Refused(shrunk, throwable)

\* Mutant of ShrinkFar: the element that stops it is deleted all the same.
ShrinkFar_DropsLast(o, n, throwable, gone, last) ==
    IF last = {} THEN Outcome([Without(o, gone) EXCEPT !.length = n], "ok")
    ELSE Refused([Without(o, gone \cup last) EXCEPT !.length = Max(last) + 1], throwable)

\* set_length of a sparse array by SparseStep or more: it deletes what its
\* property names list, in an order nobody fixes, whether the index is to stay
\* or not, up to an element that cannot be deleted.  "gone" are the indices
\* before "last" (a set of at most one) in that order.
ShrinkFar(o, n, throwable, gone, last) ==
    IF last = {} THEN Outcome([Without(o, gone) EXCEPT !.length = n], "ok")
    ELSE Refused([Without(o, gone) EXCEPT !.length = Max(last) + 1], throwable)

FarShrink(o, n) == ~o.dense /\ n < o.length /\ o.length - n >= SparseStep

\* What ShrinkFar may be asked.
Orders(o) ==
    LET seen == {i \in DOMAIN o.map : i < o.length}
        fixed == Fixed(o, seen)
    IN IF fixed = {} THEN {[gone |-> seen, last |-> {}]}
       ELSE {[gone |-> D, last |-> {k}] : D \in SUBSET (seen \ fixed), k \in fixed}

\* GcPointer<JsObject>::set_length.
SetLength(o, n, throwable, order) ==
    CASE n = MaxU32 -> Outcome(o, "RangeError")
      [] n # MaxU32 /\ n >= o.length -> Outcome([o EXCEPT !.length = n], "ok")
      [] n < o.length /\ o.dense -> Outcome(ShrinkDense(o, n), "ok")
      [] FarShrink(o, n) -> ShrinkFar(o, n, throwable, order.gone, order.last)
      [] OTHER -> ShrinkSparse(o, n, throwable)

\* GcPointer<JsObject>::change_length_writable.
ChangeLengthWritable(o, writable, throwable) ==
    IF ~writable THEN Outcome([o EXCEPT !.writable = FALSE], "ok")
    ELSE IF o.writable THEN Outcome(o, "ok") ELSE Refused(o, throwable)

\* GcPointer<JsObject>::define_length_property; a value that is no length is -1.
DefineLength(o, d, throwable, order) ==
    LET set == IF "value" \notin d.has \/ d.value = o.length THEN Outcome(o, "ok")
               ELSE IF d.value = -1 THEN Outcome(o, "TypeError")
               ELSE IF ~o.writable THEN Refused(o, throwable)
               ELSE SetLength(o, d.value, throwable, order)
    IN IF d.on \cap {"C", "E"} # {} \/ Kind(d) = "accessor" THEN Refused(o, throwable)
       ELSE IF "W" \notin d.has \/ set.result \in {"TypeError", "RangeError"}
               \/ (set.result = "refused" /\ ~o.writable) THEN set
       ELSE ChangeLengthWritable(set.object, "W" \in d.on, throwable)

-----------------------------------------------------------------------------
(* Object.freeze, seal and preventExtensions.                              *)

\* JsObject::change_extensible(false) always leaves a sparse object.
PreventExtensions(o) == MakeSparse([o EXCEPT !.extensible = FALSE])

\* JsObject::GetOwnPropertyNamesMethod: the cells of a dense object and every
\* key of the map.
OwnNames(o) == (IF o.dense THEN FilledCells(o) ELSE {}) \cup DOMAIN o.map

\* StoredSlot::to_descriptor without the flags "off".
Restricted(s, off) ==
    [has |-> IF s.kind = "data" THEN {"value", "W", "E", "C"} ELSE {"get", "set", "E", "C"},
     on |-> s.on \ off,
     value |-> IF s.kind = "data" THEN s.value ELSE Undefined,
     get |-> IF s.kind = "data" THEN Undefined ELSE s.value.get,
     set |-> IF s.kind = "data" THEN Undefined ELSE s.value.set]

\* JsObject::freeze and seal redefine length and every name they find, the
\* smallest one first, and unwrap the property of a name.
Redefine(x, i, off) ==
    IF x.result # "ok" THEN x
    ELSE IF GetOwn(x.object, i) = NotFound THEN Outcome(x.object, "panic")
    ELSE Define(x.object, i, Restricted(GetOwn(x.object, i), off), TRUE)

Integrity(o, off) ==
    LET locked == [o EXCEPT !.writable = @ /\ "W" \notin off]
        done == MapThenFoldSet(LAMBDA i, x : Redefine(x, i, off), Outcome(locked, "ok"),
                               LAMBDA i : i, LAMBDA names : Max(names), OwnNames(o))
    IN IF done.result = "ok" THEN Outcome(PreventExtensions(done.object), "ok") ELSE done

Freeze(o) == Integrity(o, {"W", "C"})
Seal(o) == Integrity(o, {"C"})

-----------------------------------------------------------------------------
(* What every operation takes for granted, and leaves so.                  *)

\* A stored property; the value of an accessor is an Accessor cell.
SoundSlot(s) ==
    /\ s \in [kind : {"data", "accessor"}, on : SUBSET Flags, value : {s.value}]
    /\ s.kind = "accessor" =>
          "W" \notin s.on /\ s.value \in [get : {s.value.get}, set : {s.value.set}]

\* The map of a dense object has no index for which the vector counts, the
\* vector of a sparse one no element: no element is in both, and none in the
\* one that nobody asks.
Sound(o) ==
    /\ o \in [dense : BOOLEAN, writable : BOOLEAN, extensible : BOOLEAN, indexed : BOOLEAN,
              vector : {o.vector}, map : {o.map}, length : Index]
    /\ o.vector \in Seq(Range(o.vector)) /\ Len(o.vector) <= MaxVector
    /\ o.map \in [DOMAIN o.map -> Range(o.map)]
    /\ DOMAIN o.map \subseteq Nat /\ IsFiniteSet(DOMAIN o.map)
    /\ \A i \in DOMAIN o.map : SoundSlot(o.map[i])
    /\ IF o.dense THEN \A i \in DOMAIN o.map : i >= MaxVector ELSE FilledCells(o) = {}
=============================================================================
