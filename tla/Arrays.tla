-------------------------------- MODULE Arrays --------------------------------
(***************************************************************************)
(* One array and its prototype, under every operation a program can apply  *)
(* to its elements, its length and its attributes.                         *)
(***************************************************************************)
EXTENDS EcmaArrays

CONSTANTS
    MaxItems,       \* the items of the array literal
    MaxWeight,      \* of an array that operations may lead to, see Weight
    Prototypes,     \* what there may be above an array, see above
    AllIndices,     \* indices that single operations name,
    SomeIndices,    \*   and those of operations that are explored further
    AllLengths,     \* lengths that are assigned
    SomeLengths,
    AllDescriptors, \* descriptors of Object.defineProperty
    SomeDescriptors,
    Comparators     \* what sort is called with

ASSUME BoundsAssumption ==
    /\ MaxItems \in Index
    /\ AllIndices \cup SomeIndices \subseteq Index
    /\ AllLengths \cup SomeLengths \subseteq Index \cup {-1}
    /\ AllDescriptors \cup SomeDescriptors \subseteq Descriptor

ASSUME PrototypesAssumption ==
    \A p \in Prototypes :
        /\ p \in Seq(Range(p))
        /\ \A k \in DOMAIN p : Sound(p[k]) /\ (p[k].indexed \/ OwnNames(p[k]) = {})

VARIABLES
    arr,            \* the array
    above           \* its prototypes: none, or Array.prototype as a program has made it

vars == <<arr, above>>
chain == <<arr>> \o above

\* Array.prototype, which arrays that methods create have in any case.
protos == IF above = <<>> THEN <<NewPrototype>> ELSE above

\* A literal of values, or new Array(n); Object.setPrototypeOf(a, null).
Init ==
    /\ \/ \E n \in 0..MaxItems : \E items \in [1..n -> Values \cup {Undefined}] :
            arr = Literal([k \in 1..n |-> <<items[k]>>], <<NewPrototype>>).object
       \/ \E n \in AllLengths \cap Index : arr = Ctor(n).object
    /\ above \in Prototypes

\* A bound on the states: elements that are not plain count twice.
Weight(o) == Cardinality(OwnNames(o)) + Cardinality({i \in DOMAIN o.map : o.map[i].on # Flags})
Small(o) == Weight(o) <= MaxWeight

\* Elements at or above the length, out of sight in the map and in sight in a
\* cell.
Stray(o) == {i \in OwnNames(o) : i >= o.length}

\* The operation leaves x, unless it took the process with it.  Arrays with
\* stray elements, of which the properties say nothing, are left alone.
Leads(x) ==
    /\ Stray(arr) = {} /\ x.result # "panic" /\ Small(x.object)
    /\ arr' = x.object /\ UNCHANGED above

-----------------------------------------------------------------------------
(* Primitive operations.                                                   *)

Assignments(indices) ==
    {[op |-> op, i |-> i, v |-> v, throwable |-> TRUE] :
        op \in {"put", "byval"}, i \in indices, v \in {Undefined, StringOrder[1]}}
    \cup {[op |-> "fraction", i |-> i, v |-> Undefined] : i \in indices}

\* A descriptor without a value is left out for an accessor: the property
\* would keep the accessor as its value (property_descriptor.rs:410).
Definitions(indices, descriptors) ==
    {[op |-> "define", i |-> p[1], d |-> p[2], throwable |-> TRUE] :
        p \in {q \in indices \X descriptors :
                  "value" \in q[2].has \/ Kind(q[2]) # "data"
                  \/ q[1] \notin DOMAIN arr.map \/ arr.map[q[1]].kind = "data"}}

Deletions(indices) == {DeleteAt(i, FALSE) : i \in indices}

\* a.length = n.
LengthAssignments(lengths) ==
    UNION {{[AssignLength(n, FALSE) EXCEPT !.order = order] :
              order \in IF FarShrink(arr, n) THEN Orders(arr) ELSE {NoOrder}} : n \in lengths}

\* Object.defineProperty of a length that becomes read-only, and of one with or
\* without writable.
LengthDefinitions ==
    {[op |-> "length", d |-> d, throwable |-> TRUE, order |-> NoOrder] :
        d \in {LengthDescriptor(Max({arr.length - 1, 0}), {"value", "W"}),
               LengthDescriptor(Undefined, {"W"}),
               [LengthDescriptor(Undefined, {"W"}) EXCEPT !.on = {"W"}]}}

Lengths(lengths) == LengthAssignments(lengths) \cup LengthDefinitions

Limits == {[op |-> op] : op \in {"freeze", "seal", "prevent extensions"}}

Primitives ==
    Assignments(AllIndices) \cup Definitions(AllIndices, AllDescriptors)
        \cup Deletions(AllIndices) \cup Lengths(AllLengths) \cup Limits

AssignElement == \E w \in Assignments(SomeIndices) : Leads(Step(arr, above, w))
DefineElement == \E w \in Definitions(SomeIndices, SomeDescriptors) : Leads(Step(arr, above, w))
DeleteElement == \E w \in Deletions(SomeIndices) : Leads(Step(arr, above, w))
DefineLengthOf == \E w \in Lengths(SomeLengths) : Leads(Step(arr, above, w))
LimitArray == \E w \in Limits : Leads(Step(arr, above, w))

\* A length beyond an i32.
Long(o) == o.length > MaxU32 \div 2

\* A method, what it does and what the reference does; i32 says that it reads or
\* writes the length as an i32.
Methods ==
    LET views == [k \in DOMAIN chain |-> View(chain[k])]
        Method(p, q, i32) == [code |-> p, ecma |-> q, i32 |-> i32]
    IN {Method(Push(arr, vs), EcmaPush(views[1], vs), FALSE) :
            vs \in {<<>>, <<Undefined>>, <<StringOrder[1], Undefined>>}}
       \cup {Method(Pop(arr), EcmaPop(views[1]), TRUE),
             Method(Shift(chain), EcmaShift(views), TRUE)}
       \cup {Method(Fill(arr, StringOrder[1], p[1], p[2]),
                    EcmaFill(views[1], StringOrder[1], p[1], p[2]), TRUE) :
                p \in {<<0, Undefined>>, <<-1, 1>>, <<1, -1>>}}

CallMethod == \E p \in Methods : Leads(Run(arr, above, p.code))
SortArray == \E c \in Comparators : Leads(Run(arr, above, Sort(chain, c)))

Next ==
    \/ AssignElement \/ DefineElement \/ DeleteElement \/ DefineLengthOf
    \/ LimitArray \/ CallMethod \/ SortArray

Spec == Init /\ [][Next]_vars

\* The type invariant: the vector and the map of an array never both count for
\* an index.
TypeOK == Sound(arr) /\ above \in Prototypes

-----------------------------------------------------------------------------
(* Properties.                                                             *)

\* The fast path of Put, and OP_PUT_BY_VAL, write a cell without a look at
\* what would refuse or take the value.
Unasked(o, w) ==
    LET unseen == Lookup(above, w.i) IN
    /\ w.i \notin DOMAIN View(o).props
    /\ \/ w.op = "byval" /\ InVector(o, w.i)
       \/ o.dense /\ w.i < MaxVector /\ (above = <<>> \/ HasIndexed(above))
    /\ \/ ~o.extensible \/ unseen.kind = "accessor" \/ (unseen.kind = "data" /\ "W" \notin unseen.on)
       \/ w.i >= o.length /\ (~o.writable \/ InVector(o, w.i))

\* Shrinking looks at no attributes in a dense array, whose map may hold
\* elements that are not configurable, and may delete any element if it is far.
DropsAny(o, n) ==
    n < o.length /\ (FarShrink(o, n) \/ (o.dense /\ Fixed(o, n..(o.length - 1)) # {}))

\* Where a primitive operation departs from the reference, on an array
\* without stray elements.
Departs(o, w) ==
    CASE w.op \in {"put", "byval"} -> w.i = MaxU32 \/ Unasked(o, w)
      [] w.op = "fraction" -> InVector(o, w.i)
      [] w.op = "define" ->
            \/ w.i = MaxU32
            \/ /\ o.dense /\ IsDefault(w.d) /\ w.i < MaxVector
               /\ IF w.i \in DOMAIN View(o).props THEN "value" \notin w.d.has ELSE ~o.extensible
      [] w.op = "length" -> \* a failure to shrink leaves the length writable
            "value" \in w.d.has /\ (DropsAny(o, w.d.value) \/ Step(o, above, w).result = "TypeError")
      [] w.op = "assign length" -> w.n \in {-1, MaxU32} \/ DropsAny(o, w.n)
      [] OTHER -> w.op = "throw" \* push beyond 2^32, before anything is assigned

\* The operations that leave stray elements: an element of the largest u32, a
\* cell above the length that OP_PUT_BY_VAL fills, and shrinking to more than
\* MAX_VECTOR_SIZE or by more than SparseStep.
Strays(o, w) ==
    CASE w.op \in {"put", "define"} -> w.i = MaxU32
      [] w.op = "byval" -> w.i = MaxU32 \/ (InVector(o, w.i) /\ w.i >= o.length)
      [] w.op = "fraction" -> InVector(o, w.i) /\ w.i >= o.length
      [] w.op = "assign length" -> FarShrink(o, w.n) \/ (o.dense /\ MaxVector < w.n /\ w.n < o.length)
      [] w.op = "length" -> o.dense /\ o.length - 1 > MaxVector
      [] OTHER -> FALSE

\* Every primitive operation gives the outcome of ECMAScript's, and the array
\* it leaves, where Departs does not say otherwise.
PrimitivesAgree ==
    Stray(arr) = {} =>
        \A w \in Primitives :
            \/ Departs(arr, w)
            \/ LET done == Step(arr, above, w)
                   ecma == EcmaStep(View(arr), [k \in DOMAIN above |-> View(above[k])], w)
               IN View(done.object) = ecma.array /\ done.result = ecma.result

\* An array without stray elements gets some by the operations of Strays only.
StraysExplained ==
    Stray(arr) = {} =>
        \A w \in Primitives : Strays(arr, w) \/ Stray(Step(arr, above, w).object) = {}

\* Some operation of a program departs, or is refused without a word.
ProgramDeparts(o, program) ==
    LET Look(x, w) ==
            IF x.departs \/ x.result \in Failures THEN x
            ELSE LET y == Step(x.object, above, w) IN
                 [object |-> y.object, result |-> y.result,
                  departs |-> Departs(x.object, w) \/ Stray(x.object) # {} \/ y.result = "refused"]
        start == [object |-> o, result |-> "ok", departs |-> FALSE]
    IN FoldLeft(Look, start, program).departs

\* push, pop, shift and fill do what ECMAScript's do, but for operations that
\* depart or are refused, elements that are undefined (shift makes holes of
\* them) and lengths beyond an i32 (pop and shift write such a length, fill reads it).
MethodsAgree ==
    Stray(arr) = {} =>
        \A p \in Methods :
            LET done == Run(arr, above, p.code)
                ecma == EcmaRun(View(arr), [k \in DOMAIN above |-> View(above[k])], p.ecma)
            IN \/ ProgramDeparts(arr, p.code)
               \/ p.code = Shift(chain) /\ \E i \in DOMAIN View(arr).props :
                                              Get(chain, i) = Undefined
               \/ p.i32 /\ Long(arr)
               \/ View(done.object) = ecma.array /\ done.result = ecma.result

\* An element of a prototype that the array has not.
Inherits == \E i \in 0..(arr.length - 1) : GetOwn(arr, i) = NotFound /\ Lookup(above, i) # NotFound

\* The default order loses the entries of its buckets.
LosesEntries(c) ==
    /\ c = <<>> /\ Len(Compacted(chain)) >= Threshold
    /\ \E k \in DOMAIN Compacted(chain) : Compacted(chain)[k] \notin EmptyString

\* sort puts the elements in the order of the comparator, equal ones as they
\* were, then the undefined ones, then the holes; a comparator that is no
\* order loses and invents none of them (setters aside); an array longer than an
\* i32 is left alone.
SortAgrees ==
    Stray(arr) = {} /\ ~Inherits =>
        \A c \in Comparators \ (IF LosesEntries(<<>>) THEN {<<>>} ELSE {}) :
            LET order == IF c = <<>> THEN ByString ELSE c
                program == Sort(chain, c)
                done == View(Run(arr, above, program).object)
                ecma == EcmaRun(View(arr), [k \in DOMAIN above |-> View(above[k])],
                                EcmaSort([k \in DOMAIN chain |-> View(chain[k])], order))
                Holders(a, v) == Cardinality({i \in DOMAIN a.props : ValueOf(a.props[i]) = v})
            IN \/ Long(arr) /\ program = <<>>
               \/ ProgramDeparts(arr, program)
               \/ Run(arr, above, program).result \in Failures
               \/ ~Consistent(order) /\ \E i \in DOMAIN arr.map : arr.map[i].kind = "accessor"
               \/ IF Consistent(order) THEN done = ecma.array \/ arr.length < 2
                  ELSE \A v \in Values \cup {Undefined} : Holders(done, v) = Holders(View(arr), v)

\* The arrays that methods build are those of ECMAScript, but for: slice to -1,
\* or beyond MAX_VECTOR_SIZE; concat of holes; arrays longer than an i32, which
\* slice and the methods in JavaScript take for shorter ones; elements of
\* Array.prototype, which assignments to the new array may meet.
BuiltAgree ==
    LET views == [k \in DOMAIN chain |-> View(chain[k])]
        holes == Len(Held(chain, arr.length)) < arr.length
        Same(x, a) == x.result = "ok" /\ View(x.object) = a
        Values1 == [k \in 1..arr.length |-> EcmaGet(views, k - 1)]
        present == [k \in DOMAIN EcmaPresent(views) |-> EcmaGet(views, EcmaPresent(views)[k])]
    IN Stray(arr) = {} /\ View(protos[1]).props = NoElements /\ arr.length < MaxU32 =>
        /\ \A p \in {<<0, arr.length>>, <<-2, arr.length>>, <<1, -2>>, <<0, -1>>} :
              \/ p[2] = -1 \/ Long(arr)
              \/ holes /\ arr.length > MaxVector
              \/ Same(Slice(chain, p[1], p[2], protos), EcmaSlice(views, p[1], p[2]))
        /\ \/ holes \/ 2 * arr.length >= MaxU32
           \/ Same(Concat(chain, <<chain>>, protos), EcmaConcat(views, views))
        /\ \/ Long(arr)
           \/ /\ Same(From(chain, protos), EcmaList(Values1))
              /\ Same(MapMethod(chain, protos), EcmaMap(views))
              /\ LET Other(v) == v # Undefined
                 IN Same(Filter(chain, Undefined, protos), EcmaList(SelectSeq(present, Other)))
              /\ Same(Flat(chain, 0, protos), EcmaList(present))
              /\ Same(Flat(chain, 1, protos),
                      EcmaList(FlattenSeq([k \in DOMAIN present |->
                          IF present[k] \in DOMAIN Contents THEN Contents[present[k]]
                          ELSE <<present[k]>>])))

\* What methods read of an array is what ECMAScript's read, but for elements
\* that only a prototype has, which "in" does not find, for join of an array
\* without elements, and for arrays longer than an i32, whose length programs
\* read as a negative number.
ReadsAgree ==
    LET views == [k \in DOMAIN chain |-> View(chain[k])]
        present == EcmaPresent(views)
        Calls == [k \in DOMAIN present |-> <<present[k], EcmaGet(views, present[k])>>]
    IN Stray(arr) = {} =>
        /\ Inherits \/ Reduce(chain) = [k \in DOMAIN Calls |-> Calls[k][2]]
        /\ arr.length = 0 \/ Join(chain) = [k \in 1..arr.length |-> EcmaGet(views, k - 1)]
        /\ \/ Long(arr)
           \/ /\ ReadLength(arr) = arr.length
              /\ Inherits \/ ForEach(chain) = Calls
              /\ \A v \in Values \cup {Undefined} :
                    /\ Inherits \/ (Some(chain, v) <=> \E k \in DOMAIN Calls : Calls[k][2] = v)
                    /\ (FindIndex(chain, v) # -1) <=> Includes(chain, v, 0)
                    /\ LET k == FindIndex(chain, v) IN k # -1 => At(chain, k) = v

\* What methods return that do not change the array.
ResultsAgree == BuiltAgree /\ ReadsAgree

-----------------------------------------------------------------------------
\* Deleting the last element of a non-extensible array makes it dense again, and
\* a dense array takes elements: such an array is not frozen, or sealed, here.
Limited(o) == ~o.extensible /\ ~o.dense /\ Stray(o) = {}

Frozen(o) ==
    /\ Limited(o) /\ ~o.writable
    /\ \A i \in DOMAIN o.map : o.map[i].on \cap {"W", "C"} = {}

Sealed(o) == Limited(o) /\ \A i \in DOMAIN o.map : "C" \notin o.map[i].on

\* No operation changes an element or the length of a frozen array, not even of
\* one that had no elements when it was frozen; a sealed array keeps the names
\* of its elements and gets no others, whatever its length becomes.
IntegrityHolds ==
    [][/\ Frozen(arr) => View(arr') = View(arr)
       /\ Sealed(arr) => OwnNames(arr') = OwnNames(arr)]_vars
=============================================================================
