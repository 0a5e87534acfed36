----------------------------- MODULE ArrayMethods -----------------------------
(***************************************************************************)
(* The methods of arrays (jsrt/array.rs, builtins/ArrayPrototype.js and    *)
(* ArrayIterator.js), as programs of primitive operations on the elements. *)
(*                                                                         *)
(* The methods in JavaScript test elements with "in", which finds own      *)
(* properties only, and assign with OP_PUT_BY_VAL in strict code; those in *)
(* Rust ask the whole chain, and most of their assignments fail silently.  *)
(* A callback is the identity or compares with one value, and changes      *)
(* nothing.                                                                *)
(***************************************************************************)
EXTENDS IndexedElements

CONSTANTS
    Threshold,      \* the entries from which sort uses buckets, 32
    StringOrder,    \* the values, in the order of their strings
    EmptyString,    \* the values whose string is empty
    Contents        \* the values of the values that are arrays

ASSUME OrderAssumption == StringOrder \in Seq(Values) /\ StringOrder # <<>>

NoOrder == [gone |-> {}, last |-> {}]
LengthDescriptor(n, has) == [has |-> has, on |-> {}, value |-> n, get |-> Undefined, set |-> Undefined]
ToLength(n) == LengthDescriptor(n, {"value"})
Assign(i, v, throwable) == [op |-> "put", i |-> i, v |-> v, throwable |-> throwable]
AssignByVal(i, v) == [op |-> "byval", i |-> i, v |-> v, throwable |-> TRUE]
DeleteAt(i, throwable) == [op |-> "delete", i |-> i, throwable |-> throwable]
AssignLength(n, throwable) ==
    [op |-> "assign length", n |-> n, throwable |-> throwable, order |-> NoOrder]

\* PutNonIndexedSlotMethod of length.
PutLength(o, n, throwable, order) ==
    IF ~o.writable THEN Refused(o, throwable)
    ELSE DefineLength(o, ToLength(n), throwable, order)

\* One primitive operation.
Step(o, above, w) ==
    CASE w.op = "put" -> Put(o, above, w.i, w.v, w.throwable)
      [] w.op = "byval" -> PutByVal(o, above, w.i, w.v, w.throwable)
      [] w.op = "fraction" -> PutByFraction(o, w.i, w.v)
      [] w.op = "define" -> Define(o, w.i, w.d, w.throwable)
      [] w.op = "delete" -> Delete(o, w.i, w.throwable)
      [] w.op = "length" -> DefineLength(o, w.d, w.throwable, w.order)
      [] w.op = "assign length" -> PutLength(o, w.n, w.throwable, w.order)
      [] w.op = "freeze" -> Freeze(o)
      [] w.op = "seal" -> Seal(o)
      [] w.op = "throw" -> Outcome(o, "RangeError")
      [] OTHER -> Outcome(PreventExtensions(o), "ok")

Failures == {"TypeError", "RangeError", "panic"}

\* A program runs up to the first operation that throws.
Run(o, above, program) ==
    LET Next(x, w) == IF x.result \in Failures THEN x ELSE Step(x.object, above, w)
    IN FoldLeft(Next, Outcome(o, "ok"), program)

\* The indices m to n - 1, from the smallest one up.
Span(m, n) == [k \in 1..Max({n - m, 0}) |-> m + k - 1]
Each(I, F(_)) == [k \in DOMAIN I |-> F(I[k])]
Signed(n) == IF n > MaxU32 \div 2 THEN n - (MaxU32 + 1) ELSE n
AsI32(n) == Signed(n % (MaxU32 + 1))

\* The length that a program reads (OP_GET_BY_ID): every u32 becomes an i32.
ReadLength(o) == Signed(o.length)

-----------------------------------------------------------------------------
(* Methods that change their array.                                        *)

\* array_push: it throws for no element that is refused, and before it assigns
\* any for a length beyond 2^32; 2^32 itself fails when it is assigned.
Push(o, vs) ==
    LET n == o.length + Len(vs) IN
    IF n > MaxU32 + 1 THEN <<[op |-> "throw"]>>
    ELSE [k \in DOMAIN vs |-> Assign(o.length + k - 1, vs[k], FALSE)]
             \o <<AssignLength(IF n > MaxU32 THEN -1 ELSE n, FALSE)>>

\* A length that is written as JsValue::new of a u32: an i32 that may be negative.
WrittenAsI32(n) == Max({Signed(n), -1})

\* array_pop: the new length is written as an i32.
Pop(o) ==
    IF o.length = 0 THEN <<AssignLength(0, TRUE)>>
    ELSE <<DeleteAt(o.length - 1, TRUE), AssignLength(WrittenAsI32(o.length - 1), TRUE)>>

\* Mutant of Shift: the last element stays.
Shift_KeepsLast(chain) ==
    LET n == chain[1].length
        Move(k) == IF Get(chain, k) = Undefined THEN DeleteAt(k - 1, FALSE)
                   ELSE Assign(k - 1, Get(chain, k), FALSE)
    IN IF n = 0 THEN <<AssignLength(0, FALSE)>>
       ELSE Each(Span(1, n), Move) \o <<AssignLength(WrittenAsI32(n), FALSE)>>

\* array_shift: an element that is undefined becomes a hole, and the new length
\* is written as an i32.
Shift(chain) ==
    LET n == chain[1].length
        Move(k) == IF Get(chain, k) = Undefined THEN DeleteAt(k - 1, FALSE)
                   ELSE Assign(k - 1, Get(chain, k), FALSE)
    IN IF n = 0 THEN <<AssignLength(0, FALSE)>>
       ELSE Each(Span(1, n), Move)
                \o <<DeleteAt(n - 1, FALSE), AssignLength(WrittenAsI32(n - 1), FALSE)>>

\* A position that counts from the end when it is negative.
Relative(at, length) == IF at < 0 THEN Max({length + at, 0}) ELSE Min({at, length})

\* Array.prototype.fill.  Assignments to negative keys hit the first cell.
Fill(o, v, start, end) ==
    LET n == ReadLength(o)
        Write(k) == IF k < 0 THEN [op |-> "fraction", i |-> 0, v |-> v] ELSE AssignByVal(k, v)
    IN Each(Span(Relative(start, n), Relative(IF end = Undefined THEN n ELSE end, n)), Write)

-----------------------------------------------------------------------------
(* Array.prototype.sort.                                                   *)

\* Mutant of Merged: the left element loses against an equal right one.
Merged_Unstable(l, r, c) ==
    LET M[i \in 1..(Len(l) + 1), j \in 1..(Len(r) + 1)] ==
            IF i > Len(l) THEN SubSeq(r, j, Len(r))
            ELSE IF j > Len(r) THEN SubSeq(l, i, Len(l))
            ELSE IF c[r[j], l[i]] <= 0 THEN <<r[j]>> \o M[i, j + 1] ELSE <<l[i]>> \o M[i + 1, j]
    IN M[1, 1]

\* sortMerge; a comparator that returns false, like one that returns a negative
\* number, says that the right element comes first.
Merged(l, r, c) ==
    LET M[i \in 1..(Len(l) + 1), j \in 1..(Len(r) + 1)] ==
            IF i > Len(l) THEN SubSeq(r, j, Len(r))
            ELSE IF j > Len(r) THEN SubSeq(l, i, Len(l))
            ELSE IF c[r[j], l[i]] < 0 THEN <<r[j]>> \o M[i, j + 1] ELSE <<l[i]>> \o M[i + 1, j]
    IN M[1, 1]

\* One pass of sortMergeSort: neighbouring runs of a width are merged.
MergePass(s, width, c) ==
    LET n == Len(s)
        Run1(from) == SubSeq(s, from, Min({from + width - 1, n}))
        pairs == [k \in 1..((n + 2 * width - 1) \div (2 * width)) |-> 1 + (k - 1) * 2 * width]
    IN FlattenSeq([k \in DOMAIN pairs |-> Merged(Run1(pairs[k]), Run1(pairs[k] + width), c)])

\* sortMergeSort doubles the width from one up.
MergeSort(s, c) ==
    LET passed[k \in Nat] == IF k = 0 THEN s ELSE MergePass(passed[k - 1], 2 ^ (k - 1), c)
    IN passed[Min({k \in 0..Len(s) : 2 ^ k >= Len(s)})]

\* sortStringComparator.
Position(v) == CHOOSE k \in DOMAIN StringOrder : StringOrder[k] = v
ByString == [p \in Values \X Values |->
               LET d == Position(p[1]) - Position(p[2])
               IN IF d > 0 THEN 1 ELSE IF d < 0 THEN -1 ELSE 0]

\* sortBucketSort.  The buckets are kept under one-character strings, which are
\* no array indices, and looked for among the elements of an array that has
\* none: entries whose string is not empty are not found again, and the array
\* they would go to keeps holes.
BucketSort(s) ==
    IF Len(s) < Threshold THEN MergeSort(s, ByString)
    ELSE LET IsEmpty(v) == v \in EmptyString
             found == SelectSeq(s, IsEmpty)
         IN [k \in DOMAIN s |-> IF k <= Len(found) THEN found[k] ELSE Undefined]

\* The own elements below n.
Present(o, n) == {i \in 0..(n - 1) : GetOwn(o, i) # NotFound}
Held(chain, n) == SelectSeq(Span(0, n), LAMBDA i : i \in Present(chain[1], n))

\* Own elements, as the loops over "i in array" see them.
Visited(chain) == Held(chain, ReadLength(chain[1]))

\* sortCompact: the elements that are not undefined.
Compacted(chain) ==
    LET Value(i) == Get(chain, i)
        Defined(v) == v # Undefined
    IN SelectSeq(Each(Visited(chain), Value), Defined)

Sorted(chain, c) ==
    IF c = <<>> THEN BucketSort(Compacted(chain)) ELSE MergeSort(Compacted(chain), c)

\* Array.prototype.sort, with a comparator c, or with none (<<>>): sortCommit
\* writes the sorted elements, as many undefineds as there were, and holes.
Sort(chain, c) ==
    LET sorted == Sorted(chain, c)
        present == Cardinality(Present(chain[1], ReadLength(chain[1])))
        Write(k) == AssignByVal(k - 1, IF k <= Len(sorted) THEN sorted[k] ELSE Undefined)
        Drop(k) == DeleteAt(k - 1, TRUE)
    IN IF ReadLength(chain[1]) < 2 THEN <<>>
       ELSE Each(Span(1, present + 1), Write)
                \o Each(Span(present + 1, chain[1].length + 1), Drop)

-----------------------------------------------------------------------------
(* Methods that build an array, whose prototypes are "protos".             *)

\* Opcode NEWARRAY: the length is the number of items, a spread counts as one.
Literal(items, protos) ==
    LET values == FlattenSeq(items)
        Write(k) == Assign(k - 1, values[k], FALSE)
    IN Run(NewArray(Len(items)), protos, Each(Span(1, Len(values) + 1), Write))

\* array_ctor with one number.
Ctor(n) == IF n \in Index THEN Outcome(NewArray(n), "ok") ELSE Outcome(NewArray(0), "RangeError")

\* Mutant of Slice: the element at the end is taken too.
Slice_TakesEnd(chain, start, end, protos) ==
    LET n == chain[1].length
        Bound(at) == IF at < 0 THEN Max({AsI32(at + AsI32(n)), 0}) ELSE Min({at, n})
        k == Bound(start)
        size == Max({Bound(end) + 1 - k, 0})
        Copy(i) == Assign(i - k, Get(chain, i), FALSE)
        Found(i) == Lookup(chain, i) # NotFound
    IN Run(NewArray(size), protos, Each(SelectSeq(Span(k, k + size), Found), Copy))

\* array_slice.  An end of -1 is taken for the largest u32, the length for an
\* i32, and a result beyond MAX_VECTOR_SIZE has no holes.
Slice(chain, start, end, protos) ==
    LET n == chain[1].length
        Bound(at) == IF at < 0 THEN Max({AsI32(at + AsI32(n)), 0}) ELSE Min({at, n})
        k == Bound(start)
        size == Max({Bound(end) - k, 0})
        taken == IF size > MaxVector THEN Span(k, k + size)
                 ELSE SelectSeq(Span(k, k + size), LAMBDA i : Lookup(chain, i) # NotFound)
        Copy(i) == IF size > MaxVector
                   THEN [op |-> "define", i |-> i - k, throwable |-> FALSE,
                         d |-> DataDescriptor(Get(chain, i), Flags)]
                   ELSE Assign(i - k, Get(chain, i), FALSE)
    IN IF end = -1 \/ n >= MaxU32 THEN Outcome(NewArray(0), "RangeError")
       ELSE Run(NewArray(size), protos, Each(taken, Copy))

\* array_concat of an array and others; it returns the array itself for none.
Concat(chain, others, protos) ==
    LET Values1(c) == LET Value(i) == Get(c, i) IN Each(Span(0, c[1].length), Value)
        values == Values1(chain) \o FlattenSeq([k \in DOMAIN others |-> Values1(others[k])])
        Write(k) == Assign(k - 1, values[k], FALSE)
    IN IF others = <<>> THEN Outcome(chain[1], "ok")
       ELSE IF \E k \in DOMAIN others : others[k][1].length >= MaxU32 - 1
       THEN Outcome(NewArray(0), "TypeError")
       ELSE Run(NewArray(chain[1].length), protos, Each(Span(1, Len(values) + 1), Write))

\* Assignments of the values, by OP_PUT_BY_VAL, to the first indices.
Filled(n, values, protos) ==
    LET Write(k) == AssignByVal(k - 1, values[k])
    IN Run(NewArray(n), protos, Each(Span(1, Len(values) + 1), Write))

\* Array.from of an iterable: the array iterator yields every index below the
\* length.
From(chain, protos) ==
    LET Value(i) == Get(chain, i)
    IN Filled(0, Each(Span(0, ReadLength(chain[1])), Value), protos)

\* Array.prototype.map.  Its test for 2^32 - 1 never holds of what it reads;
\* new Array throws for a negative length.
MapMethod(chain, protos) ==
    LET Write(i) == AssignByVal(i, Get(chain, i))
        made == Ctor(ReadLength(chain[1]))
    IN IF made.result # "ok" THEN made
       ELSE Run(made.object, protos, Each(Visited(chain), Write))

\* Array.prototype.filter of the elements that are not v.
Filter(chain, v, protos) ==
    LET Value(i) == Get(chain, i)
        Other(x) == x # v
    IN Filled(0, SelectSeq(Each(Visited(chain), Value), Other), protos)

\* flatIntoArray, of an array that is an element.
Flattened(s, depth) ==
    LET Of[v \in Values \cup {Undefined}, d \in 0..depth] ==
            IF d = 0 \/ v \notin DOMAIN Contents THEN <<v>>
            ELSE FlattenSeq([k \in DOMAIN Contents[v] |-> Of[Contents[v][k], d - 1]])
    IN FlattenSeq([k \in DOMAIN s |-> Of[s[k], depth]])

\* Array.prototype.flat and, with depth 1, flatMap.
Flat(chain, depth, protos) ==
    LET Value(i) == Get(chain, i)
    IN Filled(0, Flattened(Each(Visited(chain), Value), depth), protos)

-----------------------------------------------------------------------------
(* Methods that only look.                                                 *)

\* Array.prototype.forEach: the calls of the callback.
ForEach(chain) ==
    LET Call(i) == <<i, Get(chain, i)>>
    IN Each(Visited(chain), Call)

\* Array.prototype.some, of an element that is v.
Some(chain, v) == \E k \in DOMAIN Visited(chain) : Get(chain, Visited(chain)[k]) = v

\* Array.prototype.findIndex (and find): the holes are undefined.
FindIndex(chain, v) ==
    LET at == {i \in 0..(ReadLength(chain[1]) - 1) : Get(chain, i) = v}
    IN IF at = {} THEN -1 ELSE Min(at)

\* Array.prototype.includes from an index.
Includes(chain, v, from) ==
    LET n == ReadLength(chain[1])
    IN \E i \in Relative(from, n)..(n - 1) : Get(chain, i) = v

\* Array.prototype.at.
At(chain, k) ==
    LET n == ReadLength(chain[1])
        i == IF k < 0 THEN k + n ELSE k
    IN IF 0 <= i /\ i < n THEN Get(chain, i) ELSE Undefined

\* Array.prototype.reduce without an initial value: what it starts from and
\* hands to the callback.  It reads the length as a u32.
Reduce(chain) ==
    LET Value(i) == Get(chain, i) IN Each(Held(chain, chain[1].length), Value)

\* array_join: the pieces between separators, the first of which is read from
\* an array without elements too.
Join(chain) ==
    LET Value(i) == Get(chain, i) IN
    <<Get(chain, 0)>> \o Each(Span(1, chain[1].length), Value)
=============================================================================
