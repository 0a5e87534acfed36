------------------------------- MODULE MCArrays -------------------------------
(***************************************************************************)
(* Vectors of two cells, indices and lengths up to seven; the value        *)
(* "nested" is an array whose one element is undefined, and whose string   *)
(* is empty.                                                               *)
(***************************************************************************)
EXTENDS Arrays, ValueEncoding

CONSTANTS plain, nested, setter

\* The theorems of Encoding_proofs on small words, and what a program reads
\* of a length: OP_GET_BY_ID pushes JsValue::new of the u32.
ASSUME EncodingChecked ==
    /\ \A v \in Words : OneKind(v)
    /\ \A x \in I32 : IntRoundTrips(x)
    /\ \A x \in 0..(TwoTo32 - 1) : NativeRoundTrips(x)
    /\ \A bits \in Words : DoubleRoundTrips(bits) /\ DoubleExactly(bits) /\ TryReadsLowBits(bits)
    /\ \A t \in WideTypes \cup NarrowTypes : \A x \in NumbersOf(t) : KeptUnlessHigh(x, t)
    /\ \A n \in Index : FromPrimitive(n, UnsignedType(TwoTo32)) = Signed(n)

\* A plain property with and without a value, a read-only one, {value: plain},
\* {enumerable: true}, {configurable: false} and {set: setter}.
MCDescriptors ==
    {DataDescriptor(plain, Flags), [DataDescriptor(Undefined, Flags) EXCEPT !.has = {"W", "E", "C"}],
     DataDescriptor(plain, {"C"}), ValueDescriptor(plain),
     [has |-> {"E"}, on |-> {"E"}, value |-> Undefined, get |-> Undefined, set |-> Undefined],
     [has |-> {"C"}, on |-> {}, value |-> Undefined, get |-> Undefined, set |-> Undefined],
     [has |-> {"set"}, on |-> {}, value |-> Undefined, get |-> Undefined, set |-> setter]}

MCStringOrder == <<nested, plain>>
MCEmptyString == {nested}
MCContents == [v \in {nested} |-> <<Undefined>>]

\* No comparator, the order of the strings, its reverse, all values equal, and
\* one that always says that its first argument comes first.
MCComparators ==
    {<<>>, ByString, [p \in Values \X Values |-> -ByString[p]],
     [p \in Values \X Values |-> 0], [p \in Values \X Values |-> -1]}

\* A read-only and an accessor property, and a plain one beyond the vector.
MCSomeDescriptors == {DataDescriptor(plain, {"C"}), CHOOSE d \in MCDescriptors : Kind(d) = "accessor"}

MCIndices == {0, 1, 2, 6, 7}
MCSomeIndices == {0, 2}
MCLengths == {-1, 0, 1, 2, 3, 7}
MCSomeLengths == {1, 3}

\* No prototype, and Array.prototype untouched, with a setter, a read-only element
\* beyond its vector, and without an element it had.
MCPrototypes ==
    {<<>>, <<NewPrototype>>}
        \cup {<<Define(NewPrototype, p[1], p[2], TRUE).object>> :
                p \in {<<i, d>> \in {0, 2} \X MCSomeDescriptors : i = 2 <=> Kind(d) = "data"}}
        \cup {<<Delete(Define(NewPrototype, 0, DataDescriptor(plain, Flags), TRUE).object, 0, TRUE).object>>}
=============================================================================
