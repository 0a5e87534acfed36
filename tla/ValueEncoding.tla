---------------------------- MODULE ValueEncoding ----------------------------
(***************************************************************************)
(* The NaN boxing of JsValue (vm/value.rs, new_value on 64-bit targets,    *)
(* and wtf-rs/pure_nan.rs): the word that stands for a number, a pointer   *)
(* or an immediate, the tests for its kind, and what is read back.  A      *)
(* word, and the bits of an f64, is a natural number below TwoTo64.        *)
(***************************************************************************)
EXTENDS Integers

CONSTANTS
    Offset,         \* DOUBLE_ENCODE_OFFSET = LOWEST_OF_HIGH_BITS, 2^49
    Tags,           \* the number of tags above that bit, 2^15
    TwoTo32,        \* 2^32
    NativeShift,    \* 2^16
    Infinity,       \* the bits of f64::INFINITY
    PureNan,        \* the bits of pure_nan()
    Precision,      \* 2^53: the integers up to it are numbers of an f64
    NarrowSizes     \* how many numbers the types of 8 and 16 bits have

TwoTo64 == Tags * Offset

ASSUME EncodingAssumption ==
    /\ {Offset, Tags, TwoTo32, NativeShift, Infinity, PureNan, Precision} \subseteq Nat
    /\ Tags >= 4 /\ TwoTo32 > 0 /\ NativeShift > 0
    /\ TwoTo32 % 2 = 0 /\ TwoTo64 % 2 = 0 /\ Offset % TwoTo32 = 0
    /\ NativeShift % 32 = 0
    /\ TwoTo32 * NativeShift <= Offset
    /\ Infinity < PureNan /\ PureNan < TwoTo64 \div 2
    /\ PureNan < TwoTo64 - 2 * Offset
    /\ TwoTo64 \div 2 + Infinity < TwoTo64 - 2 * Offset
    /\ TwoTo32 <= Precision /\ TwoTo64 <= 2048 * Precision
    /\ \A size \in NarrowSizes : size \in Nat \ {0} /\ size % 2 = 0 /\ 2 * size <= TwoTo32

Words == 0..(TwoTo64 - 1)
I32 == -(TwoTo32 \div 2)..(TwoTo32 \div 2 - 1)

\* The number that the low bits of n stand for in two's complement: "as i32".
TruncatedToI32(n) ==
    LET low == n % TwoTo32 IN IF low >= TwoTo32 \div 2 THEN low - TwoTo32 ELSE low

-----------------------------------------------------------------------------
\* Tags.  & NUMBER_TAG keeps the bits from DOUBLE_ENCODE_OFFSET_BIT up.

NUMBER_TAG == TwoTo64 - Offset
HighBits(v) == (v \div Offset) * Offset

HasBit(v, bit) == (v \div bit) % 2 = 1

OTHER_TAG == 2
NATIVE32_TAG == 18
VALUE_EMPTY == 0
VALUE_NULL == 2
VALUE_FALSE == 6
VALUE_TRUE == 7
VALUE_UNDEFINED == 10

is_empty(v) == v = VALUE_EMPTY
is_undefined(v) == v = VALUE_UNDEFINED
is_null(v) == v = VALUE_NULL
is_bool(v) == v - (v % 2) = VALUE_FALSE
is_int32(v) == HighBits(v) = NUMBER_TAG
is_number(v) == HighBits(v) # 0
is_double(v) == is_number(v) /\ ~is_int32(v)

\* No bit of NOT_CELL_MASK.
is_pointer(v) == HighBits(v) = 0 /\ ~HasBit(v, OTHER_TAG)
is_object(v) == is_pointer(v) /\ ~is_empty(v)

\* NATIVE32_MASK has the bits of NUMBER_TAG and NATIVE32_TAG.
is_native_value(v) == HighBits(v) = 0 /\ HasBit(v, 16) /\ HasBit(v, 2)

-----------------------------------------------------------------------------
\* Encoding and decoding.

encode_bool_value(b) == IF b THEN VALUE_TRUE ELSE VALUE_FALSE
get_bool(v) == v = encode_bool_value(TRUE)

encode_int32(x) == NUMBER_TAG + (x % TwoTo32)
get_int32(v) == TruncatedToI32(v)

encode_native_u32(x) == x * NativeShift + NATIVE32_TAG
get_native_u32(v) == (v \div NativeShift) % TwoTo32

\* An i64 addition, which wraps.
encode_f64_value(bits) == (bits + Offset) % TwoTo64
get_double(v) == (v - Offset) % TwoTo64

\* value != value: all bits of the exponent, and some of the fraction.
IsNan(bits) == bits % (TwoTo64 \div 2) > Infinity
purify_nan(bits) == IF IsNan(bits) THEN PureNan ELSE bits

\* The comment at the test for an impure NaN gives 2^64 - 2^49.  Nobody calls it.
is_impure_nan(bits) == bits >= TwoTo64 - Offset

encode_untrusted_f64_value(bits) == encode_f64_value(purify_nan(bits))
encode_nan_value == encode_f64_value(PureNan)

-----------------------------------------------------------------------------
\* From<t> for JsValue, of the primitive integer types.  A type is its least
\* number and how many it has.
UnsignedType(size) == [low |-> 0, size |-> size]
SignedType(size) == [low |-> -(size \div 2), size |-> size]
WideTypes == UNION {{UnsignedType(size), SignedType(size)} : size \in {TwoTo32, TwoTo64}}
NarrowTypes == UNION {{UnsignedType(size), SignedType(size)} : size \in NarrowSizes}
NumbersOf(t) == t.low..(t.low + t.size - 1)

\* "y as t".
AsType(y, t) == t.low + ((y - t.low) % t.size)

\* from_primitive: an int32 if the number survives the way to i32 and back.
FromAsInt(x, t) == AsType(TruncatedToI32(x), t) = x

Magnitude(x) == IF x < 0 THEN -x ELSE x

\* The distance of neighbouring doubles at x: their last of 53 bits.
Spacing(x) ==
    CHOOSE s \in {1, 2, 4, 8, 16, 32, 64, 128, 256, 512, 1024, 2048} :
        /\ Magnitude(x) < Precision * s
        /\ s = 1 \/ Precision * s <= 2 * Magnitude(x)

\* The number of "x as f64": the nearest double, the even one of two.
AsF64(x) ==
    LET s == Spacing(x)
        steps == Magnitude(x) \div s
        over == 2 * (Magnitude(x) % s)
        nearest == IF over < s \/ (over = s /\ steps % 2 = 0) THEN steps ELSE steps + 1
    IN IF x < 0 THEN -(s * nearest) ELSE s * nearest

\* The number that the value stands for.
FromPrimitive(x, t) ==
    IF FromAsInt(x, t) THEN get_int32(encode_int32(TruncatedToI32(x))) ELSE AsF64(x)

\* TryFrom<JsValue> for i32 of a number takes the low bits of a double too.
TryI32(v) == get_int32(v)

-----------------------------------------------------------------------------
\* No word is of two kinds.
OneKind(v) ==
    LET is == <<is_empty(v), is_undefined(v), is_null(v), is_bool(v), is_int32(v),
                is_double(v), is_object(v), is_native_value(v)>>
    IN \A k, l \in 1..8 : is[k] /\ is[l] => k = l

\* What is encoded has the kind that was meant, and is read back.
IntRoundTrips(x) == is_int32(encode_int32(x)) /\ get_int32(encode_int32(x)) = x
NativeRoundTrips(x) == is_native_value(encode_native_u32(x)) /\ get_native_u32(encode_native_u32(x)) = x
DoubleRoundTrips(bits) ==
    LET v == encode_untrusted_f64_value(bits)
    IN v \in Words /\ is_double(v) /\ get_double(v) = purify_nan(bits)

\* Without purify_nan, the bits whose encoding is a double are those below
\* 2^64 - 2^50: the test of is_impure_nan misses 2^49 of the others.
DoubleExactly(bits) == is_double(encode_f64_value(bits)) <=> bits < TwoTo64 - 2 * Offset

\* TryFrom<JsValue> for i32 does not convert a double: it gives its low bits.
TryReadsLowBits(bits) == TryI32(encode_f64_value(bits)) = TruncatedToI32(bits)

\* From<t> keeps every number but those that no double is (of u64 and i64), and
\* those of u32 and u64 that look negative as an i32 and come back when that is
\* extended by its sign.
FitsF64(x) == Magnitude(x) % Spacing(x) = 0
HighUnsigned(x, t) == t.low = 0 /\ t.size >= TwoTo32 /\ x >= t.size - (TwoTo32 \div 2)
KeptUnlessHigh(x, t) ==
    FromPrimitive(x, t) = x <=> ~HighUnsigned(x, t) /\ FitsF64(x)
=============================================================================
