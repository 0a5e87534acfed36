------------------------------ MODULE EcmaArrays ------------------------------
(***************************************************************************)
(* ECMAScript's arrays, the reference for IndexedElements and              *)
(* ArrayMethods: an array is its length, whether it and its length may     *)
(* change, and a partial function from indices to properties.              *)
(***************************************************************************)
EXTENDS ArrayMethods

\* The array that the engine's object "o" shows to a program.
View(o) ==
    [length |-> o.length, writable |-> o.writable, extensible |-> o.extensible,
     props |-> [i \in {j \in Index : GetOwn(o, j) # NotFound} |-> GetOwn(o, i)]]

EcmaOutcome(a, r) == [array |-> a, result |-> r]
EcmaRefused(a, throwable) == EcmaOutcome(a, IF throwable THEN "TypeError" ELSE "refused")

\* The property of index i of the first of the arrays "chain" that has one.
EcmaLookup(chain, i) ==
    LET holders == {k \in DOMAIN chain : i \in DOMAIN chain[k].props}
    IN IF holders = {} THEN NotFound ELSE chain[Min(holders)].props[i]

\* 10.4.2.1 and 10.1.6.3: define a property of an array.  The largest u32 is no
\* array index: it is the key of an ordinary property, and out of view here.
EcmaDefine(a, i, d, throwable) ==
    IF i = MaxU32 THEN EcmaOutcome(a, "ok")
    ELSE IF i \in DOMAIN a.props
    THEN LET verdict == EcmaVerdict(a.props[i], d) IN
         CASE verdict = "keep" -> EcmaOutcome(a, "ok")
           [] verdict = "reject" -> EcmaRefused(a, throwable)
           [] OTHER -> EcmaOutcome([a EXCEPT !.props[i] = EcmaMerge(@, d)], "ok")
    ELSE IF ~a.extensible \/ (i >= a.length /\ ~a.writable) THEN EcmaRefused(a, throwable)
    ELSE EcmaOutcome([a EXCEPT !.length = Max({@, i + 1}), !.props = Extended(@, i, NewSlot(d))],
                     "ok")

\* 10.1.9.2: assign to a property, of an array with prototypes "above".
EcmaPut(a, above, i, v, throwable) ==
    LET s == EcmaLookup(<<a>> \o above, i) IN
    CASE s.kind = "accessor" ->
            IF s.value.set = Undefined THEN EcmaRefused(a, throwable) ELSE EcmaOutcome(a, "called")
      [] s.kind = "data" /\ "W" \notin s.on -> EcmaRefused(a, throwable)
      [] s.kind = "data" /\ "W" \in s.on /\ i \in DOMAIN a.props ->
            EcmaDefine(a, i, ValueDescriptor(v), throwable)
      [] OTHER -> EcmaDefine(a, i, DataDescriptor(v, Flags), throwable)

EcmaDelete(a, i, throwable) ==
    IF i \notin DOMAIN a.props THEN EcmaOutcome(a, "ok")
    ELSE IF "C" \notin a.props[i].on THEN EcmaRefused(a, throwable)
    ELSE EcmaOutcome([a EXCEPT !.props = Restrict(@, DOMAIN @ \ {i})], "ok")

\* 10.4.2.4: the length.  Elements go from the end down to one that may not.
EcmaSetLength(a, d, throwable) ==
    LET n == d.value
        fixed == {i \in DOMAIN a.props : i >= n /\ "C" \notin a.props[i].on}
        m == IF fixed = {} THEN n ELSE Max(fixed) + 1
        set == IF n >= a.length THEN [a EXCEPT !.length = n]
               ELSE [a EXCEPT !.length = m,
                              !.props = Restrict(@, {i \in DOMAIN @ : i < m})]
        locked == IF "W" \in d.has THEN "W" \in d.on ELSE TRUE
    IN IF "value" \notin d.has \/ n = a.length
       THEN IF ~locked \/ a.writable \/ "W" \notin d.has
            THEN EcmaOutcome([a EXCEPT !.writable = @ /\ locked], "ok")
            ELSE EcmaRefused(a, throwable)
       ELSE IF n = -1 THEN EcmaOutcome(a, "RangeError")
       ELSE IF ~a.writable THEN EcmaRefused(a, throwable)
       ELSE LET after == [set EXCEPT !.writable = @ /\ locked]
            IN IF n < a.length /\ fixed # {} THEN EcmaRefused(after, throwable)
               ELSE EcmaOutcome(after, "ok")

\* A property without the flags "off".
WithoutFlags(s, off) == [s EXCEPT !.on = @ \ off]

\* 7.3.16: freeze (off = {"W", "C"}), seal (off = {"C"}) and prevent extensions.
EcmaIntegrity(a, off) ==
    EcmaOutcome([a EXCEPT !.extensible = FALSE,
                          !.writable = @ /\ "W" \notin off,
                          !.props = [i \in DOMAIN @ |-> WithoutFlags(@[i], off)]], "ok")

-----------------------------------------------------------------------------
\* What the reference does for one primitive operation of ArrayMethods.
EcmaStep(a, above, w) ==
    CASE w.op = "put" -> EcmaPut(a, above, w.i, w.v, w.throwable)
      [] w.op = "byval" -> EcmaPut(a, above, w.i, w.v, w.throwable)
      [] w.op = "fraction" -> EcmaOutcome(a, "ok")
      [] w.op = "define" -> EcmaDefine(a, w.i, w.d, w.throwable)
      [] w.op = "delete" -> EcmaDelete(a, w.i, w.throwable)
      [] w.op = "length" -> EcmaSetLength(a, w.d, w.throwable)
      [] w.op = "assign length" ->
            IF a.writable THEN EcmaSetLength(a, ToLength(w.n), w.throwable)
            ELSE EcmaRefused(a, w.throwable)
      [] w.op = "freeze" -> EcmaIntegrity(a, {"W", "C"})
      [] w.op = "seal" -> EcmaIntegrity(a, {"C"})
      [] OTHER -> EcmaIntegrity(a, {})

EcmaRun(a, above, program) ==
    LET Next(x, w) == IF x.result \in Failures THEN x ELSE EcmaStep(x.array, above, w)
    IN FoldLeft(Next, EcmaOutcome(a, "ok"), program)

-----------------------------------------------------------------------------
(* The methods, as programs for EcmaRun (23.1.3), which throw when an       *)
(* element is refused.                                                     *)

EcmaGet(chain, i) == ValueOf(EcmaLookup(chain, i))
EcmaPresent(chain) ==
    LET Found(i) == EcmaLookup(chain, i) # NotFound
    IN SelectSeq(Span(0, chain[1].length), Found)

EcmaPush(a, vs) ==
    LET n == a.length + Len(vs) IN
    [k \in DOMAIN vs |-> Assign(a.length + k - 1, vs[k], TRUE)]
        \o <<AssignLength(IF n > MaxU32 THEN -1 ELSE n, TRUE)>>

EcmaPop(a) ==
    (IF a.length = 0 THEN <<>> ELSE <<DeleteAt(a.length - 1, TRUE)>>)
        \o <<AssignLength(Max({a.length - 1, 0}), TRUE)>>

EcmaShift(chain) ==
    LET n == chain[1].length
        Move(k) == IF EcmaLookup(chain, k) = NotFound THEN DeleteAt(k - 1, TRUE)
                   ELSE Assign(k - 1, EcmaGet(chain, k), TRUE)
    IN IF n = 0 THEN <<AssignLength(0, TRUE)>>
       ELSE Each(Span(1, n), Move) \o <<DeleteAt(n - 1, TRUE), AssignLength(n - 1, TRUE)>>

EcmaFill(a, v, start, end) ==
    LET Write(k) == Assign(k, v, TRUE)
    IN Each(Span(Relative(start, a.length),
                 Relative(IF end = Undefined THEN a.length ELSE end, a.length)), Write)

\* A comparator that orders the values, equal ones aside.
Consistent(c) ==
    \A x, y, z \in Values :
        /\ c[x, y] = -c[y, x]
        /\ c[x, y] <= 0 /\ c[y, z] <= 0 => c[x, z] <= 0

\* The sequence s in the order of c, equal elements in the order they had.
StablySorted(s, c) ==
    LET Before(j, i) == c[s[j], s[i]] < 0 \/ (c[s[j], s[i]] = 0 /\ j < i)
        Place(i) == 1 + Cardinality({j \in DOMAIN s : Before(j, i)})
    IN [k \in DOMAIN s |-> s[CHOOSE i \in DOMAIN s : Place(i) = k]]

EcmaSort(chain, c) ==
    LET Value(i) == EcmaGet(chain, i)
        Defined(v) == v # Undefined
        present == Each(EcmaPresent(chain), Value)
        sorted == StablySorted(SelectSeq(present, Defined), c)
        Write(k) == Assign(k - 1, IF k <= Len(sorted) THEN sorted[k] ELSE Undefined, TRUE)
        Drop(k) == DeleteAt(k - 1, TRUE)
    IN Each(Span(1, Len(present) + 1), Write)
           \o Each(Span(Len(present) + 1, chain[1].length + 1), Drop)

\* A new array of length n with plain elements.
EcmaArray(n, elements) ==
    [length |-> n, writable |-> TRUE, extensible |-> TRUE,
     props |-> [i \in DOMAIN elements |-> PlainSlot(elements[i])]]

EcmaList(s) == EcmaArray(Len(s), [i \in 0..(Len(s) - 1) |-> s[i + 1]])

EcmaSlice(chain, start, end) ==
    LET n == chain[1].length
        k == Relative(start, n)
        size == Max({Relative(end, n) - k, 0})
    IN EcmaArray(size, [i \in {j \in 0..(size - 1) : EcmaLookup(chain, k + j) # NotFound}
                         |-> EcmaGet(chain, k + i)])

EcmaConcat(chain, other) ==
    LET n == chain[1].length
        total == n + other[1].length
        Source(i) == IF i < n THEN EcmaLookup(chain, i) ELSE EcmaLookup(other, i - n)
    IN EcmaArray(total, [i \in {j \in 0..(total - 1) : Source(j) # NotFound}
                          |-> ValueOf(Source(i))])

EcmaMap(chain) ==
    EcmaArray(chain[1].length,
              [i \in {j \in 0..(chain[1].length - 1) : EcmaLookup(chain, j) # NotFound}
                |-> EcmaGet(chain, i)])
=============================================================================
