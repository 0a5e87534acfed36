---------------------------- MODULE Arrays_proofs ----------------------------
(***************************************************************************)
(* Proofs about Arrays and the modules it is built from, for any values,   *)
(* lengths, descriptors, prototypes and comparators, and any sizes of the  *)
(* vector and of u32.                                                      *)
(*                                                                         *)
(* Objects are records; Sound says of one that its vector and its map      *)
(* never both count for an index, and every operation keeps that.  Methods *)
(* are programs: a Playable one is of operations on elements, of which     *)
(* only the last may be one on the length, and the methods of Arrays are.  *)
(* Folds are functions on sets of places here (Redefined, Played), which   *)
(* exist by induction on finite sets.                                      *)
(*                                                                         *)
(* Against the reference, one lemma per operation says that both give the  *)
(* same outcome and leave the same view (Agree).  Two arrays have the same *)
(* view when they show the same property of every index (SameView), and a  *)
(* step on an element when the views differ there only (Differs).          *)
(***************************************************************************)
EXTENDS Arrays, NaturalsInduction, FiniteSetTheorems, SequenceTheorems, WellFoundedInduction, TLAPS

-----------------------------------------------------------------------------
\* Sequences, sets of numbers and stored properties.

\* A function on 1..n is a sequence of length n.
LEMMA SequenceOf ==
    ASSUME NEW n \in Nat, NEW f, f = [k \in 1..n |-> f[k]]
    PROVE  f \in Seq(Range(f)) /\ Len(f) = n /\ DOMAIN f = 1..n
<1>1. f \in [1..n -> Range(f)]
  BY DEF Range
<1> QED
  BY <1>1

LEMMA MaxOfTwo ==
    ASSUME NEW m \in Int, NEW n \in Int
    PROVE  Max({m, n}) = IF m >= n THEN m ELSE n
BY DEF Max

LEMMA MinOfTwo ==
    ASSUME NEW m \in Int, NEW n \in Int
    PROVE  Min({m, n}) = IF m <= n THEN m ELSE n
BY DEF Min

\* A set of numbers has a smallest one.
LEMMA Smallest ==
    ASSUME NEW T \in SUBSET Nat, T # {}
    PROVE  \E c \in T : \A d \in T : c <= d
<1> DEFINE R == OpToRel(<, Nat)
<1>1. IsWellFoundedOn(R, Nat)
  BY NatLessThanWellFounded, Zenon
<1>2. \A c \in T, d \in T : d < c => <<d, c>> \in R
  BY SMT DEF OpToRel
<1> HIDE DEF R
<1>3. PICK c \in T : \A d \in T : ~ (<<d, c>> \in R)
  BY <1>1, WFMin
<1>4. \A d \in T : ~ (d < c)
  BY <1>2, <1>3
<1> QED
  BY <1>4

\* Induction over the subsets of a finite set.
LEMMA SubsetInduction ==
    ASSUME NEW S, IsFiniteSet(S), NEW G, {} \in G,
           \A s \in SUBSET S : s # {} => \E x \in s : (s \ {x}) \in G => s \in G
    PROVE  S \in G
<1> DEFINE Bad == {s \in SUBSET S : s \notin G}
<1> SUFFICES ASSUME Bad # {} PROVE FALSE
  OBVIOUS
<1>1. IsWellFoundedOn(StrictSubsetOrdering(S), FiniteSubsetsOf(S)) /\ FiniteSubsetsOf(S) = SUBSET S
  BY FS_StrictSubsetOrderingWellFounded, FS_FiniteSubsetsOfFinite
<1>2. \E s \in Bad : \A t \in Bad : ~ (<<t, s>> \in StrictSubsetOrdering(S))
  <2>1. Bad \subseteq SUBSET S /\ IsWellFoundedOn(StrictSubsetOrdering(S), SUBSET S)
    BY <1>1
  <2> HIDE DEF Bad
  <2> QED
    BY <2>1, WFMin
<1>3. PICK s \in Bad : \A t \in Bad : ~ (<<t, s>> \in StrictSubsetOrdering(S))
  BY <1>2
<1>4. PICK x \in s : (s \ {x}) \in G => s \in G
  BY <1>3
<1>5. s \ {x} \in Bad
  BY <1>3, <1>4
<1>6. <<s \ {x}, s>> \in StrictSubsetOrdering(S)
  BY <1>4, <1>5 DEF StrictSubsetOrdering
<1> QED
  BY <1>3, <1>5, <1>6

\* A finite set of numbers has a largest one.
LEMMA MaxOf ==
    ASSUME NEW S, S \subseteq Int, IsFiniteSet(S), S # {}
    PROVE  Max(S) \in S /\ \A x \in S : x <= Max(S)
<1> DEFINE G == {T \in SUBSET S : T # {} => \E m \in T : \A x \in T : x <= m}
<1>1. {} \in G
  OBVIOUS
<1>2. ASSUME NEW T \in SUBSET S, T # {}
      PROVE  \E y \in T : T \ {y} \in G => T \in G
  <2>1. PICK y \in T : TRUE
    BY <1>2
  <2>2. CASE T \ {y} = {}
    BY <2>1, <2>2
  <2>3. ASSUME T \ {y} # {}, NEW m \in T \ {y}, \A x \in T \ {y} : x <= m
        PROVE  \E k \in T : \A x \in T : x <= k
    <3>1. CASE y <= m
      BY <2>3, <3>1
    <3>2. CASE ~(y <= m)
      <4>1. \A x \in T : x <= y
        BY <2>3, <3>2
      <4> QED
        BY <4>1, <2>1
    <3> QED
      BY <3>1, <3>2
  <2> QED
    BY <2>1, <2>2, <2>3
<1>3. S \in G
  <2> HIDE DEF G
  <2> QED
    BY <1>1, <1>2, SubsetInduction
<1>4. \E m \in S : \A x \in S : m >= x
  BY <1>3
<1> QED
  BY <1>4 DEF Max

LEMMA SubsetsFinite ==
    ASSUME NEW S, IsFiniteSet(S)
    PROVE  \A T \in SUBSET S : IsFiniteSet(T)
BY FS_Subset

\* The fold of Redefine over names, the smallest one first.
Redefined(b, off, S, it) ==
    it = [s \in SUBSET S |-> IF s = {} THEN b ELSE Redefine(it[s \ {Max(s)}], Max(s), off)]

LEMMA RedefinedExists ==
    ASSUME NEW b, NEW off, NEW S, S \subseteq Int, IsFiniteSet(S)
    PROVE  \E it : Redefined(b, off, S, it)
<1> DEFINE G == {s \in SUBSET S : \E it : Redefined(b, off, s, it)}
<1>1. {} \in G
  <2>1. Redefined(b, off, {}, [s \in SUBSET {} |-> b])
    BY DEF Redefined
  <2> QED
    BY <2>1
<1>2. ASSUME NEW s \in SUBSET S, s # {}
      PROVE  \E x \in s : s \ {x} \in G => s \in G
  <2> DEFINE m == Max(s)
             r == s \ {m}
  <2>1. m \in s /\ \A x \in s : x <= m
    BY <1>2, MaxOf, SubsetsFinite
  <2>2. ASSUME NEW it, Redefined(b, off, r, it)
        PROVE  \E jt : Redefined(b, off, s, jt)
    <3> DEFINE jt == [t \in SUBSET s |-> IF m \in t THEN Redefine(it[t \ {m}], m, off) ELSE it[t]]
    <3>1. ASSUME NEW t \in SUBSET s, m \in t
          PROVE  Max(t) = m
      <4>1. Max(t) \in t /\ \A x \in t : x <= Max(t)
        BY <3>1, MaxOf, SubsetsFinite
      <4>2. m <= Max(t) /\ Max(t) <= m /\ m \in Int /\ Max(t) \in Int
        BY <2>1, <3>1, <4>1
      <4> QED
        BY <4>2
    <3>2. ASSUME NEW t \in SUBSET s, t # {}, m \notin t
          PROVE  Max(t) \in t
      BY <3>2, MaxOf, SubsetsFinite
    <3>3. ASSUME NEW t \in SUBSET s
          PROVE  jt[t] = IF t = {} THEN b ELSE Redefine(jt[t \ {Max(t)}], Max(t), off)
      <4> HIDE DEF m
      <4>1. CASE m \in t
        <5>1. t \ {m} \in SUBSET s /\ m \notin t \ {m}
          OBVIOUS
        <5>2. jt[t \ {m}] = it[t \ {m}]
          BY <5>1
        <5> QED
          BY <3>1, <4>1, <5>2
      <4>2. CASE m \notin t /\ t = {}
        BY <4>2, <2>2 DEF Redefined
      <4>3. CASE m \notin t /\ t # {}
        <5>1. Max(t) \in t /\ t \ {Max(t)} \in SUBSET s /\ m \notin t \ {Max(t)} /\ t \in SUBSET r
          BY <3>2, <4>3
        <5>2. jt[t] = it[t] /\ jt[t \ {Max(t)}] = it[t \ {Max(t)}]
          BY <4>3, <5>1
        <5>3. it[t] = Redefine(it[t \ {Max(t)}], Max(t), off)
          BY <2>2, <4>3, <5>1 DEF Redefined
        <5> QED
          BY <4>3, <5>2, <5>3
      <4> QED
        BY <4>1, <4>2, <4>3
    <3>4. Redefined(b, off, s, jt)
      <4> HIDE DEF m
      <4> QED
        BY <3>3 DEF Redefined
    <3> QED
      BY <3>4
  <2> QED
    BY <2>1, <2>2
<1>3. S \in G
  <2> HIDE DEF G
  <2> QED
    BY <1>1, <1>2, SubsetInduction
<1> QED
  BY <1>3

Locked(o, off) == [o EXCEPT !.writable = @ /\ "W" \notin off]

LEMMA IntegrityFolds ==
    ASSUME NEW o, NEW off, OwnNames(o) \subseteq Int, IsFiniteSet(OwnNames(o))
    PROVE  \E it :
              /\ Redefined(Outcome(Locked(o, off), "ok"), off, OwnNames(o), it)
              /\ Integrity(o, off) =
                    IF it[OwnNames(o)].result = "ok"
                    THEN Outcome(PreventExtensions(it[OwnNames(o)].object), "ok") ELSE it[OwnNames(o)]
<1> DEFINE S == OwnNames(o)
           b == Outcome(Locked(o, off), "ok")
           it == CHOOSE it : Redefined(b, off, S, it)
<1>1. Redefined(b, off, S, it)
  BY RedefinedExists
<1>2. MapThenFoldSet(LAMBDA i, x : Redefine(x, i, off), b, LAMBDA i : i, LAMBDA names : Max(names), S) = it[S]
  BY DEF MapThenFoldSet, Redefined
<1>3. Integrity(o, off) = IF it[S].result = "ok" THEN Outcome(PreventExtensions(it[S].object), "ok") ELSE it[S]
  BY <1>2 DEF Integrity, Locked
<1> QED
  BY <1>1, <1>3

\* What a run leaves after the first operations of a program: those with the
\* places of the set.
Played(o, up, program, S, it) ==
    it = [s \in SUBSET S |->
            IF s = {} THEN Outcome(o, "ok")
            ELSE IF it[s \ {Max(s)}].result \in Failures THEN it[s \ {Max(s)}]
            ELSE Step(it[s \ {Max(s)}].object, up, program[Max(s)])]

LEMMA PlayedExists ==
    ASSUME NEW o, NEW up, NEW program, NEW S, S \subseteq Int, IsFiniteSet(S)
    PROVE  \E it : Played(o, up, program, S, it)
<1> DEFINE G == {s \in SUBSET S : \E it : Played(o, up, program, s, it)}
           Op(x, k) == IF x.result \in Failures THEN x ELSE Step(x.object, up, program[k])
<1>1. {} \in G
  <2>1. Played(o, up, program, {}, [s \in SUBSET {} |-> Outcome(o, "ok")])
    BY DEF Played
  <2> QED
    BY <2>1
<1>2. ASSUME NEW s \in SUBSET S, s # {}
      PROVE  \E x \in s : s \ {x} \in G => s \in G
  <2> DEFINE m == Max(s)
             r == s \ {m}
  <2>1. m \in s /\ \A x \in s : x <= m
    BY <1>2, MaxOf, SubsetsFinite
  <2>2. ASSUME NEW it, Played(o, up, program, r, it)
        PROVE  \E jt : Played(o, up, program, s, jt)
    <3> DEFINE jt == [t \in SUBSET s |-> IF m \in t THEN Op(it[t \ {m}], m) ELSE it[t]]
    <3>0. ASSUME NEW t \in SUBSET r, t # {}
          PROVE  it[t] = Op(it[t \ {Max(t)}], Max(t))
      BY <2>2, <3>0 DEF Played
    <3>00. it[{}] = Outcome(o, "ok")
      BY <2>2 DEF Played
    <3>1. ASSUME NEW t \in SUBSET s, m \in t
          PROVE  Max(t) = m
      <4>1. Max(t) \in t /\ \A x \in t : x <= Max(t)
        BY <3>1, MaxOf, SubsetsFinite
      <4>2. m <= Max(t) /\ Max(t) <= m /\ m \in Int /\ Max(t) \in Int
        BY <2>1, <3>1, <4>1
      <4> QED
        BY <4>2
    <3>2. ASSUME NEW t \in SUBSET s, t # {}, m \notin t
          PROVE  Max(t) \in t
      BY <3>2, MaxOf, SubsetsFinite
    <3>3. ASSUME NEW t \in SUBSET s
          PROVE  jt[t] = IF t = {} THEN Outcome(o, "ok") ELSE Op(jt[t \ {Max(t)}], Max(t))
      <4> HIDE DEF m, Op
      <4>1. CASE m \in t
        <5>1. t \ {m} \in SUBSET s /\ m \notin t \ {m}
          OBVIOUS
        <5>2. jt[t \ {m}] = it[t \ {m}]
          BY <5>1
        <5> QED
          BY <3>1, <4>1, <5>2
      <4>2. CASE m \notin t /\ t = {}
        BY <4>2, <3>00
      <4>3. CASE m \notin t /\ t # {}
        <5>1. Max(t) \in t /\ t \ {Max(t)} \in SUBSET s /\ m \notin t \ {Max(t)} /\ t \in SUBSET r
          BY <3>2, <4>3
        <5>2. jt[t] = it[t] /\ jt[t \ {Max(t)}] = it[t \ {Max(t)}]
          BY <4>3, <5>1
        <5>3. it[t] = Op(it[t \ {Max(t)}], Max(t))
          BY <3>0, <4>3, <5>1
        <5> QED
          BY <4>3, <5>2, <5>3
      <4> QED
        BY <4>1, <4>2, <4>3
    <3>4. jt = [t \in SUBSET s |-> IF t = {} THEN Outcome(o, "ok") ELSE Op(jt[t \ {Max(t)}], Max(t))]
      <4> HIDE DEF m, Op
      <4> QED
        BY <3>3
    <3>5. Played(o, up, program, s, jt)
      <4> HIDE DEF m, jt
      <4> QED
        BY <3>4 DEF Played
    <3> QED
      BY <3>5
  <2> QED
    BY <2>1, <2>2
<1>3. S \in G
  <2> HIDE DEF G
  <2> QED
    BY <1>1, <1>2, SubsetInduction
<1> QED
  BY <1>3

\* The outcomes r after the operations of a program of length n, in turn.
InTurn(o, up, program, n, r) ==
    /\ r[0] = Outcome(o, "ok")
    /\ \A k \in 1..n :
          r[k] = IF r[k - 1].result \in Failures THEN r[k - 1]
                 ELSE Step(r[k - 1].object, up, program[k])

LEMMA RunInTurn ==
    ASSUME NEW o, NEW up, NEW program, NEW n \in Nat, DOMAIN program = 1..n
    PROVE  \E r : InTurn(o, up, program, n, r) /\ Run(o, up, program) = r[n]
<1> DEFINE S == DOMAIN program
           it == CHOOSE it : Played(o, up, program, S, it)
           r == [k \in 0..n |-> it[1..k]]
<1>1. Played(o, up, program, S, it)
  <2>1. IsFiniteSet(S) /\ S \subseteq Int
    <3>1. 1 \in Int /\ n \in Int
      OBVIOUS
    <3> QED
      BY <3>1, FS_Interval
  <2> HIDE DEF S
  <2> QED
    BY <2>1, PlayedExists
<1>2. Run(o, up, program) = it[S]
  BY DEF Run, FoldLeft, MapThenFoldSet, Played
<1>3. ASSUME NEW k \in 1..n
      PROVE  Max(1..k) = k
  <2>0. k \in 1..k /\ k \in Int /\ 1 \in Int
    OBVIOUS
  <2>1. IsFiniteSet(1..k)
    BY <2>0, FS_Interval
  <2>2. Max(1..k) \in 1..k /\ \A x \in 1..k : x <= Max(1..k)
    <3>1. 1..k # {}
      BY <2>0
    <3>2. 1..k \subseteq Int
      OBVIOUS
    <3> QED
      BY <2>1, <3>1, <3>2, MaxOf
  <2> QED
    BY <2>2
<1>4. ASSUME NEW k \in 1..n
      PROVE  (1..k) \ {k} = 1..(k - 1)
  OBVIOUS
<1>5. ASSUME NEW k \in 1..n
      PROVE  1..k \in SUBSET S /\ 1..k # {}
  <2>1. k \in 1..k /\ 1..k \subseteq 1..n
    OBVIOUS
  <2> QED
    BY <2>1
<1> HIDE DEF it, S
<1>6. ASSUME NEW k \in 1..n
      PROVE  r[k] = IF r[k - 1].result \in Failures THEN r[k - 1]
                    ELSE Step(r[k - 1].object, up, program[k])
  <2>1. r[k] = it[1..k] /\ r[k - 1] = it[1..(k - 1)]
    <3>1. k \in 0..n /\ k - 1 \in 0..n
      OBVIOUS
    <3> QED
      BY ONLY <3>1
  <2>2. \A s \in SUBSET S : it[s] = IF s = {} THEN Outcome(o, "ok")
                                   ELSE IF it[s \ {Max(s)}].result \in Failures THEN it[s \ {Max(s)}]
                                   ELSE Step(it[s \ {Max(s)}].object, up, program[Max(s)])
    BY ONLY <1>1, Zenon DEF Played
  <2>3. 1..k \in SUBSET S /\ 1..k # {} /\ Max(1..k) = k /\ (1..k) \ {k} = 1..(k - 1)
    BY <1>3, <1>4, <1>5
  <2> HIDE DEF r
  <2>4. PICK T, U : T = 1..k /\ U = 1..(k - 1)
    OBVIOUS
  <2>5. T \in SUBSET S /\ T # {} /\ Max(T) = k /\ T \ {k} = U /\ r[k] = it[T] /\ r[k - 1] = it[U]
    BY ONLY <2>1, <2>3, <2>4, Zenon
  <2>6. it[T] = IF it[T \ {Max(T)}].result \in Failures THEN it[T \ {Max(T)}]
                ELSE Step(it[T \ {Max(T)}].object, up, program[Max(T)])
    BY ONLY <2>2, <2>5, Zenon
  <2> QED
    BY ONLY <2>5, <2>6, Zenon
<1>7. r[0] = Outcome(o, "ok")
  <2>1. 0 \in 0..n /\ 1..0 = {}
    OBVIOUS
  <2> QED
    BY <1>1, <2>1 DEF Played
<1>8. InTurn(o, up, program, n, r)
  <2> HIDE DEF r
  <2> QED
    BY <1>6, <1>7 DEF InTurn
<1>9. Run(o, up, program) = r[n]
  BY <1>2 DEF S
<1> QED
  BY <1>8, <1>9

LEMMA IntervalInduction ==
    ASSUME NEW n \in Nat, NEW H, 0 \in H, \A k \in 1..n : k - 1 \in H => k \in H
    PROVE  \A k \in 0..n : k \in H
<1> DEFINE Bad == {k \in 0..n : k \notin H}
<1>1. Bad = {}
  <2> SUFFICES ASSUME Bad # {} PROVE FALSE
    OBVIOUS
  <2>1. PICK c \in Bad : \A d \in Bad : c <= d
    <3>1. Bad \in SUBSET Nat
      OBVIOUS
    <3> HIDE DEF Bad
    <3> QED
      BY <3>1, Smallest
  <2>2. c \in 1..n /\ c - 1 \in 0..n /\ c - 1 < c
    BY <2>1
  <2>3. c - 1 \in H
    BY <2>1, <2>2
  <2> QED
    BY <2>1, <2>2, <2>3
<1> QED
  BY <1>1

-----------------------------------------------------------------------------
(* Every operation leaves a sound array.                                    *)

\* A descriptor that an operation may be asked to define.
Asked(d) ==
    /\ d \in [has : SUBSET (Flags \cup {"value", "get", "set"}), on : SUBSET Flags,
              value : {d.value}, get : {d.get}, set : {d.set}]
    /\ d.on \subseteq d.has
    /\ d.has \cap DataFields = {} \/ d.has \cap AccessorFields = {}

LEMMA DescriptorAsked == \A d \in Descriptor : Asked(d)
BY DEF Descriptor, Asked

LEMMA DataAsked == \A v : Asked(DataDescriptor(v, Flags)) /\ Asked(ValueDescriptor(v))
BY DEF DataDescriptor, ValueDescriptor, Asked, Flags, DataFields, AccessorFields

LEMMA RestrictedAsked ==
    ASSUME NEW s, SoundSlot(s), NEW off
    PROVE  Asked(Restricted(s, off))
BY DEF SoundSlot, Restricted, Asked, Flags, DataFields, AccessorFields

LEMMA PlainSound == \A v : SoundSlot(PlainSlot(v))
BY DEF SoundSlot, PlainSlot, Flags

LEMMA NewSlotSound ==
    ASSUME NEW d, Asked(d)
    PROVE  SoundSlot(NewSlot(d))
BY DEF Asked, SoundSlot, NewSlot, Flags, Kind, DataFields, AccessorFields

LEMMA MergeSound ==
    ASSUME NEW d, Asked(d), NEW s, SoundSlot(s)
    PROVE  SoundSlot(Merge(s, d))
<1>1. CASE Kind(d) = "generic"
  BY <1>1 DEF Asked, SoundSlot, Merge, Replaced, Flags
<1>2. CASE Kind(d) = "data"
  BY <1>2 DEF Asked, SoundSlot, Merge, Replaced, Flags
<1>3. CASE Kind(d) = "accessor"
  BY <1>3 DEF Asked, SoundSlot, Merge, Replaced, Flags
<1> QED
  BY <1>1, <1>2, <1>3 DEF Kind

\* The vector of a sound array.
LEMMA SoundVector ==
    ASSUME NEW o, Sound(o)
    PROVE  /\ Len(o.vector) \in Nat /\ DOMAIN o.vector = 1..Len(o.vector) /\ Len(o.vector) <= MaxVector
           /\ o.vector = [k \in 1..Len(o.vector) |-> o.vector[k]]
           /\ ~o.dense => \A k \in 1..Len(o.vector) : o.vector[k] = Empty
<1>1. Len(o.vector) \in Nat /\ DOMAIN o.vector = 1..Len(o.vector) /\ Len(o.vector) <= MaxVector
      /\ o.vector = [k \in 1..Len(o.vector) |-> o.vector[k]]
  BY DEF Sound
<1>2. ASSUME ~o.dense, NEW k \in 1..Len(o.vector)
      PROVE  o.vector[k] = Empty
  <2>1. k - 1 \in 0..(Len(o.vector) - 1) /\ (k - 1) + 1 = k
    BY <1>1
  <2> QED
    BY <1>2, <2>1 DEF Sound, FilledCells, Cell
<1> QED
  BY <1>1, <1>2

\* A new vector, structure and length for a dense array.
LEMMA DenseSound ==
    ASSUME NEW o, Sound(o), o.dense, NEW n \in Nat, n <= MaxVector,
           NEW v, v = [k \in 1..n |-> v[k]], NEW x \in BOOLEAN, NEW l \in Index
    PROVE  Sound([o EXCEPT !.vector = v, !.indexed = x, !.length = l])
<1> DEFINE p == [o EXCEPT !.vector = v, !.indexed = x, !.length = l]
<1>1. /\ p \in [dense : BOOLEAN, writable : BOOLEAN, extensible : BOOLEAN, indexed : BOOLEAN,
                vector : {v}, map : {o.map}, length : Index]
      /\ p.dense = o.dense /\ p.map = o.map /\ p.vector = v
  BY DEF Sound
<1>2. v \in Seq(Range(v)) /\ Len(v) = n
  BY SequenceOf
<1> HIDE DEF p
<1>3. Sound(p)
  BY <1>1, <1>2 DEF Sound
<1> QED
  BY <1>3 DEF p

LEMMA DefineDenseSound ==
    ASSUME NEW o, Sound(o), o.dense, NEW i \in Nat, i < MaxVector, NEW v
    PROVE  Sound(DefineDense(o, i, v))
<1> DEFINE n == Max({i + 1, Len(o.vector)})
           w == [Resize(o.vector, n) EXCEPT ![i + 1] = v]
           l == Max({o.length, i + 1})
           x == o.indexed \/ i >= Len(o.vector)
<1>1. Len(o.vector) \in Nat /\ Len(o.vector) <= MaxVector /\ o.length \in Index /\ o.indexed \in BOOLEAN
  BY SoundVector DEF Sound
<1>2. MaxVector \in Nat /\ MaxU32 \in Nat /\ MaxVector < MaxU32
  BY WidthAssumption
<1>3. n = IF i + 1 >= Len(o.vector) THEN i + 1 ELSE Len(o.vector)
  BY <1>1, MaxOfTwo
<1>4. n \in Nat /\ n <= MaxVector /\ i \in 0..(n - 1)
  BY <1>1, <1>2, <1>3
<1>5. l = IF o.length >= i + 1 THEN o.length ELSE i + 1
  BY <1>1, MaxOfTwo DEF Index
<1>6. l \in Index
  BY <1>1, <1>2, <1>5 DEF Index
<1>7. w = [k \in 1..n |-> w[k]]
  <2> HIDE DEF n
  <2> QED
    BY <1>4 DEF Resize
<1>8. x \in BOOLEAN
  BY <1>1
<1>9. DefineDense(o, i, v) = [o EXCEPT !.vector = w, !.indexed = x, !.length = l]
  BY DEF DefineDense
<1> HIDE DEF n, w, l, x
<1>10. Sound([o EXCEPT !.vector = w, !.indexed = x, !.length = l])
  BY <1>4, <1>6, <1>7, <1>8, DenseSound
<1> QED
  BY <1>9, <1>10

\* A new map, structure and length.
LEMMA MapSound ==
    ASSUME NEW o, Sound(o), NEW m, m = [i \in DOMAIN m |-> m[i]], NEW x \in BOOLEAN, NEW l \in Index,
           DOMAIN m \subseteq Nat, IsFiniteSet(DOMAIN m), \A i \in DOMAIN m : SoundSlot(m[i]),
           o.dense => \A i \in DOMAIN m : i >= MaxVector
    PROVE  Sound([o EXCEPT !.indexed = x, !.length = l, !.map = m])
<1> DEFINE p == [o EXCEPT !.indexed = x, !.length = l, !.map = m]
<1>1. /\ p \in [dense : BOOLEAN, writable : BOOLEAN, extensible : BOOLEAN, indexed : BOOLEAN,
                vector : {o.vector}, map : {m}, length : Index]
      /\ p.dense = o.dense /\ p.map = m /\ p.vector = o.vector
  BY DEF Sound
<1>2. m \in [DOMAIN m -> Range(m)]
  BY DEF Range
<1> HIDE DEF p
<1>3. Sound(p)
  BY <1>1, <1>2 DEF Sound, FilledCells, Cell
<1> QED
  BY <1>3 DEF p

LEMMA WritableSound ==
    ASSUME NEW o, Sound(o), NEW x \in BOOLEAN, NEW y \in BOOLEAN
    PROVE  Sound([o EXCEPT !.writable = x]) /\ Sound([o EXCEPT !.extensible = y])
<1> DEFINE p == [o EXCEPT !.writable = x]
           q == [o EXCEPT !.extensible = y]
<1>1. /\ p \in [dense : BOOLEAN, writable : BOOLEAN, extensible : BOOLEAN, indexed : BOOLEAN,
                vector : {o.vector}, map : {o.map}, length : Index]
      /\ p.dense = o.dense /\ p.map = o.map /\ p.vector = o.vector
      /\ q \in [dense : BOOLEAN, writable : BOOLEAN, extensible : BOOLEAN, indexed : BOOLEAN,
                vector : {o.vector}, map : {o.map}, length : Index]
      /\ q.dense = o.dense /\ q.map = o.map /\ q.vector = o.vector
  BY DEF Sound
<1> HIDE DEF p, q
<1>3. Sound(p) /\ Sound(q)
  BY <1>1 DEF Sound, FilledCells, Cell
<1> QED
  BY <1>3 DEF p, q

LEMMA LengthSound ==
    ASSUME NEW o, Sound(o), NEW l \in Index
    PROVE  Sound([o EXCEPT !.length = l])
<1> DEFINE p == [o EXCEPT !.length = l]
<1>1. /\ p \in [dense : BOOLEAN, writable : BOOLEAN, extensible : BOOLEAN, indexed : BOOLEAN,
                vector : {o.vector}, map : {o.map}, length : Index]
      /\ p.dense = o.dense /\ p.map = o.map /\ p.vector = o.vector
  BY DEF Sound
<1> HIDE DEF p
<1>3. Sound(p)
  BY <1>1 DEF Sound, FilledCells, Cell
<1> QED
  BY <1>3 DEF p

LEMMA FilledFinite ==
    ASSUME NEW o, Sound(o)
    PROVE  FilledCells(o) \subseteq Nat /\ IsFiniteSet(FilledCells(o))
           /\ \A i \in FilledCells(o) : i < MaxVector
<1>1. Len(o.vector) \in Nat /\ Len(o.vector) <= MaxVector
  BY SoundVector
<1>2. IsFiniteSet(0..(Len(o.vector) - 1))
  <2>1. 0 \in Int /\ Len(o.vector) - 1 \in Int
    BY <1>1
  <2> QED
    BY <2>1, FS_Interval
<1>3. FilledCells(o) \subseteq 0..(Len(o.vector) - 1)
  BY DEF FilledCells
<1>4. MaxVector \in Nat
  BY WidthAssumption
<1> QED
  BY <1>1, <1>2, <1>3, <1>4, FS_Subset

\* What make_sparse leaves, field by field.
LEMMA SparseFields ==
    ASSUME NEW o, Sound(o)
    PROVE  LET p == MakeSparse(o) IN
           /\ p \in [dense : {FALSE}, writable : {o.writable}, extensible : {o.extensible},
                     indexed : {o.indexed}, vector : {[k \in DOMAIN o.vector |-> Empty]},
                     map : {p.map}, length : {o.length}]
           /\ p.map = [i \in DOMAIN o.map \cup FilledCells(o) |->
                         IF i \in FilledCells(o) THEN PlainSlot(Cell(o, i)) ELSE o.map[i]]
BY DEF Sound, MakeSparse

LEMMA MakeSparseSound ==
    ASSUME NEW o, Sound(o)
    PROVE  Sound(MakeSparse(o))
<1> DEFINE p == MakeSparse(o)
           v == [k \in 1..Len(o.vector) |-> Empty]
<1>1. /\ p \in [dense : {FALSE}, writable : {o.writable}, extensible : {o.extensible},
                indexed : {o.indexed}, vector : {[k \in DOMAIN o.vector |-> Empty]},
                map : {p.map}, length : {o.length}]
      /\ p.map = [i \in DOMAIN o.map \cup FilledCells(o) |->
                    IF i \in FilledCells(o) THEN PlainSlot(Cell(o, i)) ELSE o.map[i]]
  BY SparseFields
<1>2. Len(o.vector) \in Nat /\ Len(o.vector) <= MaxVector /\ DOMAIN o.vector = 1..Len(o.vector)
  BY SoundVector
<1> HIDE DEF p
<1>3. v \in Seq(Range(v)) /\ Len(v) = Len(o.vector) /\ p.vector = v
  BY <1>1, <1>2, SequenceOf
<1>4. o.writable \in BOOLEAN /\ o.extensible \in BOOLEAN /\ o.indexed \in BOOLEAN /\ o.length \in Index
      /\ DOMAIN o.map \subseteq Nat /\ IsFiniteSet(DOMAIN o.map)
      /\ \A i \in DOMAIN o.map : SoundSlot(o.map[i])
  BY DEF Sound
<1>5. DOMAIN p.map \subseteq Nat /\ IsFiniteSet(DOMAIN p.map)
  BY <1>1, <1>4, FilledFinite, FS_Union
<1>6. \A i \in DOMAIN p.map : SoundSlot(p.map[i])
  BY <1>1, <1>4, PlainSound
<1>7. p.map \in [DOMAIN p.map -> Range(p.map)]
  BY <1>1 DEF Range
<1>8. FilledCells(p) = {}
  <2> SUFFICES ASSUME NEW i \in 0..(Len(p.vector) - 1) PROVE Cell(p, i) = Empty
    BY DEF FilledCells
  <2> QED
    BY <1>2, <1>3 DEF Cell
<1>9. p \in [dense : BOOLEAN, writable : BOOLEAN, extensible : BOOLEAN, indexed : BOOLEAN,
             vector : {p.vector}, map : {p.map}, length : Index]
      /\ p.dense = FALSE
  BY <1>1, <1>4
<1>10. Len(p.vector) <= MaxVector /\ p.vector \in Seq(Range(p.vector))
  BY <1>2, <1>3
<1>11. Sound(p)
  BY <1>5, <1>6, <1>7, <1>8, <1>9, <1>10 DEF Sound
<1> QED
  BY <1>11 DEF p

LEMMA MakeDenseSound ==
    ASSUME NEW o, Sound(o)
    PROVE  /\ Sound(MakeDense(o))
           /\ MakeDense(o).dense /\ MakeDense(o).vector = o.vector /\ MakeDense(o).map = NoElements
           /\ MakeDense(o).length = o.length /\ MakeDense(o).extensible = o.extensible
           /\ MakeDense(o).writable = o.writable
<1> DEFINE p == MakeDense(o)
<1>1. /\ p \in [dense : BOOLEAN, writable : BOOLEAN, extensible : BOOLEAN, indexed : BOOLEAN,
                vector : {o.vector}, map : {NoElements}, length : Index]
      /\ p.dense = TRUE /\ p.map = NoElements /\ p.vector = o.vector
      /\ p.length = o.length /\ p.extensible = o.extensible /\ p.writable = o.writable
  BY DEF Sound, MakeDense
<1>2. DOMAIN NoElements = {} /\ NoElements \in [{} -> Range(NoElements)]
  BY DEF NoElements
<1>3. IsFiniteSet({})
  BY FS_EmptySet
<1> HIDE DEF p
<1>4. Sound(p)
  BY <1>1, <1>2, <1>3 DEF Sound
<1> QED
  BY <1>1, <1>4 DEF p

LEMMA OutcomeFields ==
    \A o, r, t : /\ Outcome(o, r).object = o /\ Outcome(o, r).result = r
                 /\ Refused(o, t).object = o /\ Refused(o, t).result = IF t THEN "TypeError" ELSE "refused"
BY DEF Outcome, Refused

LEMMA OnlyMapSound ==
    ASSUME NEW o, Sound(o), NEW m, m = [i \in DOMAIN m |-> m[i]],
           DOMAIN m \subseteq Nat, IsFiniteSet(DOMAIN m), \A i \in DOMAIN m : SoundSlot(m[i]),
           o.dense => \A i \in DOMAIN m : i >= MaxVector
    PROVE  Sound([o EXCEPT !.map = m])
<1>1. o.indexed \in BOOLEAN /\ o.length \in Index
  BY DEF Sound
<1>2. Sound([o EXCEPT !.indexed = o.indexed, !.length = o.length, !.map = m])
  BY <1>1, MapSound
<1>3. [o EXCEPT !.map = m] = [o EXCEPT !.indexed = o.indexed, !.length = o.length, !.map = m]
  BY DEF Sound
<1> QED
  BY <1>2, <1>3

LEMMA MapMerged ==
    ASSUME NEW o, Sound(o), NEW i \in DOMAIN o.map, NEW s, SoundSlot(s)
    PROVE  Sound([o EXCEPT !.map[i] = s])
<1> DEFINE m == [o.map EXCEPT ![i] = s]
<1>1. DOMAIN m = DOMAIN o.map /\ m = [k \in DOMAIN m |-> m[k]]
      /\ \A k \in DOMAIN m : m[k] = IF k = i THEN s ELSE o.map[k]
  BY DEF Sound
<1>2. [o EXCEPT !.map[i] = s] = [o EXCEPT !.map = m]
  BY DEF Sound
<1>3. DOMAIN o.map \subseteq Nat /\ IsFiniteSet(DOMAIN o.map) /\ (\A k \in DOMAIN o.map : SoundSlot(o.map[k]))
      /\ (o.dense => \A k \in DOMAIN o.map : k >= MaxVector)
  BY DEF Sound
<1> HIDE DEF m
<1>4. Sound([o EXCEPT !.map = m])
  BY <1>1, <1>3, OnlyMapSound
<1> QED
  BY <1>2, <1>4

LEMMA MapExtended ==
    ASSUME NEW o, Sound(o), NEW i \in Nat, ~o.dense \/ i >= MaxVector, NEW s, SoundSlot(s)
    PROVE  LET m == Extended(o.map, i, s) IN
           /\ m = [k \in DOMAIN o.map \cup {i} |-> IF k = i THEN s ELSE o.map[k]]
           /\ \A x \in BOOLEAN : \A l \in Index : Sound([o EXCEPT !.indexed = x, !.length = l, !.map = m])
<1> DEFINE m == Extended(o.map, i, s)
<1>1. m = [k \in DOMAIN o.map \cup {i} |-> IF k = i THEN s ELSE o.map[k]]
  BY DEF Extended
<1>2. DOMAIN o.map \subseteq Nat /\ IsFiniteSet(DOMAIN o.map) /\ (\A k \in DOMAIN o.map : SoundSlot(o.map[k]))
      /\ (o.dense => \A k \in DOMAIN o.map : k >= MaxVector)
  BY DEF Sound
<1> HIDE DEF m
<1>3. DOMAIN m = DOMAIN o.map \cup {i}
  BY <1>1
<1>4. IsFiniteSet(DOMAIN m)
  BY <1>2, <1>3, FS_AddElement
<1>5. /\ m = [k \in DOMAIN m |-> m[k]]
      /\ DOMAIN m \subseteq Nat
      /\ \A k \in DOMAIN m : SoundSlot(m[k])
      /\ o.dense => \A k \in DOMAIN m : k >= MaxVector
  BY <1>1, <1>2, <1>3
<1>6. ASSUME NEW x \in BOOLEAN, NEW l \in Index
      PROVE  Sound([o EXCEPT !.indexed = x, !.length = l, !.map = m])
  BY <1>4, <1>5, MapSound
<1> QED
  BY <1>1, <1>6 DEF m

\* The length that an element at i makes.
LEMMA LongEnough ==
    ASSUME NEW l \in Index, NEW i \in Nat
    PROVE  (IF i < l THEN l ELSE (i + 1) % (MaxU32 + 1)) \in Index
<1>1. MaxU32 \in Nat
  BY WidthAssumption
<1>2. (i + 1) % (MaxU32 + 1) \in 0..MaxU32
  BY <1>1
<1> QED
  BY <1>2 DEF Index

LEMMA DefineInMapSound ==
    ASSUME NEW o, Sound(o), NEW i \in Nat, ~o.dense \/ i >= MaxVector, NEW d, Asked(d), NEW t
    PROVE  Sound(DefineInMap(o, i, d, t).object)
<1>1. CASE i \in DOMAIN o.map
  <2>1. SoundSlot(Merge(o.map[i], d))
    BY <1>1, MergeSound DEF Sound
  <2>2. Sound([o EXCEPT !.map[i] = Merge(o.map[i], d)])
    BY <1>1, <2>1, MapMerged
  <2>3. [o EXCEPT !.map[i] = Merge(@, d)] = [o EXCEPT !.map[i] = Merge(o.map[i], d)]
    OBVIOUS
  <2>4. DefineInMap(o, i, d, t).object \in {o, [o EXCEPT !.map[i] = Merge(o.map[i], d)]}
    BY <1>1, <2>3, OutcomeFields DEF DefineInMap
  <2> QED
    BY <2>2, <2>4
<1>2. CASE i \notin DOMAIN o.map
  <2> DEFINE l == IF i < o.length THEN o.length ELSE (i + 1) % (MaxU32 + 1)
             m == Extended(o.map, i, NewSlot(d))
  <2>1. l \in Index
    BY LongEnough DEF Sound
  <2>2. SoundSlot(NewSlot(d))
    BY NewSlotSound
  <2>3. Sound([o EXCEPT !.indexed = TRUE, !.length = l, !.map = m])
    <3> HIDE DEF l
    <3> QED
      BY <2>1, <2>2, MapExtended
  <2>4. DefineInMap(o, i, d, t).object \in {o, [o EXCEPT !.indexed = TRUE, !.length = l, !.map = m]}
    BY <1>2, OutcomeFields DEF DefineInMap
  <2> QED
    BY <2>3, <2>4
<1> QED
  BY <1>1, <1>2

LEMMA DefineSound ==
    ASSUME NEW o, Sound(o), NEW i \in Nat, NEW d, Asked(d), NEW t
    PROVE  Sound(Define(o, i, d, t).object)
<1> DEFINE v == IF "value" \in d.has THEN d.value ELSE Undefined
<1>1. CASE i >= o.length /\ ~o.writable
  BY <1>1, OutcomeFields DEF Define
<1>2. CASE o.dense /\ IsDefault(d) /\ i < MaxVector /\ ~(i >= o.length /\ ~o.writable)
  <2>1. Define(o, i, d, t).object = DefineDense(o, i, v)
    BY <1>2, OutcomeFields DEF Define
  <2> HIDE DEF v
  <2> QED
    BY <1>2, <2>1, DefineDenseSound
<1>3. CASE ~(o.dense /\ IsDefault(d) /\ i < MaxVector) /\ ~(i >= o.length /\ ~o.writable)
  <2> DEFINE p == IF o.dense /\ ~IsDefault(d) /\ i < MaxVector THEN MakeSparse(o) ELSE o
  <2>1. Sound(p) /\ (~p.dense \/ i >= MaxVector)
    <3>1. MaxVector \in Nat /\ o.dense \in BOOLEAN
      BY WidthAssumption DEF Sound
    <3>2. ~MakeSparse(o).dense
      BY SparseFields
    <3> QED
      BY <1>3, <3>1, <3>2, MakeSparseSound
  <2>2. \/ Define(o, i, d, t).object = o
        \/ Define(o, i, d, t).object = DefineInMap(p, i, d, t).object
    BY <1>3, OutcomeFields DEF Define
  <2> HIDE DEF p
  <2>3. Sound(DefineInMap(p, i, d, t).object)
    BY <2>1, DefineInMapSound
  <2> QED
    BY <2>2, <2>3
<1> QED
  BY <1>1, <1>2, <1>3

LEMMA CellSound ==
    ASSUME NEW o, Sound(o), NEW i \in Nat, InVector(o, i), NEW v
    PROVE  Sound([o EXCEPT !.vector[i + 1] = v])
<1> DEFINE w == [o.vector EXCEPT ![i + 1] = v]
<1>1. Len(o.vector) \in Nat /\ Len(o.vector) <= MaxVector /\ DOMAIN o.vector = 1..Len(o.vector)
  BY SoundVector
<1>2. w = [k \in 1..Len(o.vector) |-> w[k]]
  BY <1>1
<1>3. o.dense /\ o.indexed \in BOOLEAN /\ o.length \in Index
  BY DEF Sound, InVector
<1>4. [o EXCEPT !.vector[i + 1] = v] = [o EXCEPT !.vector = w, !.indexed = o.indexed, !.length = o.length]
  BY DEF Sound
<1> HIDE DEF w
<1>5. Sound([o EXCEPT !.vector = w, !.indexed = o.indexed, !.length = o.length])
  BY <1>1, <1>2, <1>3, DenseSound
<1> QED
  BY <1>4, <1>5

LEMMA PutSound ==
    ASSUME NEW o, Sound(o), NEW up, NEW i \in Nat, NEW v, NEW t
    PROVE  Sound(Put(o, up, i, v, t).object)
<1>1. CASE i < MaxVector /\ o.dense /\ (up = <<>> \/ HasIndexed(up))
  BY <1>1, OutcomeFields, DefineDenseSound DEF Put
<1>2. CASE ~(i < MaxVector /\ o.dense /\ (up = <<>> \/ HasIndexed(up)))
  <2>1. Put(o, up, i, v, t).object \in
            {o, Define(o, i, ValueDescriptor(v), t).object, Define(o, i, DataDescriptor(v, Flags), t).object}
    BY <1>2, OutcomeFields DEF Put
  <2> QED
    BY <2>1, DataAsked, DefineSound
<1> QED
  BY <1>1, <1>2

LEMMA PutByValSound ==
    ASSUME NEW o, Sound(o), NEW up, NEW i \in Nat, NEW v, NEW t
    PROVE  Sound(PutByVal(o, up, i, v, t).object) /\ Sound(PutByFraction(o, i, v).object)
<1>1. CASE InVector(o, i)
  <2>1. PICK q : q = [o EXCEPT !.vector[i + 1] = v]
    OBVIOUS
  <2>2. Sound(q)
    BY <1>1, <2>1, CellSound
  <2>3. PutByVal(o, up, i, v, t) = Outcome(q, "ok") /\ PutByFraction(o, i, v) = Outcome(q, "ok")
    BY ONLY <1>1, <2>1, Zenon DEF PutByVal, PutByFraction
  <2> QED
    BY ONLY <2>2, <2>3, OutcomeFields
<1>2. CASE ~InVector(o, i)
  BY <1>2, OutcomeFields, PutSound DEF PutByVal, PutByFraction
<1> QED
  BY <1>1, <1>2

\* The map without some of its indices.
LEMMA WithoutSound ==
    ASSUME NEW o, Sound(o), NEW D
    PROVE  Sound(Without(o, D)) /\ Without(o, D).length = o.length
<1> DEFINE m == Restrict(o.map, DOMAIN o.map \ D)
<1>1. m = [i \in DOMAIN m |-> m[i]] /\ DOMAIN m = DOMAIN o.map \ D /\ \A i \in DOMAIN m : m[i] = o.map[i]
  BY DEF Restrict
<1>2. DOMAIN o.map \subseteq Nat /\ IsFiniteSet(DOMAIN o.map) /\ (\A k \in DOMAIN o.map : SoundSlot(o.map[k]))
      /\ (o.dense => \A k \in DOMAIN o.map : k >= MaxVector)
  BY DEF Sound
<1> HIDE DEF m
<1>3. IsFiniteSet(DOMAIN m)
  BY <1>1, <1>2, FS_Subset
<1>4. Sound([o EXCEPT !.map = m])
  BY <1>1, <1>2, <1>3, OnlyMapSound
<1>5. [o EXCEPT !.map = m].length = o.length
  BY DEF Sound
<1>6. Without(o, D) \in {MakeDense(o), [o EXCEPT !.map = m]}
  BY DEF Without, m
<1> QED
  BY <1>4, <1>5, <1>6, MakeDenseSound

LEMMA DeleteSound ==
    ASSUME NEW o, Sound(o), NEW i \in Nat, NEW t
    PROVE  Sound(Delete(o, i, t).object)
<1>1. CASE InVector(o, i)
  <2>1. Delete(o, i, t).object \in {o, [o EXCEPT !.vector[i + 1] = Empty]}
    BY <1>1, OutcomeFields DEF Delete
  <2> QED
    BY <1>1, <2>1, CellSound
<1>2. CASE ~InVector(o, i)
  <2>1. Delete(o, i, t).object \in {o, Without(o, {i})}
    BY <1>2, OutcomeFields DEF Delete
  <2> QED
    BY <2>1, WithoutSound
<1> QED
  BY <1>1, <1>2

\* The place where a set_length stops.
Ordered(o, order) == order.last = {} \/ \E k \in Nat : k < o.length /\ order.last = {k}

LEMMA MaxOfOne ==
    ASSUME NEW k \in Int
    PROVE  Max({k}) = k
BY DEF Max

LEMMA IndexBelow ==
    ASSUME NEW l \in Index, NEW k \in Nat, k < l
    PROVE  k \in Index /\ k + 1 \in Index
BY WidthAssumption DEF Index

LEMMA ShrinkDenseSound ==
    ASSUME NEW o, Sound(o), o.dense, NEW n \in Index
    PROVE  Sound(ShrinkDense(o, n))
<1>0. MaxVector \in Nat /\ n \in Nat
  BY WidthAssumption DEF Index
<1>1. CASE n <= MaxVector
  <2> DEFINE l == Min({n, Len(o.vector)})
             w == Resize(o.vector, l)
             p == MakeDense(o)
  <2>1. Len(o.vector) \in Nat /\ Len(o.vector) <= MaxVector
    BY SoundVector
  <2>2. l = IF n <= Len(o.vector) THEN n ELSE Len(o.vector)
    BY <1>0, <2>1, MinOfTwo
  <2>3. l \in Nat /\ l <= MaxVector
    BY <1>0, <1>1, <2>1, <2>2
  <2>4. w = [k \in 1..l |-> w[k]]
    BY DEF Resize
  <2>5. Sound(p) /\ p.dense /\ p.vector = o.vector
    BY MakeDenseSound
  <2>6. p.indexed \in BOOLEAN
    BY <2>5 DEF Sound
  <2>7. ShrinkDense(o, n) = [p EXCEPT !.vector = w, !.length = n]
    BY <1>1, <2>5 DEF ShrinkDense
  <2> HIDE DEF p, w, l
  <2>8. Sound([p EXCEPT !.vector = w, !.indexed = p.indexed, !.length = n])
    BY <2>3, <2>4, <2>5, <2>6, DenseSound
  <2>9. [p EXCEPT !.vector = w, !.length = n] = [p EXCEPT !.vector = w, !.indexed = p.indexed, !.length = n]
    BY <2>5 DEF Sound
  <2> QED
    BY <2>7, <2>8, <2>9
<1>2. CASE ~(n <= MaxVector)
  <2>1. \E gone : ShrinkDense(o, n) = [Without(o, gone) EXCEPT !.length = n]
    BY <1>2 DEF ShrinkDense
  <2> QED
    BY <2>1, WithoutSound, LengthSound
<1> QED
  BY <1>1, <1>2

LEMMA ShrinkSparseSound ==
    ASSUME NEW o, Sound(o), NEW n \in Index, n < o.length, NEW t
    PROVE  Sound(ShrinkSparse(o, n, t).object)
<1> DEFINE fixed == Fixed(o, n..(o.length - 1))
           m == IF fixed = {} THEN n ELSE Max(fixed) + 1
<1>1. o.length \in Index /\ IsFiniteSet(DOMAIN o.map) /\ n \in Nat /\ o.length \in Nat
  BY DEF Sound, Index
<1>2. fixed \subseteq DOMAIN o.map /\ fixed \subseteq n..(o.length - 1)
  BY DEF Fixed
<1>3. fixed # {} => Max(fixed) \in n..(o.length - 1)
  <2>1. IsFiniteSet(fixed) /\ fixed \subseteq Int
    BY <1>1, <1>2, FS_Subset
  <2> HIDE DEF fixed
  <2> QED
    BY <1>2, <2>1, MaxOf
<1>4. m \in Index
  <2>1. CASE fixed = {}
    BY <2>1
  <2>2. CASE fixed # {}
    <3>1. Max(fixed) \in Nat /\ Max(fixed) < o.length
      BY <1>1, <1>3, <2>2
    <3> QED
      BY <1>1, <2>2, <3>1, IndexBelow
  <2> QED
    BY <2>1, <2>2
<1>5. ShrinkSparse(o, n, t).object = [Without(o, m..(o.length - 1)) EXCEPT !.length = m]
  BY OutcomeFields DEF ShrinkSparse
<1> HIDE DEF m
<1> QED
  BY <1>4, <1>5, WithoutSound, LengthSound

LEMMA ShrinkFarSound ==
    ASSUME NEW o, Sound(o), NEW n \in Index, NEW t, NEW order, Ordered(o, order)
    PROVE  Sound(ShrinkFar(o, n, t, order.gone, order.last).object)
<1>1. CASE order.last = {}
  <2>1. ShrinkFar(o, n, t, order.gone, order.last).object = [Without(o, order.gone) EXCEPT !.length = n]
    BY <1>1, OutcomeFields DEF ShrinkFar
  <2> QED
    BY <2>1, WithoutSound, LengthSound
<1>2. ASSUME NEW k \in Nat, k < o.length, order.last = {k}
      PROVE  Sound(ShrinkFar(o, n, t, order.gone, order.last).object)
  <2>1. ShrinkFar(o, n, t, order.gone, order.last).object = [Without(o, order.gone) EXCEPT !.length = k + 1]
    BY <1>2, OutcomeFields, MaxOfOne DEF ShrinkFar
  <2>2. k + 1 \in Index
    BY <1>2, IndexBelow DEF Sound
  <2> QED
    BY <2>1, <2>2, WithoutSound, LengthSound
<1> QED
  BY <1>1, <1>2 DEF Ordered

LEMMA SetLengthSound ==
    ASSUME NEW o, Sound(o), NEW n \in Index, NEW t, NEW order, Ordered(o, order)
    PROVE  Sound(SetLength(o, n, t, order).object)
<1>0. o.length \in Int /\ n \in Int
  BY WidthAssumption DEF Sound, Index
<1>1. CASE n = MaxU32
  <2>1. ~(n < o.length)
    BY <1>0, <1>1 DEF Sound, Index
  <2> QED
    BY <1>1, <2>1, OutcomeFields DEF SetLength, FarShrink
<1>2. CASE n # MaxU32 /\ n >= o.length
  <2>1. SetLength(o, n, t, order).object = [o EXCEPT !.length = n]
    BY <1>2, <1>0, OutcomeFields DEF SetLength, FarShrink
  <2> QED
    BY <2>1, LengthSound
<1>3. CASE n # MaxU32 /\ n < o.length /\ o.dense
  <2>1. SetLength(o, n, t, order).object = ShrinkDense(o, n)
    BY <1>3, <1>0, OutcomeFields DEF SetLength, FarShrink
  <2> QED
    BY <1>3, <2>1, ShrinkDenseSound
<1>4. CASE n # MaxU32 /\ n < o.length /\ FarShrink(o, n)
  <2>1. SetLength(o, n, t, order) = ShrinkFar(o, n, t, order.gone, order.last)
    BY <1>4, <1>0 DEF SetLength, FarShrink
  <2> QED
    BY <2>1, ShrinkFarSound
<1>5. CASE n # MaxU32 /\ n < o.length /\ ~o.dense /\ ~FarShrink(o, n)
  <2>1. SetLength(o, n, t, order) = ShrinkSparse(o, n, t)
    BY <1>5, <1>0 DEF SetLength
  <2> QED
    BY <1>5, <2>1, ShrinkSparseSound
<1> QED
  BY <1>0, <1>1, <1>2, <1>3, <1>4, <1>5

LEMMA LengthWritableSound ==
    ASSUME NEW o, Sound(o), NEW x, NEW t
    PROVE  Sound(ChangeLengthWritable(o, x, t).object)
<1>1. ChangeLengthWritable(o, x, t).object \in {o, [o EXCEPT !.writable = FALSE]}
  BY OutcomeFields DEF ChangeLengthWritable
<1> QED
  BY <1>1, WritableSound

\* A value that the length may be given.
Measured(d) == "value" \in d.has => d.value \in Index \cup {-1}

LEMMA DefineLengthSound ==
    ASSUME NEW o, Sound(o), NEW d, Measured(d), NEW t, NEW order, Ordered(o, order)
    PROVE  Sound(DefineLength(o, d, t, order).object)
<1> DEFINE set == IF "value" \notin d.has \/ d.value = o.length THEN Outcome(o, "ok")
                  ELSE IF d.value = -1 THEN Outcome(o, "TypeError")
                  ELSE IF ~o.writable THEN Refused(o, t)
                  ELSE SetLength(o, d.value, t, order)
<1>1. Sound(set.object)
  <2>1. CASE "value" \notin d.has \/ d.value = o.length \/ d.value = -1 \/ ~o.writable
    BY <2>1, OutcomeFields
  <2>2. CASE ~("value" \notin d.has \/ d.value = o.length \/ d.value = -1 \/ ~o.writable)
    <3>1. d.value \in Index
      BY <2>2 DEF Measured
    <3> QED
      BY <2>2, <3>1, SetLengthSound
  <2> QED
    BY <2>1, <2>2
<1>2. DefineLength(o, d, t, order).object \in
          {o, set.object, ChangeLengthWritable(set.object, "W" \in d.on, t).object}
  BY OutcomeFields DEF DefineLength
<1> HIDE DEF set
<1> QED
  BY <1>1, <1>2, LengthWritableSound

LEMMA PutLengthSound ==
    ASSUME NEW o, Sound(o), NEW n \in Index \cup {-1}, NEW t, NEW order, Ordered(o, order)
    PROVE  Sound(PutLength(o, n, t, order).object)
<1>1. Measured(ToLength(n))
  BY DEF Measured, ToLength, LengthDescriptor
<1> QED
  BY <1>1, OutcomeFields, DefineLengthSound DEF PutLength

LEMMA PreventSound ==
    ASSUME NEW o, Sound(o)
    PROVE  Sound(PreventExtensions(o))
BY WritableSound, MakeSparseSound DEF PreventExtensions

LEMMA OwnSound ==
    ASSUME NEW o, Sound(o), NEW i, GetOwn(o, i) # NotFound
    PROVE  SoundSlot(GetOwn(o, i))
BY PlainSound DEF GetOwn, Sound

LEMMA NamesFinite ==
    ASSUME NEW o, Sound(o)
    PROVE  OwnNames(o) \subseteq Nat /\ IsFiniteSet(OwnNames(o))
<1>1. DOMAIN o.map \subseteq Nat /\ IsFiniteSet(DOMAIN o.map)
  BY DEF Sound
<1>2. FilledCells(o) \subseteq Nat /\ IsFiniteSet(FilledCells(o))
  BY FilledFinite
<1>3. IsFiniteSet(FilledCells(o) \cup DOMAIN o.map)
  BY <1>1, <1>2, FS_Union
<1>4. OwnNames(o) \subseteq FilledCells(o) \cup DOMAIN o.map
  BY DEF OwnNames
<1> QED
  BY <1>1, <1>2, <1>3, <1>4, FS_Subset

LEMMA RedefineSound ==
    ASSUME NEW x, Sound(x.object), NEW i \in Nat, NEW off
    PROVE  Sound(Redefine(x, i, off).object)
<1>1. CASE x.result # "ok" \/ GetOwn(x.object, i) = NotFound
  BY <1>1, OutcomeFields DEF Redefine
<1>2. CASE ~(x.result # "ok" \/ GetOwn(x.object, i) = NotFound)
  BY <1>2, OwnSound, RestrictedAsked, DefineSound DEF Redefine
<1> QED
  BY <1>1, <1>2

LEMMA IntegritySound ==
    ASSUME NEW o, Sound(o), NEW off
    PROVE  Sound(Integrity(o, off).object)
<1> DEFINE S == OwnNames(o)
           b == Outcome(Locked(o, off), "ok")
<1>1. S \subseteq Nat /\ S \subseteq Int /\ IsFiniteSet(S)
  BY NamesFinite
<1>2. PICK it : /\ Redefined(b, off, S, it)
                /\ Integrity(o, off) = IF it[S].result = "ok"
                                       THEN Outcome(PreventExtensions(it[S].object), "ok") ELSE it[S]
  BY <1>1, IntegrityFolds
<1>3. Sound(b.object)
  <2>1. (o.writable /\ "W" \notin off) \in BOOLEAN
    OBVIOUS
  <2>2. Sound([o EXCEPT !.writable = o.writable /\ "W" \notin off])
    BY <2>1, WritableSound
  <2> QED
    BY <2>2, OutcomeFields DEF Locked
<1>4. Sound(it[S].object)
  <2> DEFINE H == {s \in SUBSET S : Sound(it[s].object)}
  <2> HIDE DEF b
  <2>1. {} \in H
    BY <1>2, <1>3 DEF Redefined
  <2>2. ASSUME NEW s \in SUBSET S, s # {}
        PROVE  \E x \in s : s \ {x} \in H => s \in H
    <3>1. Max(s) \in s
      BY <1>1, <2>2, MaxOf, SubsetsFinite
    <3>2. it[s] = Redefine(it[s \ {Max(s)}], Max(s), off)
      BY <1>2, <2>2 DEF Redefined
    <3> HIDE DEF S
    <3> QED
      BY <1>1, <3>1, <3>2, RedefineSound
  <2>3. S \in H
    <3> HIDE DEF H
    <3> QED
      BY <1>1, <2>1, <2>2, SubsetInduction
  <2> QED
    BY <2>3
<1> HIDE DEF S, b
<1> QED
  BY <1>2, <1>4, OutcomeFields, PreventSound

\* What an operation may be asked: indices are natural numbers, descriptors have
\* the fields of one kind, lengths are u32 or none.
Legal(o, w) ==
    /\ w.op \in {"put", "byval", "fraction", "define", "delete"} => w.i \in Nat
    /\ w.op = "define" => Asked(w.d)
    /\ w.op = "length" => Measured(w.d) /\ Ordered(o, w.order)
    /\ w.op = "assign length" => w.n \in Index \cup {-1} /\ Ordered(o, w.order)

\* Every operation leaves a sound array.
LEMMA StepSound ==
    ASSUME NEW o, Sound(o), NEW up, NEW w, Legal(o, w)
    PROVE  Sound(Step(o, up, w).object)
<1>1. CASE w.op = "put"
  BY <1>1, PutSound DEF Step, Legal
<1>2. CASE w.op = "byval"
  BY <1>2, PutByValSound DEF Step, Legal
<1>3. CASE w.op = "fraction"
  BY <1>3, PutByValSound DEF Step, Legal
<1>4. CASE w.op = "define"
  BY <1>4, DefineSound DEF Step, Legal
<1>5. CASE w.op = "delete"
  BY <1>5, DeleteSound DEF Step, Legal
<1>6. CASE w.op = "length"
  BY <1>6, DefineLengthSound DEF Step, Legal
<1>7. CASE w.op = "assign length"
  BY <1>7, PutLengthSound DEF Step, Legal
<1>8. CASE w.op = "freeze"
  BY <1>8, IntegritySound DEF Step, Freeze
<1>9. CASE w.op = "seal"
  BY <1>9, IntegritySound DEF Step, Seal
<1>11. CASE w.op = "throw"
  BY <1>11, OutcomeFields DEF Step
<1>10. CASE w.op \notin {"put", "byval", "fraction", "define", "delete", "length", "assign length",
                         "freeze", "seal", "throw"}
  <2>1. w.op # "put" /\ w.op # "byval" /\ w.op # "fraction" /\ w.op # "define" /\ w.op # "delete"
        /\ w.op # "length" /\ w.op # "assign length" /\ w.op # "freeze" /\ w.op # "seal" /\ w.op # "throw"
    BY <1>10
  <2>2. Step(o, up, w) = Outcome(PreventExtensions(o), "ok")
    BY <2>1 DEF Step
  <2> QED
    BY <2>2, PreventSound, OutcomeFields
<1> QED
  BY <1>1, <1>2, <1>3, <1>4, <1>5, <1>6, <1>7, <1>8, <1>9, <1>10, <1>11

\* The operations of programs.
Element(w) == w.op = "throw" \/ (w.op \in {"put", "byval", "fraction", "delete"} /\ w.i \in Nat)
Lengthens(w) == w.op = "assign length" /\ w.n \in Index \cup {-1} /\ w.order = NoOrder

LEMMA OfAnyArray ==
    ASSUME NEW o, NEW w, Element(w) \/ Lengthens(w)
    PROVE  Legal(o, w)
<1>1. CASE Element(w)
  BY <1>1 DEF Element, Legal
<1>2. CASE Lengthens(w)
  <2>1. w.order = NoOrder /\ w.op = "assign length" /\ w.n \in Index \cup {-1}
    BY <1>2 DEF Lengthens
  <2>0. NoOrder.last = {}
    BY DEF NoOrder
  <2>2. w.order.last = {}
    BY <2>0, <2>1
  <2> QED
    BY <2>1, <2>2 DEF Legal, Ordered
<1> QED
  BY <1>1, <1>2

\* A program of n operations, the last of which may be one on the length.
Playable(program, n) ==
    /\ n \in Nat /\ program = [k \in 1..n |-> program[k]]
    /\ \A k \in 1..n : Element(program[k]) \/ (k = n /\ Lengthens(program[k]))

LEMMA RunSound ==
    ASSUME NEW o, Sound(o), NEW up, NEW program, NEW n, Playable(program, n)
    PROVE  Sound(Run(o, up, program).object)
<1>0. n \in Nat /\ DOMAIN program = 1..n
  BY DEF Playable
<1>1. PICK r : InTurn(o, up, program, n, r) /\ Run(o, up, program) = r[n]
  BY <1>0, RunInTurn
<1> DEFINE H == {k \in 0..n : Sound(r[k].object)}
<1>2. 0 \in H
  BY <1>0, <1>1, OutcomeFields DEF InTurn
<1>3. ASSUME NEW k \in 1..n, k - 1 \in H
      PROVE  k \in H
  <2>1. r[k].object \in {r[k - 1].object, Step(r[k - 1].object, up, program[k]).object}
    BY <1>1 DEF InTurn
  <2>2. Legal(r[k - 1].object, program[k])
    BY OfAnyArray DEF Playable
  <2>3. Sound(Step(r[k - 1].object, up, program[k]).object)
    BY <1>3, <2>2, StepSound
  <2>4. k \in 0..n
    BY <1>0
  <2> QED
    BY <1>3, <2>1, <2>3, <2>4
<1>4. n \in H
  <2>1. n \in 0..n
    BY <1>0
  <2> HIDE DEF H
  <2> QED
    BY <1>0, <1>2, <1>3, <2>1, IntervalInduction
<1> QED
  BY <1>1, <1>4

-----------------------------------------------------------------------------
(* What the methods ask.                                                    *)

LEMMA ConcatPlayable ==
    ASSUME NEW p, NEW m, Playable(p, m), \A k \in 1..m : Element(p[k]),
           NEW q, NEW n, Playable(q, n)
    PROVE  Playable(p \o q, m + n)
<1> DEFINE S == Range(p) \cup Range(q)
<1>1. m \in Nat /\ p = [k \in 1..m |-> p[k]] /\ n \in Nat /\ q = [k \in 1..n |-> q[k]]
  BY DEF Playable
<1>2. p \in Seq(Range(p)) /\ Len(p) = m /\ q \in Seq(Range(q)) /\ Len(q) = n
  BY <1>1, SequenceOf
<1>3. p \in Seq(S) /\ q \in Seq(S)
  BY <1>2, SeqMonotonic
<1> HIDE DEF S
<1>4. /\ p \o q \in Seq(S) /\ Len(p \o q) = m + n
      /\ \A i \in 1..(m + n) : (p \o q)[i] = IF i <= m THEN p[i] ELSE q[i - m]
  BY <1>2, <1>3, ConcatProperties
<1>5. p \o q = [k \in 1..(m + n) |-> (p \o q)[k]]
  <2> DEFINE r == p \o q
  <2>1. r \in Seq(S) /\ Len(r) = m + n
    BY <1>4
  <2> HIDE DEF r
  <2>2. r = [k \in 1..(m + n) |-> r[k]]
    BY <2>1
  <2> QED
    BY <2>2 DEF r
<1>6. ASSUME NEW k \in 1..(m + n)
      PROVE  Element((p \o q)[k]) \/ (k = m + n /\ Lengthens((p \o q)[k]))
  <2>1. CASE k <= m
    BY <1>1, <1>4, <2>1
  <2>2. CASE ~(k <= m)
    <3>1. k - m \in 1..n /\ (k - m = n => k = m + n)
      BY <1>1, <2>2
    <3> QED
      BY <1>4, <2>2, <3>1 DEF Playable
  <2> QED
    BY <2>1, <2>2
<1> QED
  BY <1>1, <1>5, <1>6 DEF Playable

LEMMA Operations ==
    \A v, t :
        /\ \A i \in Nat : /\ Element(Assign(i, v, t)) /\ Element(AssignByVal(i, v)) /\ Element(DeleteAt(i, t))
                          /\ Element([op |-> "fraction", i |-> i, v |-> v])
        /\ \A n \in Index \cup {-1} : Lengthens(AssignLength(n, t))
BY DEF Element, Lengthens, Assign, AssignByVal, DeleteAt, AssignLength

LEMMA OnePlayable ==
    ASSUME NEW w, Element(w) \/ Lengthens(w)
    PROVE  Playable(<<w>>, 1)
<1>1. <<w>> = [k \in 1..1 |-> <<w>>[k]] /\ \A k \in 1..1 : k = 1 /\ <<w>>[k] = w
  OBVIOUS
<1> QED
  BY <1>1 DEF Playable

LEMMA EmptyPlayable == Playable(<<>>, 0)
<1>1. <<>> = [k \in 1..0 |-> <<>>[k]]
  OBVIOUS
<1> QED
  BY <1>1 DEF Playable

LEMMA SpanFields ==
    ASSUME NEW m \in Int, NEW n \in Int
    PROVE  /\ Max({n - m, 0}) \in Nat
           /\ Span(m, n) = [k \in 1..Max({n - m, 0}) |-> m + k - 1]
           /\ \A k \in 1..Max({n - m, 0}) : Span(m, n)[k] \in m..(n - 1) /\ k <= n - m
<1> DEFINE c == Max({n - m, 0})
<1>1. c = IF n - m >= 0 THEN n - m ELSE 0
  BY MaxOfTwo
<1>2. Span(m, n) = [k \in 1..c |-> m + k - 1]
  BY DEF Span
<1> HIDE DEF c
<1>3. c \in Nat /\ \A k \in 1..c : m + k - 1 \in m..(n - 1) /\ k <= n - m
  BY <1>1
<1>4. \A k \in 1..c : Span(m, n)[k] = m + k - 1
  BY <1>2
<1>5. \A k \in 1..c : Span(m, n)[k] \in m..(n - 1) /\ k <= n - m
  BY <1>3, <1>4
<1> QED
  BY <1>2, <1>3, <1>5 DEF c

LEMMA SignedLength ==
    ASSUME NEW n \in Index
    PROVE  Signed(n) \in Int /\ Signed(n) <= n /\ (Signed(n) < 0 \/ Signed(n) = n)
<1>1. MaxU32 \in Nat /\ MaxU32 \div 2 \in Nat /\ n \in 0..MaxU32
  BY WidthAssumption DEF Index
<1> QED
  BY <1>1 DEF Signed

LEMMA PushPlayable ==
    ASSUME NEW o, Sound(o), NEW S, NEW vs \in Seq(S)
    PROVE  \E m : Playable(Push(o, vs), m)
<1> DEFINE n == o.length + Len(vs)
           p == [k \in DOMAIN vs |-> Assign(o.length + k - 1, vs[k], FALSE)]
           w == AssignLength(IF n > MaxU32 THEN -1 ELSE n, FALSE)
           v == [op |-> "throw"]
<1>1. o.length \in Nat /\ o.length <= MaxU32 /\ MaxU32 \in Nat /\ DOMAIN vs = 1..Len(vs) /\ Len(vs) \in Nat
  BY WidthAssumption DEF Sound, Index
<1>2. Playable(p, Len(vs)) /\ \A k \in 1..Len(vs) : Element(p[k])
  <2>1. ASSUME NEW k \in 1..Len(vs)
        PROVE  Element(p[k])
    <3>1. o.length + k - 1 \in Nat
      BY <1>1
    <3>2. p[k] = Assign(o.length + k - 1, vs[k], FALSE)
      BY <1>1
    <3> QED
      BY <3>1, <3>2, Operations
  <2>2. p = [k \in 1..Len(vs) |-> p[k]]
    BY <1>1
  <2> QED
    BY <1>1, <2>1, <2>2 DEF Playable
<1>3. (IF n > MaxU32 THEN -1 ELSE n) \in Index \cup {-1}
  BY <1>1 DEF Index
<1>4. Playable(<<w>>, 1)
  BY <1>3, Operations, OnePlayable
<1>5. Push(o, vs) = <<v>> \/ Push(o, vs) = p \o <<w>>
  BY DEF Push
<1>6. Playable(<<v>>, 1)
  BY OnePlayable DEF Element
<1> HIDE DEF p, w, v
<1> QED
  BY <1>2, <1>4, <1>5, <1>6, ConcatPlayable

LEMMA WrittenLength ==
    ASSUME NEW n \in Index
    PROVE  WrittenAsI32(n) \in Index \cup {-1}
<1>1. WrittenAsI32(n) = IF Signed(n) >= -1 THEN Signed(n) ELSE -1
  BY SignedLength, MaxOfTwo DEF WrittenAsI32
<1> QED
  BY <1>1, SignedLength, WidthAssumption DEF Index

LEMMA TwoPlayable ==
    ASSUME NEW v, NEW w, Element(v), Element(w) \/ Lengthens(w)
    PROVE  Playable(<<v, w>>, 2)
<1>1. <<v, w>> = [k \in 1..2 |-> <<v, w>>[k]]
      /\ \A k \in 1..2 : <<v, w>>[k] = v \/ (k = 2 /\ <<v, w>>[k] = w)
  OBVIOUS
<1> QED
  BY <1>1 DEF Playable

LEMMA PopPlayable ==
    ASSUME NEW o, Sound(o)
    PROVE  \E n : Playable(Pop(o), n)
<1>1. o.length \in Nat /\ o.length <= MaxU32 /\ MaxU32 \in Nat /\ 0 \in Index
  BY WidthAssumption DEF Sound, Index
<1>2. CASE o.length = 0
  BY <1>1, <1>2, Operations, OnePlayable DEF Pop
<1>3. CASE o.length # 0
  <2> DEFINE n == WrittenAsI32(o.length - 1)
             v == DeleteAt(o.length - 1, TRUE)
             w == AssignLength(n, TRUE)
  <2>1. o.length - 1 \in Nat /\ o.length - 1 \in Index
    BY <1>1, <1>3 DEF Index
  <2>3. n \in Index \cup {-1}
    BY <2>1, WrittenLength
  <2>4. Pop(o) = <<v, w>>
    BY <1>3 DEF Pop
  <2> HIDE DEF n
  <2>5. Element(v) /\ Lengthens(w)
    BY <2>1, <2>3, Operations
  <2> HIDE DEF v, w
  <2> QED
    BY <2>4, <2>5, TwoPlayable
<1> QED
  BY <1>2, <1>3

LEMMA ShiftPlayable ==
    ASSUME NEW S, NEW c \in Seq(S), Len(c) > 0, Sound(c[1])
    PROVE  \E n : Playable(Shift(c), n)
<1> DEFINE n == c[1].length
           Move(k) == IF Get(c, k) = Undefined THEN DeleteAt(k - 1, FALSE)
                      ELSE Assign(k - 1, Get(c, k), FALSE)
           p == Each(Span(1, n), Move)
           v == DeleteAt(n - 1, FALSE)
           w == AssignLength(WrittenAsI32(n - 1), FALSE)
<1>1. n \in Nat /\ n <= MaxU32 /\ MaxU32 \in Nat /\ 0 \in Index
  BY WidthAssumption DEF Sound, Index
<1>2. CASE n = 0
  BY <1>1, <1>2, Operations, OnePlayable DEF Shift
<1>3. CASE n # 0
  <2> DEFINE l == Max({n - 1, 0})
  <2>0. n \in Int /\ 1 \in Int
    BY <1>1
  <2>1. /\ l \in Nat /\ Span(1, n) = [k \in 1..l |-> 1 + k - 1]
        /\ \A k \in 1..l : Span(1, n)[k] \in 1..(n - 1)
    <3> HIDE DEF n, Move, p, v, w
    <3> QED
      BY <2>0, SpanFields
  <2> HIDE DEF n, l
  <2>2. p = [k \in 1..l |-> Move(Span(1, n)[k])]
    BY <2>1 DEF Each
  <2>3. ASSUME NEW k \in 1..l
        PROVE  Element(p[k])
    <3> DEFINE i == Span(1, n)[k]
    <3>1. i - 1 \in Nat
      BY <1>1, <2>1
    <3>2. p[k] = Move(i)
      BY <2>2
    <3> HIDE DEF i, p
    <3> QED
      BY <3>1, <3>2, Operations
  <2>4. Playable(p, l) /\ \A k \in 1..l : Element(p[k])
    <3> HIDE DEF Move
    <3>1. p = [k \in 1..l |-> p[k]]
      BY <2>2
    <3> HIDE DEF p
    <3> QED
      BY <2>1, <2>3, <3>1 DEF Playable
  <2>5. Playable(<<v, w>>, 2)
    <3>1. n - 1 \in Nat /\ n - 1 \in Index
      BY <1>1, <1>3 DEF Index
    <3>2. WrittenAsI32(n - 1) \in Index \cup {-1}
      BY <3>1, WrittenLength
    <3> QED
      BY <3>1, <3>2, Operations, TwoPlayable
  <2>6. Shift(c) = p \o <<v, w>>
    BY <1>3 DEF Shift, n
  <2> HIDE DEF p, v, w
  <2> QED
    BY <2>4, <2>5, <2>6, ConcatPlayable
<1> QED
  BY <1>2, <1>3

LEMMA RelativeIn ==
    ASSUME NEW a \in Int, NEW n \in Int
    PROVE  Relative(a, n) \in Int
<1>1. Max({n + a, 0}) = IF n + a >= 0 THEN n + a ELSE 0
  BY MaxOfTwo
<1>2. Min({a, n}) = IF a <= n THEN a ELSE n
  BY MinOfTwo
<1> QED
  BY <1>1, <1>2 DEF Relative

LEMMA FillPlayable ==
    ASSUME NEW o, Sound(o), NEW v, NEW a \in Int, NEW e \in Int \cup {Undefined}
    PROVE  \E n : Playable(Fill(o, v, a, e), n)
<1> DEFINE n == ReadLength(o)
           from == Relative(a, n)
           upto == Relative(IF e = Undefined THEN n ELSE e, n)
           Write(k) == IF k < 0 THEN [op |-> "fraction", i |-> 0, v |-> v] ELSE AssignByVal(k, v)
           l == Max({upto - from, 0})
<1>1. n \in Int
  BY SignedLength DEF ReadLength, Sound
<1>2. from \in Int /\ upto \in Int
  BY <1>1, RelativeIn
<1> HIDE DEF from, upto
<1>3. /\ l \in Nat /\ Span(from, upto) = [k \in 1..l |-> from + k - 1]
      /\ \A k \in 1..l : Span(from, upto)[k] \in from..(upto - 1)
  BY <1>2, SpanFields
<1>4. Fill(o, v, a, e) = [k \in 1..l |-> Write(Span(from, upto)[k])]
  BY <1>3 DEF Fill, Each, from, upto
<1> HIDE DEF l
<1>5. ASSUME NEW k \in 1..l
      PROVE  Element(Fill(o, v, a, e)[k])
  <2> DEFINE i == Span(from, upto)[k]
  <2>1. i \in Int /\ (i < 0 \/ i \in Nat)
    BY <1>2, <1>3
  <2>2. Fill(o, v, a, e)[k] = Write(i)
    BY <1>4
  <2> HIDE DEF i
  <2> QED
    BY <2>1, <2>2, Operations
<1>6. Playable(Fill(o, v, a, e), l)
  <2> DEFINE p == Fill(o, v, a, e)
  <2>1. p = [k \in 1..l |-> p[k]]
    <3> HIDE DEF Write
    <3> QED
      BY <1>4
  <2> HIDE DEF p
  <2>2. \A k \in 1..l : Element(p[k])
    BY <1>5 DEF p
  <2>3. Playable(p, l)
    BY <1>3, <2>1, <2>2 DEF Playable
  <2> QED
    BY <2>3 DEF p
<1> QED
  BY <1>6

LEMMA SortPlayable ==
    ASSUME NEW S, NEW c \in Seq(S), Len(c) > 0, Sound(c[1]), NEW order
    PROVE  \E n : Playable(Sort(c, order), n)
<1> DEFINE n == ReadLength(c[1])
           sorted == Sorted(c, order)
           present == Cardinality(Present(c[1], n))
           l == c[1].length
           Write(k) == AssignByVal(k - 1, IF k <= Len(sorted) THEN sorted[k] ELSE Undefined)
           Drop(k) == DeleteAt(k - 1, TRUE)
           from == present + 1
           upto == l + 1
           p == Each(Span(1, from), Write)
           q == Each(Span(from, upto), Drop)
           m == Max({from - 1, 0})
           d == Max({upto - from, 0})
<1>1. n \in Int /\ l \in Nat
  BY SignedLength, WidthAssumption DEF ReadLength, Sound, Index
<1>2. present \in Nat
  <2>1. Present(c[1], n) \subseteq 0..(n - 1)
    BY DEF Present
  <2> HIDE DEF n
  <2>2. IsFiniteSet(0..(n - 1))
    <3>1. 0 \in Int /\ n - 1 \in Int
      BY <1>1
    <3> QED
      BY <3>1, FS_Interval
  <2>3. IsFiniteSet(Present(c[1], n))
    BY <2>1, <2>2, FS_Subset
  <2> QED
    BY <2>3, FS_CardinalityType
<1> HIDE DEF present, n, l, sorted
<1>3. 1 \in Int /\ from \in Int /\ upto \in Int /\ from \in Nat \ {0}
  BY <1>1, <1>2
<1> HIDE DEF p, q, from, upto
<1>4. /\ m \in Nat /\ Span(1, from) = [k \in 1..m |-> 1 + k - 1]
      /\ \A k \in 1..m : Span(1, from)[k] \in 1..(from - 1)
  BY <1>3, SpanFields
<1>5. /\ d \in Nat /\ Span(from, upto) = [k \in 1..d |-> from + k - 1]
      /\ \A k \in 1..d : Span(from, upto)[k] \in from..(upto - 1)
  BY <1>3, SpanFields
<1> HIDE DEF m, d
<1>6. Playable(p, m) /\ \A k \in 1..m : Element(p[k])
  <2>1. p = [k \in 1..m |-> Write(Span(1, from)[k])]
    BY <1>4 DEF Each, p
  <2>2. p = [k \in 1..m |-> p[k]]
    <3> HIDE DEF Write
    <3> QED
      BY <2>1
  <2>3. ASSUME NEW k \in 1..m
        PROVE  Element(p[k])
    <3> DEFINE i == Span(1, from)[k]
    <3>1. i - 1 \in Nat
      BY <1>3, <1>4
    <3>2. p[k] = Write(i)
      BY <2>1
    <3> HIDE DEF i
    <3> QED
      BY <3>1, <3>2, Operations
  <2> QED
    BY <1>4, <2>2, <2>3 DEF Playable
<1>7. Playable(q, d)
  <2>1. q = [k \in 1..d |-> Drop(Span(from, upto)[k])]
    BY <1>5 DEF Each, q
  <2>2. q = [k \in 1..d |-> q[k]]
    <3> HIDE DEF Drop
    <3> QED
      BY <2>1
  <2>3. ASSUME NEW k \in 1..d
        PROVE  Element(q[k])
    <3> DEFINE i == Span(from, upto)[k]
    <3>1. i - 1 \in Nat
      BY <1>3, <1>5
    <3>2. q[k] = Drop(i)
      BY <2>1
    <3> HIDE DEF i
    <3> QED
      BY <3>1, <3>2, Operations
  <2> QED
    BY <1>5, <2>2, <2>3 DEF Playable
<1>8. Sort(c, order) \in {<<>>, p \o q}
  BY DEF Sort, n, present, sorted, l, p, q, from, upto
<1> QED
  BY <1>6, <1>7, <1>8, ConcatPlayable, EmptyPlayable

\* A sequence of singletons, flattened.
LEMMA FlattenOnes ==
    ASSUME NEW n \in Nat, NEW f
    PROVE  \E S : FlattenSeq([k \in 1..n |-> <<f[k]>>]) \in Seq(S)
<1> DEFINE s == [k \in 1..n |-> <<f[k]>>]
           S == {f[k] : k \in 1..n}
           Flat1(g) == g = [i \in 1..n |-> IF i = 1 THEN s[i] ELSE g[i - 1] \o s[i]]
           h == [i \in 1..n |-> [j \in 1..i |-> f[j]]]
<1>1. s \in Seq(Range(s)) /\ Len(s) = n
  <2>1. s = [k \in 1..n |-> s[k]]
    OBVIOUS
  <2> HIDE DEF s
  <2> QED
    BY <2>1, SequenceOf
<1>2. CASE n = 0
  BY <1>1, <1>2 DEF FlattenSeq
<1>3. CASE n # 0
  <2>1. ASSUME NEW i \in 1..n
        PROVE  h[i] = IF i = 1 THEN s[i] ELSE h[i - 1] \o s[i]
    <3>1. CASE i = 1
      <4>1. h[1] = [j \in 1..1 |-> f[j]] /\ s[1] = <<f[1]>>
        BY <3>1
      <4>2. <<f[1]>> = [j \in 1..1 |-> f[j]]
        OBVIOUS
      <4> QED
        BY <3>1, <4>1, <4>2
    <3>2. CASE i # 1
      <4> DEFINE a == [j \in 1..(i - 1) |-> f[j]]
                 b == <<f[i]>>
                 c == [j \in 1..i |-> f[j]]
      <4>1. i - 1 \in 1..n /\ i - 1 \in Nat /\ i \in Nat
        BY <3>2
      <4>2. h[i] = c /\ h[i - 1] = a /\ s[i] = b
        BY <4>1
      <4>3. a \in Seq(S) /\ Len(a) = i - 1 /\ (\A j \in 1..(i - 1) : a[j] = f[j])
        <5>1. a \in [1..(i - 1) -> S]
          BY <4>1
        <5> QED
          BY <4>1, <5>1
      <4>4. c \in Seq(S) /\ Len(c) = i /\ (\A j \in 1..i : c[j] = f[j])
        <5>1. c \in [1..i -> S]
          BY <4>1
        <5> QED
          BY <4>1, <5>1
      <4>5. b \in Seq(S) /\ Len(b) = 1 /\ b[1] = f[i]
        OBVIOUS
      <4> HIDE DEF a, b, c, S
      <4> HIDE DEF s, h, Flat1
      <4>60. /\ a \o b \in Seq(S) /\ Len(a \o b) = Len(a) + Len(b)
             /\ \A j \in 1..(Len(a) + Len(b)) : (a \o b)[j] = IF j <= Len(a) THEN a[j] ELSE b[j - Len(a)]
        BY <4>3, <4>5, ConcatProperties
      <4>61. Len(a) + Len(b) = i /\ Len(a) = i - 1
        BY <4>1, <4>3, <4>5
      <4>6. /\ a \o b \in Seq(S) /\ Len(a \o b) = i
            /\ \A j \in 1..i : (a \o b)[j] = IF j <= i - 1 THEN a[j] ELSE b[j - (i - 1)]
        BY <4>60, <4>61
      <4> DEFINE r == a \o b
      <4> HIDE DEF r
      <4>70. \A j \in 1..i : r[j] = IF j <= i - 1 THEN a[j] ELSE b[j - (i - 1)]
        BY <4>6 DEF r
      <4>7. ASSUME NEW j \in 1..i
            PROVE  r[j] = c[j]
        <5>1. CASE j <= i - 1
          <6>1. j \in 1..(i - 1)
            BY <4>1, <5>1
          <6> QED
            BY <4>3, <4>4, <4>70, <5>1, <6>1
        <5>2. CASE ~(j <= i - 1)
          <6>1. j = i /\ j - (i - 1) = 1
            BY <4>1, <5>2
          <6> QED
            BY <4>1, <4>4, <4>5, <4>70, <5>2, <6>1
        <5> QED
          BY <5>1, <5>2
      <4>8. a \o b = c
        BY <4>1, <4>4, <4>6, <4>7, SeqEqual DEF r
      <4> QED
        BY <3>2, <4>2, <4>8
    <3> QED
      BY <3>1, <3>2
  <2>2. Flat1(h)
    <3> HIDE DEF s
    <3> QED
      BY <2>1
  <2> DEFINE g == CHOOSE x : Flat1(x)
  <2>3. Flat1(g)
    <3> HIDE DEF Flat1, h
    <3> QED
      BY <2>2
  <2>4. FlattenSeq(s) = g[n]
    <3> HIDE DEF s
    <3> QED
      BY <1>1, <1>3 DEF FlattenSeq
  <2> HIDE DEF g
  <2> DEFINE H == {k \in 0..n : k = 0 \/ g[k] \in Seq(S)}
  <2>5. 0 \in H
    OBVIOUS
  <2>6. ASSUME NEW k \in 1..n, k - 1 \in H
        PROVE  k \in H
    <3>1. s[k] = <<f[k]>> /\ <<f[k]>> \in Seq(S)
      OBVIOUS
    <3> HIDE DEF s, S
    <3>2. g[k] = IF k = 1 THEN s[k] ELSE g[k - 1] \o s[k]
      BY <2>3
    <3>3. k # 1 => g[k - 1] \in Seq(S)
      BY <2>6
    <3>4. k # 1 => g[k - 1] \o s[k] \in Seq(S)
      BY <3>1, <3>3, ConcatProperties
    <3>5. g[k] \in Seq(S) /\ k \in 0..n
      BY <3>1, <3>2, <3>4
    <3> QED
      BY <3>5
  <2>7. n \in H
    <3>1. n \in 0..n
      OBVIOUS
    <3> HIDE DEF H
    <3> QED
      BY <2>5, <2>6, <3>1, IntervalInduction
  <2> QED
    BY <1>3, <2>4, <2>7
<1> QED
  BY <1>2, <1>3

LEMMA NewArraySound ==
    ASSUME NEW n \in Index
    PROVE  Sound(NewArray(n))
<1> DEFINE o == NewArray(n)
<1>1. o \in [dense : {TRUE}, writable : {TRUE}, extensible : {TRUE}, indexed : {TRUE},
             vector : {<<>>}, map : {NoElements}, length : {n}]
  BY DEF NewArray
<1>2. DOMAIN NoElements = {} /\ NoElements \in [{} -> Range(NoElements)]
  BY DEF NoElements
<1>3. IsFiniteSet({})
  BY FS_EmptySet
<1>4. <<>> \in Seq(Range(<<>>)) /\ Len(<<>>) <= MaxVector
  BY WidthAssumption
<1> HIDE DEF o
<1>5. Sound(o)
  BY <1>1, <1>2, <1>3, <1>4 DEF Sound
<1> QED
  BY <1>5 DEF o

LEMMA LiteralSound ==
    ASSUME NEW n \in Index, NEW f, NEW up
    PROVE  Sound(Literal([k \in 1..n |-> <<f[k]>>], up).object)
<1> DEFINE items == [k \in 1..n |-> <<f[k]>>]
           values == FlattenSeq(items)
           Write(k) == Assign(k - 1, values[k], FALSE)
           p == Each(Span(1, Len(values) + 1), Write)
<1>1. n \in Nat
  BY WidthAssumption DEF Index
<1>2. Len(items) = n
  <2>1. items = [k \in 1..n |-> items[k]]
    OBVIOUS
  <2> HIDE DEF items
  <2> QED
    BY <1>1, <2>1, SequenceOf
<1>3. PICK S : values \in Seq(S)
  BY <1>1, FlattenOnes
<1> DEFINE c == Len(values) + 1
           m == Max({c - 1, 0})
<1> HIDE DEF values
<1>4. c \in Int /\ 1 \in Int
  BY <1>3
<1> HIDE DEF c
<1>5. /\ m \in Nat /\ Span(1, c) = [k \in 1..m |-> 1 + k - 1]
      /\ \A k \in 1..m : Span(1, c)[k] \in 1..(c - 1)
  BY <1>4, SpanFields
<1>6. p = [k \in 1..m |-> Write(Span(1, c)[k])]
  BY <1>5 DEF Each, c
<1> HIDE DEF m
<1>7. p = [k \in 1..m |-> p[k]]
  <2> HIDE DEF Write
  <2> QED
    BY <1>6
<1>8. ASSUME NEW k \in 1..m
      PROVE  Element(p[k])
  <2> DEFINE i == Span(1, c)[k]
  <2>1. i - 1 \in Nat
    BY <1>4, <1>5
  <2>2. p[k] = Write(i)
    BY <1>6
  <2> HIDE DEF i, p
  <2> QED
    BY <2>1, <2>2, Operations
<1>9. Literal(items, up) = Run(NewArray(Len(items)), up, p)
  BY DEF Literal, values
<1> HIDE DEF p, items
<1>10. Playable(p, m)
  BY <1>5, <1>7, <1>8 DEF Playable
<1>11. Sound(Literal(items, up).object)
  BY <1>2, <1>9, <1>10, NewArraySound, RunSound
<1> QED
  BY <1>11 DEF items

LEMMA CtorSound == \A n \in Index : Sound(Ctor(n).object)
BY NewArraySound, OutcomeFields DEF Ctor

LEMMA InitSound ==
    ASSUME Init
    PROVE  TypeOK
<1>1. Sound(arr)
  <2>1. ASSUME NEW n \in 0..MaxItems, NEW items \in [1..n -> Values \cup {Undefined}],
               arr = Literal([k \in 1..n |-> <<items[k]>>], <<NewPrototype>>).object
        PROVE  Sound(arr)
    <3>1. n \in Index
      BY BoundsAssumption, WidthAssumption DEF Index
    <3> QED
      BY <2>1, <3>1, LiteralSound
  <2>2. ASSUME NEW n \in AllLengths \cap Index, arr = Ctor(n).object
        PROVE  Sound(arr)
    BY <2>2, CtorSound
  <2> QED
    BY <2>1, <2>2 DEF Init
<1> QED
  BY <1>1 DEF Init, TypeOK

-----------------------------------------------------------------------------
\* The operations of Next, and those that the properties look at.
LEMMA AssignmentLegal ==
    ASSUME NEW I \in SUBSET Index, NEW w \in Assignments(I)
    PROVE  Legal(arr, w) /\ w.op \in {"put", "byval", "fraction"} /\ w.i \in I
           /\ (w.op # "fraction" => w.throwable = TRUE)
<1>1. I \subseteq Nat
  BY WidthAssumption DEF Index
<1>2. w.op \in {"put", "byval", "fraction"} /\ w.i \in I /\ (w.op # "fraction" => w.throwable = TRUE)
  <2>1. CASE \E op \in {"put", "byval"}, i \in I, v \in {Undefined, StringOrder[1]} :
                w = [op |-> op, i |-> i, v |-> v, throwable |-> TRUE]
    BY <2>1
  <2>2. CASE \E i \in I : w = [op |-> "fraction", i |-> i, v |-> Undefined]
    BY <2>2
  <2> QED
    BY <2>1, <2>2 DEF Assignments
<1> QED
  BY <1>1, <1>2 DEF Legal

LEMMA DefinitionLegal ==
    ASSUME NEW I \in SUBSET Index, NEW D \in SUBSET Descriptor, NEW w \in Definitions(I, D)
    PROVE  Legal(arr, w) /\ w.op = "define" /\ w.i \in I /\ w.d \in D /\ w.throwable = TRUE
<1>1. I \subseteq Nat
  BY WidthAssumption DEF Index
<1>2. w.op = "define" /\ w.i \in I /\ w.d \in D /\ w.throwable = TRUE
  BY DEF Definitions
<1> QED
  BY <1>1, <1>2, DescriptorAsked DEF Legal

LEMMA DeletionLegal ==
    ASSUME NEW I \in SUBSET Index, NEW w \in Deletions(I)
    PROVE  Legal(arr, w) /\ w.op = "delete" /\ w.i \in I /\ w.throwable = FALSE
<1>1. I \subseteq Nat
  BY WidthAssumption DEF Index
<1>2. w.op = "delete" /\ w.i \in I /\ w.throwable = FALSE
  BY DEF Deletions, DeleteAt
<1> QED
  BY <1>1, <1>2 DEF Legal

LEMMA OrdersOrdered ==
    ASSUME NEW o, Sound(o), NEW order \in Orders(o)
    PROVE  Ordered(o, order)
<1>1. DOMAIN o.map \subseteq Nat
  BY DEF Sound
<1> QED
  BY <1>1 DEF Orders, Ordered, Fixed

\* The two kinds of operations on the length.
LEMMA LengthShape ==
    ASSUME NEW L \in SUBSET (Index \cup {-1}), NEW w \in Lengths(L)
    PROVE  \/ /\ w.op = "assign length" /\ w.n \in L /\ w.throwable = FALSE
              /\ IF FarShrink(arr, w.n) THEN w.order \in Orders(arr) ELSE w.order = NoOrder
           \/ /\ w.op = "length" /\ w.throwable = TRUE /\ w.order = NoOrder
              /\ "W" \in w.d.has /\ w.d.on \in {{}, {"W"}} /\ w.d.has \subseteq {"value", "W"}
              /\ "value" \in w.d.has => w.d.value = Max({arr.length - 1, 0}) /\ w.d.on = {}
<1>1. ASSUME NEW n \in L, NEW order, order \in IF FarShrink(arr, n) THEN Orders(arr) ELSE {NoOrder},
             w = [AssignLength(n, FALSE) EXCEPT !.order = order]
      PROVE  /\ w.op = "assign length" /\ w.n \in L /\ w.throwable = FALSE
             /\ IF FarShrink(arr, w.n) THEN w.order \in Orders(arr) ELSE w.order = NoOrder
  <2>1. w.op = "assign length" /\ w.n = n /\ w.throwable = FALSE /\ w.order = order
    BY <1>1 DEF AssignLength
  <2> QED
    BY <1>1, <2>1
<1>2. ASSUME NEW d, w = [op |-> "length", d |-> d, throwable |-> TRUE, order |-> NoOrder],
             d \in {LengthDescriptor(Max({arr.length - 1, 0}), {"value", "W"}),
                    LengthDescriptor(Undefined, {"W"}),
                    [LengthDescriptor(Undefined, {"W"}) EXCEPT !.on = {"W"}]}
      PROVE  /\ w.op = "length" /\ w.throwable = TRUE /\ w.order = NoOrder
             /\ "W" \in w.d.has /\ w.d.on \in {{}, {"W"}} /\ w.d.has \subseteq {"value", "W"}
             /\ "value" \in w.d.has => w.d.value = Max({arr.length - 1, 0}) /\ w.d.on = {}
  <2>1. w.op = "length" /\ w.throwable = TRUE /\ w.order = NoOrder /\ w.d = d
    BY <1>2
  <2>2. /\ "W" \in d.has /\ d.on \in {{}, {"W"}} /\ d.has \subseteq {"value", "W"}
        /\ "value" \in d.has => d.value = Max({arr.length - 1, 0}) /\ d.on = {}
    BY <1>2 DEF LengthDescriptor
  <2> QED
    BY <2>1, <2>2
<1>3. CASE w \in LengthAssignments(L)
  <2>1. PICK n \in L : w \in {[AssignLength(n, FALSE) EXCEPT !.order = order] :
                               order \in IF FarShrink(arr, n) THEN Orders(arr) ELSE {NoOrder}}
    BY <1>3, Zenon DEF LengthAssignments
  <2>2. PICK order \in IF FarShrink(arr, n) THEN Orders(arr) ELSE {NoOrder} :
               w = [AssignLength(n, FALSE) EXCEPT !.order = order]
    BY <2>1
  <2> QED
    BY <1>1, <2>2
<1>4. CASE w \in LengthDefinitions
  BY <1>2, <1>4 DEF LengthDefinitions
<1> QED
  BY <1>3, <1>4 DEF Lengths

LEMMA LengthLegal ==
    ASSUME Sound(arr), NEW L \in SUBSET (Index \cup {-1}), NEW w \in Lengths(L)
    PROVE  Legal(arr, w)
<1>1. CASE w.op = "assign length"
  <2>1. w.n \in L /\ (w.order \in Orders(arr) \/ w.order = NoOrder)
    BY <1>1, LengthShape
  <2>2. Ordered(arr, w.order)
    BY <2>1, OrdersOrdered DEF Ordered, NoOrder
  <2> QED
    BY <1>1, <2>1, <2>2 DEF Legal
<1>2. CASE w.op = "length"
  <2>1. w.order = NoOrder /\ ("value" \in w.d.has => w.d.value = Max({arr.length - 1, 0}))
    BY <1>2, LengthShape
  <2>2. Max({arr.length - 1, 0}) \in Index
    <3>1. arr.length \in 0..MaxU32 /\ MaxU32 \in Nat
      BY WidthAssumption DEF Sound, Index
    <3>2. Max({arr.length - 1, 0}) = IF arr.length - 1 >= 0 THEN arr.length - 1 ELSE 0
      BY <3>1, MaxOfTwo
    <3> QED
      BY <3>1, <3>2 DEF Index
  <2> QED
    BY <1>2, <2>1, <2>2 DEF Legal, Ordered, NoOrder, Measured
<1> QED
  BY <1>1, <1>2, LengthShape

LEMMA LimitLegal ==
    ASSUME NEW w \in Limits
    PROVE  Legal(arr, w) /\ w.op \in {"freeze", "seal", "prevent extensions"}
<1>1. w.op \in {"freeze", "seal", "prevent extensions"}
  <2>1. PICK op \in {"freeze", "seal", "prevent extensions"} : w = [op |-> op]
    BY DEF Limits
  <2>2. w.op = op
    BY <2>1
  <2> QED
    BY <2>2
<1> QED
  BY <1>1 DEF Legal

LEMMA ChainOf ==
    ASSUME TypeOK
    PROVE  \E S : chain \in Seq(S) /\ Len(chain) = Len(above) + 1 /\ chain[1] = arr
                  /\ Len(above) \in Nat /\ above \in Seq(S)
                  /\ \A k \in 1..Len(above) : chain[k + 1] = above[k]
<1> DEFINE S == Range(above) \cup {arr}
<1>1. above \in Seq(Range(above))
  BY PrototypesAssumption DEF TypeOK
<1>2. above \in Seq(S) /\ <<arr>> \in Seq(S) /\ Len(<<arr>>) = 1 /\ <<arr>>[1] = arr
  BY <1>1, SeqMonotonic
<1>3. Len(above) \in Nat
  BY <1>1
<1> HIDE DEF S
<1> DEFINE p == <<arr>>
<1>4. p \in Seq(S) /\ Len(p) = 1 /\ p[1] = arr
  BY <1>2
<1>5. chain = p \o above
  BY DEF chain
<1> HIDE DEF p
<1>60. /\ p \o above \in Seq(S) /\ Len(p \o above) = Len(p) + Len(above)
       /\ \A i \in 1..(Len(p) + Len(above)) : (p \o above)[i] = IF i <= Len(p) THEN p[i] ELSE above[i - Len(p)]
  BY <1>2, <1>4, ConcatProperties
<1>6. /\ p \o above \in Seq(S) /\ Len(p \o above) = 1 + Len(above)
      /\ \A i \in 1..(1 + Len(above)) : (p \o above)[i] = IF i <= 1 THEN p[i] ELSE above[i - 1]
  BY <1>4, <1>60
<1>7. \A i \in 1..(1 + Len(above)) : chain[i] = IF i <= 1 THEN p[i] ELSE above[i - 1]
  BY <1>5, <1>6
<1>8. chain[1] = arr
  BY <1>3, <1>4, <1>7
<1>9. ASSUME NEW k \in 1..Len(above)
      PROVE  chain[k + 1] = above[k]
  <2>1. k + 1 \in 1..(1 + Len(above)) /\ ~(k + 1 <= 1) /\ k + 1 - 1 = k
    BY <1>3
  <2> QED
    BY <1>7, <2>1
<1>10. chain \in Seq(S) /\ Len(chain) = Len(above) + 1
  BY <1>3, <1>5, <1>6
<1> QED
  BY <1>2, <1>3, <1>8, <1>9, <1>10

LEMMA MethodPlayable ==
    ASSUME TypeOK, NEW p \in Methods
    PROVE  \E n : Playable(p.code, n)
<1> DEFINE D == {<<0, Undefined>>, <<-1, 1>>, <<1, -1>>}
           V == {<<>>, <<Undefined>>, <<StringOrder[1], Undefined>>}
<1>1. PICK S : chain \in Seq(S) /\ Len(chain) = Len(above) + 1 /\ chain[1] = arr /\ Len(above) \in Nat
  BY ChainOf
<1>2. Sound(arr)
  BY DEF TypeOK
<1>3. \/ \E vs \in V : p.code = Push(arr, vs)
      \/ p.code = Pop(arr) \/ p.code = Shift(chain)
      \/ \E d \in D : p.code = Fill(arr, StringOrder[1], d[1], d[2])
  BY DEF Methods
<1>4. CASE \E vs \in V : p.code = Push(arr, vs)
  <2>1. PICK vs \in V : p.code = Push(arr, vs)
    BY <1>4
  <2>2. vs \in Seq({Undefined, StringOrder[1]})
    <3>1. CASE vs = <<>>
      BY <3>1
    <3>2. CASE vs = <<Undefined>>
      BY <3>2
    <3>3. CASE vs = <<StringOrder[1], Undefined>>
      BY <3>3
    <3> QED
      BY <3>1, <3>2, <3>3
  <2> QED
    BY <1>2, <2>1, <2>2, PushPlayable
<1>5. CASE p.code = Pop(arr)
  BY <1>2, <1>5, PopPlayable
<1>6. CASE p.code = Shift(chain)
  BY <1>1, <1>2, <1>6, ShiftPlayable
<1>7. CASE \E d \in D : p.code = Fill(arr, StringOrder[1], d[1], d[2])
  <2>1. PICK d \in D : p.code = Fill(arr, StringOrder[1], d[1], d[2])
    BY <1>7
  <2>2. d[1] \in Int /\ d[2] \in Int \cup {Undefined}
    OBVIOUS
  <2>3. \E n : Playable(Fill(arr, StringOrder[1], d[1], d[2]), n)
    <3> DEFINE a == d[1]
               e == d[2]
               v == StringOrder[1]
    <3>1. a \in Int /\ e \in Int \cup {Undefined}
      BY <2>2
    <3> HIDE DEF a, e, v
    <3>2. \E n : Playable(Fill(arr, v, a, e), n)
      BY <1>2, <3>1, FillPlayable
    <3> QED
      BY <3>2 DEF a, e, v
  <2> QED
    BY <2>1, <2>3
<1> QED
  BY <1>3, <1>4, <1>5, <1>6, <1>7

LEMMA NextSound ==
    ASSUME TypeOK, [Next]_vars
    PROVE  TypeOK'
<1>1. Sound(arr) /\ above \in Prototypes
  BY DEF TypeOK
<1>2. SomeIndices \in SUBSET Index /\ SomeDescriptors \in SUBSET Descriptor
      /\ SomeLengths \in SUBSET (Index \cup {-1})
  BY BoundsAssumption
<1>3. ASSUME NEW w, Legal(arr, w), Leads(Step(arr, above, w))
      PROVE  TypeOK'
  <2>1. arr' = Step(arr, above, w).object /\ above' = above
    BY <1>3 DEF Leads
  <2> QED
    BY <1>1, <1>3, <2>1, StepSound DEF TypeOK
<1>4. ASSUME NEW p, NEW n, Playable(p, n), Leads(Run(arr, above, p))
      PROVE  TypeOK'
  <2>1. arr' = Run(arr, above, p).object /\ above' = above
    BY <1>4 DEF Leads
  <2> QED
    BY <1>1, <1>4, <2>1, RunSound DEF TypeOK
<1>5. CASE AssignElement
  BY <1>2, <1>3, <1>5, AssignmentLegal DEF AssignElement
<1>6. CASE DefineElement
  BY <1>2, <1>3, <1>6, DefinitionLegal DEF DefineElement
<1>7. CASE DeleteElement
  BY <1>2, <1>3, <1>7, DeletionLegal DEF DeleteElement
<1>8. CASE DefineLengthOf
  BY <1>1, <1>2, <1>3, <1>8, LengthLegal DEF DefineLengthOf
<1>9. CASE LimitArray
  BY <1>3, <1>9, LimitLegal DEF LimitArray
<1>10. CASE CallMethod
  BY <1>4, <1>10, MethodPlayable DEF CallMethod
<1>11. CASE SortArray
  <2>1. PICK S : chain \in Seq(S) /\ Len(chain) = Len(above) + 1 /\ chain[1] = arr /\ Len(above) \in Nat
    BY ChainOf
  <2>2. PICK c \in Comparators : Leads(Run(arr, above, Sort(chain, c)))
    BY <1>11 DEF SortArray
  <2>3. \E n : Playable(Sort(chain, c), n)
    BY <1>1, <2>1, SortPlayable
  <2> QED
    BY <1>4, <2>2, <2>3
<1>12. CASE UNCHANGED vars
  <2>1. arr' = arr /\ above' = above
    BY <1>12 DEF vars
  <2> QED
    BY <1>1, <2>1 DEF TypeOK
<1> QED
  BY <1>5, <1>6, <1>7, <1>8, <1>9, <1>10, <1>11, <1>12 DEF Next

\* TypeOK.  Every operation, program and method of array.rs and ArrayPrototype.js leaves
\* an array whose vector and map never both count for an index: define_own_indexed_property
\* and set_length keep apart what make_sparse and make_dense only switch between.
THEOREM TypeCorrect == Spec => []TypeOK
<1>1. Init => TypeOK
  BY InitSound
<1>2. TypeOK /\ [Next]_vars => TypeOK'
  BY NextSound
<1> QED
  BY <1>1, <1>2, PTL DEF Spec

-----------------------------------------------------------------------------
(* Frozen and sealed arrays.                                                *)

\* A property that is not configurable stays so, and keeps the value it has when
\* it is not writable.
LEMMA MergeLimited ==
    ASSUME NEW s, SoundSlot(s), "C" \notin s.on, NEW d, Asked(d), Verdict(s, d) = "merge"
    PROVE  "C" \notin Merge(s, d).on /\ ("W" \notin s.on => Merge(s, d) = s)
<1>1. ~Rejected(s, d)
  BY DEF Verdict
<1>2. "C" \notin d.on /\ Agrees(s, d, {"E"}) /\ (Kind(d) # "generic" => Kind(d) = s.kind)
  BY <1>1 DEF Rejected
<1>3. CASE Kind(d) = "generic"
  <2>1. Merge(s, d) = [s EXCEPT !.on = Replaced(s, d, {"E", "C"})]
    BY <1>3 DEF Merge
  <2>2. Replaced(s, d, {"E", "C"}) = s.on
    BY <1>2 DEF Replaced, Agrees, Asked, SoundSlot
  <2>3. [s EXCEPT !.on = s.on] = s
    BY DEF SoundSlot
  <2> QED
    BY <2>1, <2>2, <2>3
<1>4. CASE Kind(d) = "data"
  <2> DEFINE v == IF "value" \in d.has THEN d.value ELSE s.value
  <2>1. Merge(s, d) = [kind |-> "data", on |-> Replaced(s, d, Flags), value |-> v]
    BY <1>4 DEF Merge
  <2>2. "C" \notin Replaced(s, d, Flags)
    BY <1>2 DEF Replaced
  <2>3. ASSUME "W" \notin s.on
        PROVE  Merge(s, d) = s
    <3>1. s.kind = "data" /\ "W" \notin d.on /\ d.value = s.value
      BY <1>1, <1>2, <1>4, <2>3 DEF Rejected
    <3>2. Replaced(s, d, Flags) = s.on
      BY <1>2, <2>3, <3>1 DEF Replaced, Agrees, Asked, SoundSlot, Flags
    <3>3. s = [kind |-> "data", on |-> s.on, value |-> s.value]
      BY <3>1 DEF SoundSlot
    <3> QED
      BY <2>1, <3>1, <3>2, <3>3
  <2> QED
    BY <2>1, <2>2, <2>3
<1>5. CASE Kind(d) = "accessor"
  <2> DEFINE g == IF "get" \in d.has THEN d.get ELSE s.value.get
             u == IF "set" \in d.has THEN d.set ELSE s.value.set
  <2>1. s.kind = "accessor" /\ "W" \notin s.on
    BY <1>2, <1>5 DEF SoundSlot
  <2>2. g = s.value.get /\ u = s.value.set
    BY <1>1, <1>5, <2>1 DEF Rejected
  <2>3. Replaced(s, d, {"E", "C"}) \ {"W"} = s.on
    BY <1>2, <2>1 DEF Replaced, Agrees, Asked, SoundSlot, Flags
  <2>4. Merge(s, d) = [kind |-> "accessor", on |-> Replaced(s, d, {"E", "C"}) \ {"W"},
                       value |-> [get |-> g, set |-> u]]
    BY <1>5, <2>1 DEF Merge
  <2>5. s.value = [get |-> s.value.get, set |-> s.value.set]
    BY <2>1 DEF SoundSlot
  <2>6. s = [kind |-> "accessor", on |-> s.on, value |-> s.value]
    BY <2>1 DEF SoundSlot
  <2> QED
    BY <2>2, <2>3, <2>4, <2>5, <2>6
<1> QED
  BY <1>3, <1>4, <1>5 DEF Kind

\* A sparse array that takes no elements, and one that may be no other.
Closed(o) == Sound(o) /\ ~o.extensible /\ ~o.dense

Kept(o, q) == q.length = o.length /\ DOMAIN q.map = DOMAIN o.map /\ Closed(q)
              /\ \A i \in DOMAIN o.map : "C" \notin o.map[i].on => "C" \notin q.map[i].on

\* A definition of an element changes nothing but what Merge accepts.
LEMMA DefineClosed ==
    ASSUME NEW o, Closed(o), NEW i \in Nat, NEW d, Asked(d), NEW t
    PROVE  LET q == Define(o, i, d, t).object IN
           \/ q = o
           \/ /\ i \in DOMAIN o.map /\ Verdict(o.map[i], d) = "merge"
              /\ q = [o EXCEPT !.map[i] = Merge(o.map[i], d)]
<1>1. ~InVector(o, i) /\ ~o.dense
  BY DEF InVector, Closed
<1>2. \/ Define(o, i, d, t).object = o
      \/ Define(o, i, d, t).object = DefineInMap(o, i, d, t).object
  BY <1>1, OutcomeFields DEF Define
<1>3. CASE i \notin DOMAIN o.map
  BY <1>2, <1>3, OutcomeFields DEF DefineInMap, Closed
<1>4. CASE i \in DOMAIN o.map
  <2>1. [o EXCEPT !.map[i] = Merge(@, d)] = [o EXCEPT !.map[i] = Merge(o.map[i], d)]
    OBVIOUS
  <2>2. Verdict(o.map[i], d) \in {"keep", "reject", "merge"}
    BY DEF Verdict
  <2>3. \/ DefineInMap(o, i, d, t).object = o
        \/ /\ Verdict(o.map[i], d) = "merge"
           /\ DefineInMap(o, i, d, t).object = [o EXCEPT !.map[i] = Merge(o.map[i], d)]
    BY <1>4, <2>1, <2>2, OutcomeFields DEF DefineInMap
  <2> QED
    BY <1>2, <1>4, <2>3
<1> QED
  BY <1>3, <1>4

LEMMA KeptSame ==
    ASSUME NEW o, Closed(o)
    PROVE  Kept(o, o)
BY DEF Kept

LEMMA DefineKept ==
    ASSUME NEW o, Closed(o), NEW i \in Nat, NEW d, Asked(d), NEW t
    PROVE  Kept(o, Define(o, i, d, t).object)
<1> DEFINE q == Define(o, i, d, t).object
<1>1. Sound(q)
  BY DefineSound DEF Closed
<1>2. CASE q = o
  BY <1>2, KeptSame
<1>3. CASE i \in DOMAIN o.map /\ Verdict(o.map[i], d) = "merge" /\ q = [o EXCEPT !.map[i] = Merge(o.map[i], d)]
  <2> HIDE DEF q
  <2>1. SoundSlot(o.map[i])
    BY <1>3 DEF Closed, Sound
  <2>2. "C" \notin o.map[i].on => "C" \notin Merge(o.map[i], d).on
    BY <1>3, <2>1, MergeLimited
  <2>3. q.length = o.length /\ q.dense = o.dense /\ q.extensible = o.extensible
        /\ q.map = [o.map EXCEPT ![i] = Merge(o.map[i], d)]
    BY <1>3 DEF Closed, Sound
  <2>4. DOMAIN q.map = DOMAIN o.map /\ \A k \in DOMAIN o.map : q.map[k] = IF k = i THEN Merge(o.map[i], d) ELSE o.map[k]
    BY <1>3, <2>3 DEF Closed, Sound
  <2>5. Closed(q)
    BY <1>1, <2>3 DEF Closed
  <2>6. Kept(o, q)
    BY <2>2, <2>3, <2>4, <2>5 DEF Kept
  <2> QED
    BY <2>6 DEF q
<1> QED
  BY <1>2, <1>3, DefineClosed

LEMMA DefineFrozen ==
    ASSUME NEW o, Closed(o), NEW i \in Nat, i \in DOMAIN o.map => o.map[i].on \cap {"W", "C"} = {},
           NEW d, Asked(d), NEW t
    PROVE  Define(o, i, d, t).object = o
<1> DEFINE q == Define(o, i, d, t).object
<1>1. CASE i \in DOMAIN o.map /\ Verdict(o.map[i], d) = "merge" /\ q = [o EXCEPT !.map[i] = Merge(o.map[i], d)]
  <2>1. SoundSlot(o.map[i])
    BY <1>1 DEF Closed, Sound
  <2>2. Merge(o.map[i], d) = o.map[i]
    BY <1>1, <2>1, MergeLimited
  <2>3. [o EXCEPT !.map[i] = o.map[i]] = o
    BY <1>1 DEF Closed, Sound
  <2> QED
    BY <1>1, <2>2, <2>3
<1> QED
  BY <1>1, DefineClosed

LEMMA KeptTwice ==
    ASSUME NEW o, NEW p, NEW q, Kept(o, p), Kept(p, q)
    PROVE  Kept(o, q)
BY DEF Kept

LEMMA WritableKept ==
    ASSUME NEW o, Closed(o), NEW x \in BOOLEAN
    PROVE  Kept(o, [o EXCEPT !.writable = x]) /\ (o.writable = x => [o EXCEPT !.writable = x] = o)
<1> DEFINE q == [o EXCEPT !.writable = x]
<1>1. Sound(q)
  BY WritableSound DEF Closed
<1>2. q.length = o.length /\ q.map = o.map /\ q.dense = o.dense /\ q.extensible = o.extensible
  BY DEF Closed, Sound
<1>3. o.writable = x => q = o
  BY DEF Closed, Sound
<1> HIDE DEF q
<1>4. Kept(o, q) /\ (o.writable = x => q = o)
  BY <1>1, <1>2, <1>3 DEF Kept, Closed
<1> QED
  BY <1>4 DEF q

\* An array that is closed is already what prevent extensions leaves.
LEMMA PreventClosed ==
    ASSUME NEW o, Closed(o)
    PROVE  PreventExtensions(o) = o
<1>1. [o EXCEPT !.extensible = FALSE] = o
  BY DEF Closed, Sound
<1>2. FilledCells(o) = {}
  BY DEF Closed, Sound
<1>3. [k \in DOMAIN o.vector |-> Empty] = o.vector
  BY SoundVector DEF Closed
<1> DEFINE m == [i \in DOMAIN o.map \cup FilledCells(o) |->
                   IF i \in FilledCells(o) THEN PlainSlot(Cell(o, i)) ELSE o.map[i]]
<1>4. m = o.map
  BY <1>2 DEF Closed, Sound
<1>5. MakeSparse(o) = o
  <2> DEFINE p == MakeSparse(o)
  <2>1. /\ p \in [dense : {FALSE}, writable : {o.writable}, extensible : {o.extensible},
                  indexed : {o.indexed}, vector : {[k \in DOMAIN o.vector |-> Empty]},
                  map : {p.map}, length : {o.length}]
        /\ p.map = m
    BY SparseFields DEF Closed
  <2> HIDE DEF p, m
  <2>2. p.map = o.map /\ p.vector = o.vector /\ p.dense = o.dense
    <3>1. p.map = o.map
      BY <1>4, <2>1
    <3>2. p.vector = [k \in DOMAIN o.vector |-> Empty] /\ p.dense = FALSE
      BY <2>1
    <3>3. o.dense = FALSE
      BY DEF Closed, Sound
    <3> QED
      BY <1>3, <3>1, <3>2, <3>3
  <2>3. p = o
    BY <2>1, <2>2 DEF Closed, Sound
  <2> QED
    BY <2>3 DEF p
<1> QED
  BY <1>1, <1>5 DEF PreventExtensions

LEMMA OwnClosed ==
    ASSUME NEW o, Closed(o)
    PROVE  /\ OwnNames(o) = DOMAIN o.map
           /\ \A i : GetOwn(o, i) = IF i \in DOMAIN o.map /\ i < o.length THEN o.map[i] ELSE NotFound
BY DEF Closed, OwnNames, GetOwn, InVector

\* freeze and seal redefine what there is.
LEMMA IntegrityKept ==
    ASSUME NEW o, Closed(o), NEW off
    PROVE  /\ Kept(o, Integrity(o, off).object)
           /\ ~o.writable /\ (\A i \in DOMAIN o.map : o.map[i].on \cap {"W", "C"} = {}) =>
                 Integrity(o, off).object = o
<1> DEFINE S == OwnNames(o)
           b == Outcome(Locked(o, off), "ok")
           frozen == ~o.writable /\ \A i \in DOMAIN o.map : o.map[i].on \cap {"W", "C"} = {}
<1>0. Sound(o)
  BY DEF Closed
<1>1. S \subseteq Nat /\ S \subseteq Int /\ IsFiniteSet(S)
  BY <1>0, NamesFinite
<1>2. PICK it : /\ Redefined(b, off, S, it)
                /\ Integrity(o, off) = IF it[S].result = "ok"
                                       THEN Outcome(PreventExtensions(it[S].object), "ok") ELSE it[S]
  BY <1>1, IntegrityFolds
<1>3. Kept(o, b.object) /\ (frozen => b.object = o)
  <2> DEFINE x == o.writable /\ "W" \notin off
  <2>1. x \in BOOLEAN /\ (frozen => o.writable = x)
    BY <1>0 DEF Sound
  <2> HIDE DEF x
  <2>2. Kept(o, [o EXCEPT !.writable = x]) /\ (frozen => [o EXCEPT !.writable = x] = o)
    BY <2>1, WritableKept
  <2>3. b.object = [o EXCEPT !.writable = x]
    BY OutcomeFields DEF Locked, x
  <2> HIDE DEF b, frozen
  <2> QED
    BY <2>2, <2>3
<1> HIDE DEF b
<1>4. ASSUME NEW x, Kept(o, x.object), NEW i \in Nat
      PROVE  /\ Kept(o, Redefine(x, i, off).object)
             /\ frozen /\ x.object = o => Redefine(x, i, off).object = o
  <2>1. CASE x.result # "ok" \/ GetOwn(x.object, i) = NotFound
    <3>1. Redefine(x, i, off) = x \/ Redefine(x, i, off) = Outcome(x.object, "panic")
      BY ONLY <2>1, Zenon DEF Redefine
    <3>2. Redefine(x, i, off).object = x.object
      BY ONLY <3>1, OutcomeFields
    <3> HIDE DEF frozen
    <3> QED
      BY <1>4, <3>2, Zenon
  <2>2. CASE ~(x.result # "ok" \/ GetOwn(x.object, i) = NotFound)
    <3> DEFINE d == Restricted(GetOwn(x.object, i), off)
    <3>1. Redefine(x, i, off) = Define(x.object, i, d, TRUE)
      BY <2>2 DEF Redefine
    <3>2. Closed(x.object) /\ Sound(x.object)
      BY <1>4 DEF Kept, Closed
    <3>3. Asked(d)
      BY <2>2, <3>2, OwnSound, RestrictedAsked
    <3> HIDE DEF d
    <3>4. Kept(o, Define(x.object, i, d, TRUE).object)
      BY <1>4, <3>2, <3>3, DefineKept, KeptTwice
    <3>5. frozen /\ x.object = o => Define(x.object, i, d, TRUE).object = o
      <4>1. frozen => (i \in DOMAIN o.map => o.map[i].on \cap {"W", "C"} = {})
        OBVIOUS
      <4> HIDE DEF frozen
      <4>2. ASSUME frozen
            PROVE  Define(o, i, d, TRUE).object = o
        BY <3>3, <4>1, <4>2, DefineFrozen, Zenon
      <4> QED
        BY ONLY <4>2, Zenon
    <3> QED
      BY <3>1, <3>4, <3>5
  <2> QED
    BY <2>1, <2>2
<1> HIDE DEF frozen
<1>5. Kept(o, it[S].object) /\ (frozen => it[S].object = o)
  <2> DEFINE H == {s \in SUBSET S : Kept(o, it[s].object) /\ (frozen => it[s].object = o)}
  <2>1. {} \in H
    BY <1>2, <1>3 DEF Redefined
  <2>2. ASSUME NEW s \in SUBSET S, s # {}
        PROVE  \E x \in s : s \ {x} \in H => s \in H
    <3>1. Max(s) \in s
      BY <1>1, <2>2, MaxOf, SubsetsFinite
    <3>2. it[s] = Redefine(it[s \ {Max(s)}], Max(s), off)
      BY <1>2, <2>2 DEF Redefined
    <3> HIDE DEF S
    <3> QED
      BY <1>1, <1>4, <3>1, <3>2
  <2>3. S \in H
    <3> HIDE DEF H
    <3> QED
      BY <1>1, <2>1, <2>2, SubsetInduction
  <2> QED
    BY <2>3
<1> HIDE DEF S
<1>6. Integrity(o, off).object = it[S].object
  <2>1. Closed(it[S].object)
    BY <1>5 DEF Kept
  <2> QED
    BY <1>2, <2>1, OutcomeFields, PreventClosed
<1> QED
  BY <1>5, <1>6 DEF frozen

LEMMA PutKept ==
    ASSUME NEW o, Closed(o), NEW up, NEW i \in Nat, NEW v, NEW t
    PROVE  /\ Kept(o, Put(o, up, i, v, t).object)
           /\ (i \in DOMAIN o.map => o.map[i].on \cap {"W", "C"} = {}) => Put(o, up, i, v, t).object = o
<1> DEFINE q == Put(o, up, i, v, t).object
<1>1. q \in {o, Define(o, i, ValueDescriptor(v), t).object, Define(o, i, DataDescriptor(v, Flags), t).object}
  BY OutcomeFields DEF Put, Closed
<1>2. Kept(o, q)
  BY <1>1, DataAsked, KeptSame, DefineKept
<1>3. ASSUME i \in DOMAIN o.map => o.map[i].on \cap {"W", "C"} = {}
      PROVE  q = o
  BY <1>1, <1>3, DataAsked, DefineFrozen
<1> QED
  BY <1>2, <1>3

LEMMA DeleteKept ==
    ASSUME NEW o, Closed(o), NEW i \in Nat, i \in DOMAIN o.map => "C" \notin o.map[i].on, NEW t
    PROVE  Delete(o, i, t).object = o
<1>1. ~InVector(o, i)
  BY DEF InVector, Closed
<1> QED
  BY <1>1, OutcomeFields DEF Delete

\* A sealed array is closed, and stays so and sealed under Kept.
LEMMA SealedClosed ==
    ASSUME NEW o, Sound(o), Sealed(o)
    PROVE  /\ Closed(o) /\ \A i \in DOMAIN o.map : "C" \notin o.map[i].on /\ i < o.length
           /\ \A q : Kept(o, q) => Sealed(q) /\ Sound(q) /\ OwnNames(q) = OwnNames(o)
<1>1. Closed(o) /\ \A i \in DOMAIN o.map : "C" \notin o.map[i].on
  BY DEF Sealed, Limited, Closed
<1>2. OwnNames(o) = DOMAIN o.map
  BY <1>1, OwnClosed
<1>3. DOMAIN o.map \subseteq Nat /\ o.length \in Nat
  BY WidthAssumption DEF Sound, Index
<1>4. \A i \in DOMAIN o.map : ~(i >= o.length)
  BY <1>2 DEF Sealed, Limited, Stray
<1>5. ASSUME NEW q, Kept(o, q)
      PROVE  Sealed(q) /\ Sound(q) /\ OwnNames(q) = OwnNames(o)
  <2>1. Closed(q) /\ q.length = o.length /\ DOMAIN q.map = DOMAIN o.map
        /\ \A i \in DOMAIN o.map : "C" \notin q.map[i].on
    BY <1>1, <1>5 DEF Kept
  <2>2. OwnNames(q) = DOMAIN q.map
    BY <2>1, OwnClosed
  <2>3. Stray(q) = {}
    BY <1>4, <2>1, <2>2 DEF Stray
  <2> QED
    BY <1>2, <2>1, <2>2, <2>3 DEF Sealed, Limited, Closed
<1> QED
  BY <1>1, <1>3, <1>4, <1>5

\* The operations on elements and those of Object, on a sealed array.
OnLength(w) == w.op \in {"length", "assign length"}

LEMMA StepKept ==
    ASSUME NEW o, Sound(o), Sealed(o), NEW up, NEW w, Legal(o, w), ~OnLength(w)
    PROVE  Kept(o, Step(o, up, w).object)
<1>1. Closed(o) /\ \A i \in DOMAIN o.map : "C" \notin o.map[i].on
  BY SealedClosed
<1>2. \A i : ~InVector(o, i)
  BY <1>1 DEF InVector, Closed
<1>3. CASE w.op = "put"
  BY <1>1, <1>3, PutKept DEF Step, Legal
<1>4. CASE w.op = "byval"
  BY <1>1, <1>2, <1>4, PutKept DEF Step, Legal, PutByVal
<1>5. CASE w.op = "fraction"
  BY <1>1, <1>2, <1>5, KeptSame, OutcomeFields DEF Step, PutByFraction
<1>6. CASE w.op = "define"
  BY <1>1, <1>6, DefineKept DEF Step, Legal
<1>7. CASE w.op = "delete"
  <2>1. Delete(o, w.i, w.throwable).object = o
    BY <1>1, <1>7, DeleteKept DEF Legal
  <2> QED
    BY <1>1, <1>7, <2>1, KeptSame DEF Step
<1>8. CASE w.op = "freeze"
  BY <1>1, <1>8, IntegrityKept DEF Step, Freeze
<1>9. CASE w.op = "seal"
  BY <1>1, <1>9, IntegrityKept DEF Step, Seal
<1>11. CASE w.op = "throw"
  BY <1>1, <1>11, KeptSame, OutcomeFields DEF Step
<1>10. CASE w.op \notin {"put", "byval", "fraction", "define", "delete", "freeze", "seal", "throw"}
  <2>1. w.op # "put" /\ w.op # "byval" /\ w.op # "fraction" /\ w.op # "define" /\ w.op # "delete"
        /\ w.op # "length" /\ w.op # "assign length" /\ w.op # "freeze" /\ w.op # "seal" /\ w.op # "throw"
    BY <1>10 DEF OnLength
  <2>2. Step(o, up, w) = Outcome(PreventExtensions(o), "ok")
    BY <2>1 DEF Step
  <2> QED
    BY <1>1, <2>2, KeptSame, PreventClosed, OutcomeFields
<1> QED
  BY <1>3, <1>4, <1>5, <1>6, <1>7, <1>8, <1>9, <1>10, <1>11

\* An element that no set_length deletes.
LEMMA WithoutNone ==
    ASSUME NEW o, Closed(o), NEW D, D \cap DOMAIN o.map = {}, NEW l
    PROVE  LET q == [Without(o, D) EXCEPT !.length = l] IN q.map = o.map /\ ~q.dense
<1> DEFINE m == Restrict(o.map, DOMAIN o.map \ D)
<1>1. m = o.map
  BY DEF Restrict, Closed, Sound
<1>2. Without(o, D) = [o EXCEPT !.map = m]
  <2> HIDE DEF m
  <2>1. ~(DOMAIN m = {} /\ DOMAIN o.map # {})
    BY <1>1
  <2> QED
    BY <2>1 DEF Without, m
<1>3. [o EXCEPT !.map = o.map] = o
  BY DEF Closed, Sound
<1> QED
  BY <1>1, <1>2, <1>3 DEF Closed, Sound

\* set_length of a closed array whose elements are all fixed.
LEMMA SetLengthNames ==
    ASSUME NEW o, Sound(o), Sealed(o), NEW n \in Index, NEW t, NEW order, order.gone \cap DOMAIN o.map = {}
    PROVE  LET q == SetLength(o, n, t, order).object IN q.map = o.map /\ ~q.dense
<1> DEFINE q == SetLength(o, n, t, order).object
<1>0. /\ Closed(o) /\ ~o.dense /\ o.length \in Nat /\ n \in Nat /\ DOMAIN o.map \subseteq Nat /\ IsFiniteSet(DOMAIN o.map)
      /\ \A i \in DOMAIN o.map : "C" \notin o.map[i].on /\ i < o.length
  BY SealedClosed, WidthAssumption DEF Closed, Sound, Index
<1>1. CASE n = MaxU32 \/ n >= o.length
  <2>1. q = o \/ q = [o EXCEPT !.length = n]
    <3>1. CASE n = MaxU32
      <4>1. ~(n < o.length)
        BY <1>0, <3>1 DEF Sound, Index
      <4> QED
        BY <3>1, <4>1, OutcomeFields DEF SetLength, FarShrink
    <3>2. CASE n # MaxU32
      <4>1. ~(n < o.length) /\ n >= o.length
        BY <1>0, <1>1, <3>2
      <4> QED
        BY <3>2, <4>1, OutcomeFields DEF SetLength, FarShrink
    <3> QED
      BY <3>1, <3>2
  <2>2. [o EXCEPT !.length = n].map = o.map /\ [o EXCEPT !.length = n].dense = o.dense
    BY DEF Sound
  <2> HIDE DEF q
  <2>3. q.map = o.map /\ ~q.dense
    BY <1>0, <2>1, <2>2
  <2> QED
    BY <2>3 DEF q
<1>2. CASE n # MaxU32 /\ n < o.length /\ FarShrink(o, n)
  <2>1. q = ShrinkFar(o, n, t, order.gone, order.last).object
    BY <1>0, <1>2 DEF SetLength, FarShrink
  <2>2. \E l : ShrinkFar(o, n, t, order.gone, order.last).object = [Without(o, order.gone) EXCEPT !.length = l]
    <3>1. CASE order.last = {}
      BY <3>1, OutcomeFields DEF ShrinkFar
    <3>2. CASE order.last # {}
      <4>1. ShrinkFar(o, n, t, order.gone, order.last).object
                = [Without(o, order.gone) EXCEPT !.length = Max(order.last) + 1]
        BY <3>2, OutcomeFields DEF ShrinkFar
      <4> QED
        BY <4>1
    <3> QED
      BY <3>1, <3>2
  <2> HIDE DEF q
  <2>3. q.map = o.map /\ ~q.dense
    BY <1>0, <2>1, <2>2, WithoutNone
  <2> QED
    BY <2>3 DEF q
<1>3. CASE n # MaxU32 /\ n < o.length /\ ~FarShrink(o, n)
  <2> DEFINE fixed == Fixed(o, n..(o.length - 1))
             m == IF fixed = {} THEN n ELSE Max(fixed) + 1
  <2>1. q = ShrinkSparse(o, n, t).object
    BY <1>0, <1>3 DEF SetLength
  <2>2. ShrinkSparse(o, n, t).object = [Without(o, m..(o.length - 1)) EXCEPT !.length = m]
    BY OutcomeFields DEF ShrinkSparse
  <2>3. fixed = (n..(o.length - 1)) \cap DOMAIN o.map
    BY <1>0 DEF Fixed
  <2>4. fixed # {} => Max(fixed) \in fixed /\ \A i \in fixed : i <= Max(fixed)
    <3>1. fixed \subseteq Int /\ IsFiniteSet(fixed)
      BY <1>0, <2>3, FS_Subset
    <3> HIDE DEF fixed
    <3> QED
      BY <3>1, MaxOf
  <2>5. (m..(o.length - 1)) \cap DOMAIN o.map = {}
    <3> HIDE DEF fixed
    <3>1. CASE fixed = {}
      BY <2>3, <3>1
    <3>2. CASE fixed # {}
      <4>1. m = Max(fixed) + 1 /\ Max(fixed) \in n..(o.length - 1)
        BY <2>3, <2>4, <3>2
      <4>2. SUFFICES ASSUME NEW i \in m..(o.length - 1), i \in DOMAIN o.map PROVE FALSE
        OBVIOUS
      <4> HIDE DEF m
      <4>3. i \in n..(o.length - 1) /\ ~(i <= Max(fixed))
        BY <1>0, <4>1, <4>2
      <4> QED
        BY <2>3, <2>4, <3>2, <4>2, <4>3
    <3> QED
      BY <3>1, <3>2
  <2> HIDE DEF q, m
  <2>6. q.map = o.map /\ ~q.dense
    <3>1. PICK D : D = m..(o.length - 1)
      OBVIOUS
    <3>2. D \cap DOMAIN o.map = {} /\ q = [Without(o, D) EXCEPT !.length = m]
      BY ONLY <2>1, <2>2, <2>5, <3>1, Zenon
    <3>3. Closed(o)
      BY <1>0
    <3> QED
      BY ONLY <3>2, <3>3, WithoutNone
  <2> QED
    BY <2>6 DEF q
<1> QED
  BY <1>0, <1>1, <1>2, <1>3

LEMMA DefineLengthNames ==
    ASSUME NEW o, Sound(o), Sealed(o), NEW d, Measured(d), NEW t, NEW order, Ordered(o, order), order.gone \cap DOMAIN o.map = {}
    PROVE  LET q == DefineLength(o, d, t, order).object IN q.map = o.map /\ ~q.dense
<1> DEFINE set == IF "value" \notin d.has \/ d.value = o.length THEN Outcome(o, "ok")
                  ELSE IF d.value = -1 THEN Outcome(o, "TypeError")
                  ELSE IF ~o.writable THEN Refused(o, t)
                  ELSE SetLength(o, d.value, t, order)
           last == ChangeLengthWritable(set.object, "W" \in d.on, t).object
<1>1. ~o.dense
  BY DEF Sealed, Limited
<1>2. set.object.map = o.map /\ ~set.object.dense /\ Sound(set.object)
  <2>1. CASE "value" \notin d.has \/ d.value = o.length \/ d.value = -1 \/ ~o.writable
    BY <1>1, <2>1, OutcomeFields
  <2>2. CASE ~("value" \notin d.has \/ d.value = o.length \/ d.value = -1 \/ ~o.writable)
    <3>1. d.value \in Index
      BY <2>2 DEF Measured
    <3>2. set = SetLength(o, d.value, t, order)
      BY <2>2
    <3>3. SetLength(o, d.value, t, order).object.map = o.map /\ ~SetLength(o, d.value, t, order).object.dense
          /\ Sound(SetLength(o, d.value, t, order).object)
      BY <3>1, SetLengthNames, SetLengthSound
    <3>4. SetLength(o, d.value, t, order).object = set.object
      BY <3>2
    <3> QED
      BY <3>3, <3>4
  <2> QED
    BY <2>1, <2>2
<1> HIDE DEF set
<1>3. last.map = o.map /\ ~last.dense
  <2>1. last \in {set.object, [set.object EXCEPT !.writable = FALSE]}
    BY OutcomeFields DEF ChangeLengthWritable
  <2>2. [set.object EXCEPT !.writable = FALSE].map = set.object.map
        /\ [set.object EXCEPT !.writable = FALSE].dense = set.object.dense
    BY <1>2 DEF Sound
  <2> HIDE DEF last
  <2> QED
    BY <1>2, <2>1, <2>2
<1>4. DefineLength(o, d, t, order).object \in {o, set.object, last}
  BY OutcomeFields DEF DefineLength, set
<1> HIDE DEF last
<1> QED
  BY <1>1, <1>2, <1>3, <1>4

LEMMA LengthStepNames ==
    ASSUME NEW o, Sound(o), Sealed(o), NEW up, NEW w, Legal(o, w), OnLength(w),
           w.order.gone \cap DOMAIN o.map = {}
    PROVE  OwnNames(Step(o, up, w).object) = OwnNames(o)
<1> DEFINE q == Step(o, up, w).object
<1>1. Closed(o) /\ ~o.dense
  BY SealedClosed DEF Closed
<1>2. q.map = o.map /\ ~q.dense
  <2>1. CASE w.op = "length"
    BY <2>1, DefineLengthNames DEF Step, Legal
  <2>2. CASE w.op = "assign length"
    <3>1. Measured(ToLength(w.n)) /\ Ordered(o, w.order)
      BY <2>2 DEF Measured, ToLength, LengthDescriptor, Legal
    <3>2. q = PutLength(o, w.n, w.throwable, w.order).object
      BY <2>2 DEF Step
    <3>3. q \in {o, DefineLength(o, ToLength(w.n), w.throwable, w.order).object}
      BY <3>2, OutcomeFields DEF PutLength
    <3> HIDE DEF q
    <3> QED
      BY <1>1, <3>1, <3>3, DefineLengthNames
  <2> QED
    BY <2>1, <2>2 DEF OnLength
<1> HIDE DEF q
<1>3. OwnNames(q) = OwnNames(o)
  BY <1>1, <1>2 DEF OwnNames
<1> QED
  BY <1>3 DEF q

\* What may follow a sealed array.
LEMMA OrdersSealed ==
    ASSUME NEW o, Sound(o), Sealed(o), NEW order \in Orders(o) \cup {NoOrder}
    PROVE  order.gone \cap DOMAIN o.map = {}
<1>1. \A i \in DOMAIN o.map : "C" \notin o.map[i].on /\ i < o.length
  BY SealedClosed
<1>2. CASE order = NoOrder
  BY <1>2 DEF NoOrder
<1>3. CASE order \in Orders(o)
  <2> DEFINE seen == {i \in DOMAIN o.map : i < o.length}
             fixed == Fixed(o, seen)
  <2>1. fixed = seen
    BY <1>1 DEF Fixed
  <2>2. CASE fixed = {}
    <3>1. order.gone = seen
      BY <1>3, <2>2 DEF Orders
    <3> QED
      BY <2>1, <2>2, <3>1
  <2>3. CASE fixed # {}
    <3>1. order.gone \in SUBSET (seen \ fixed)
      BY <1>3, <2>3 DEF Orders
    <3> QED
      BY <2>1, <3>1
  <2> QED
    BY <2>2, <2>3
<1> QED
  BY <1>2, <1>3

LEMMA RunSealed ==
    ASSUME NEW o, Sound(o), Sealed(o), NEW up, NEW program, NEW n, Playable(program, n)
    PROVE  OwnNames(Run(o, up, program).object) = OwnNames(o)
<1>0. n \in Nat /\ DOMAIN program = 1..n
  BY DEF Playable
<1>1. PICK r : InTurn(o, up, program, n, r) /\ Run(o, up, program) = r[n]
  BY <1>0, RunInTurn
<1> DEFINE H == {k \in 0..n : /\ OwnNames(r[k].object) = OwnNames(o)
                              /\ k < n => Sealed(r[k].object) /\ Sound(r[k].object)}
<1>2. 0 \in H
  BY <1>0, <1>1, OutcomeFields DEF InTurn
<1>3. ASSUME NEW k \in 1..n, k - 1 \in H
      PROVE  k \in H
  <2> DEFINE p == r[k - 1].object
             w == program[k]
  <2>0. k \in 0..n /\ k - 1 < n
    BY <1>0
  <2>1. OwnNames(p) = OwnNames(o) /\ Sealed(p) /\ Sound(p)
    BY <1>3, <2>0
  <2>2. r[k].object = p \/ r[k].object = Step(p, up, w).object
    BY <1>1 DEF InTurn
  <2>3. Element(w) \/ (k = n /\ Lengthens(w))
    BY DEF Playable
  <2> HIDE DEF p, w
  <2>4. Legal(p, w)
    BY <2>3, OfAnyArray
  <2>5. CASE r[k].object = p
    BY <2>0, <2>1, <2>5
  <2>6. CASE r[k].object = Step(p, up, w).object /\ Element(w)
    <3>1. ~OnLength(w)
      BY <2>6 DEF Element, OnLength
    <3>2. Kept(p, Step(p, up, w).object)
      BY <2>1, <2>4, <3>1, StepKept
    <3> QED
      BY <2>0, <2>1, <2>6, <3>2, SealedClosed
  <2>7. CASE r[k].object = Step(p, up, w).object /\ k = n /\ Lengthens(w)
    <3>1. OnLength(w) /\ w.order = NoOrder
      BY <2>7 DEF Lengthens, OnLength
    <3>2. w.order.gone \cap DOMAIN p.map = {}
      BY <2>1, <3>1, OrdersSealed
    <3>3. OwnNames(Step(p, up, w).object) = OwnNames(p)
      BY <2>1, <2>4, <3>1, <3>2, LengthStepNames
    <3> QED
      BY <1>0, <2>0, <2>1, <2>7, <3>3
  <2> QED
    BY <2>2, <2>3, <2>5, <2>6, <2>7
<1>4. n \in H
  <2>1. n \in 0..n
    BY <1>0
  <2> HIDE DEF H
  <2> QED
    BY <1>0, <1>2, <1>3, <2>1, IntervalInduction
<1> QED
  BY <1>1, <1>4

LEMMA StepFrozen ==
    ASSUME NEW o, Sound(o), Frozen(o), NEW up, NEW w, Legal(o, w)
    PROVE  Step(o, up, w).object = o
<1>1. /\ Closed(o) /\ ~o.writable
      /\ \A i \in DOMAIN o.map : o.map[i].on \cap {"W", "C"} = {} /\ "C" \notin o.map[i].on
  BY DEF Frozen, Limited, Closed
<1>2. \A i : ~InVector(o, i)
  BY <1>1 DEF InVector, Closed
<1>3. CASE w.op = "put"
  BY <1>1, <1>3, PutKept DEF Step, Legal
<1>4. CASE w.op = "byval"
  BY <1>1, <1>2, <1>4, PutKept DEF Step, Legal, PutByVal
<1>5. CASE w.op = "fraction"
  BY <1>2, <1>5, OutcomeFields DEF Step, PutByFraction
<1>6. CASE w.op = "define"
  BY <1>1, <1>6, DefineFrozen DEF Step, Legal
<1>7. CASE w.op = "delete"
  <2>1. Delete(o, w.i, w.throwable).object = o
    BY <1>1, <1>7, DeleteKept DEF Legal
  <2> QED
    BY <1>7, <2>1 DEF Step
<1>8. CASE w.op = "length"
  <2> DEFINE set == IF "value" \notin w.d.has \/ w.d.value = o.length THEN Outcome(o, "ok")
                    ELSE IF w.d.value = -1 THEN Outcome(o, "TypeError")
                    ELSE IF ~o.writable THEN Refused(o, w.throwable)
                    ELSE SetLength(o, w.d.value, w.throwable, w.order)
  <2>1. set.object = o
    BY <1>1, OutcomeFields
  <2>2. o.writable = FALSE /\ [o EXCEPT !.writable = FALSE] = o
    BY <1>1 DEF Closed, Sound
  <2>3. ChangeLengthWritable(o, "W" \in w.d.on, w.throwable).object = o
    <3>1. PICK q : q = ChangeLengthWritable(o, "W" \in w.d.on, w.throwable)
      OBVIOUS
    <3>2. q \in {Outcome(o, "ok"), Refused(o, w.throwable)}
      BY ONLY <2>2, <3>1 DEF ChangeLengthWritable
    <3> QED
      BY ONLY <3>1, <3>2, OutcomeFields
  <2>4. DefineLength(o, w.d, w.throwable, w.order).object
            \in {o, set.object, ChangeLengthWritable(set.object, "W" \in w.d.on, w.throwable).object}
    BY OutcomeFields DEF DefineLength
  <2> HIDE DEF set
  <2>5. DefineLength(o, w.d, w.throwable, w.order).object = o
    BY <2>1, <2>3, <2>4
  <2> QED
    BY <1>8, <2>5 DEF Step
<1>9. CASE w.op = "assign length"
  BY <1>1, <1>9, OutcomeFields DEF Step, PutLength
<1>10. CASE w.op = "freeze"
  BY <1>1, <1>10, IntegrityKept DEF Step, Freeze
<1>11. CASE w.op = "seal"
  BY <1>1, <1>11, IntegrityKept DEF Step, Seal
<1>13. CASE w.op = "throw"
  BY <1>13, OutcomeFields DEF Step
<1>12. CASE w.op \notin {"put", "byval", "fraction", "define", "delete", "length", "assign length",
                         "freeze", "seal", "throw"}
  <2>1. w.op # "put" /\ w.op # "byval" /\ w.op # "fraction" /\ w.op # "define" /\ w.op # "delete"
        /\ w.op # "length" /\ w.op # "assign length" /\ w.op # "freeze" /\ w.op # "seal" /\ w.op # "throw"
    BY <1>12
  <2>2. Step(o, up, w) = Outcome(PreventExtensions(o), "ok")
    BY <2>1 DEF Step
  <2> QED
    BY <1>1, <2>2, PreventClosed, OutcomeFields
<1> QED
  BY <1>3, <1>4, <1>5, <1>6, <1>7, <1>8, <1>9, <1>10, <1>11, <1>12, <1>13

LEMMA RunFrozen ==
    ASSUME NEW o, Sound(o), Frozen(o), NEW up, NEW program, NEW n, Playable(program, n)
    PROVE  Run(o, up, program).object = o
<1>0. n \in Nat /\ DOMAIN program = 1..n
  BY DEF Playable
<1>1. PICK r : InTurn(o, up, program, n, r) /\ Run(o, up, program) = r[n]
  BY <1>0, RunInTurn
<1> DEFINE H == {k \in 0..n : r[k].object = o}
<1>2. 0 \in H
  BY <1>0, <1>1, OutcomeFields DEF InTurn
<1>3. ASSUME NEW k \in 1..n, k - 1 \in H
      PROVE  k \in H
  <2>1. r[k].object \in {r[k - 1].object, Step(r[k - 1].object, up, program[k]).object}
    BY <1>1 DEF InTurn
  <2>2. Legal(o, program[k])
    BY OfAnyArray DEF Playable
  <2>3. Step(o, up, program[k]).object = o
    BY <2>2, StepFrozen
  <2>4. k \in 0..n /\ r[k - 1].object = o
    BY <1>0, <1>3
  <2> QED
    BY <2>1, <2>3, <2>4
<1>4. n \in H
  <2>1. n \in 0..n
    BY <1>0
  <2> HIDE DEF H
  <2> QED
    BY <1>0, <1>2, <1>3, <2>1, IntervalInduction
<1> QED
  BY <1>1, <1>4

LEMMA IntegrityStep ==
    ASSUME TypeOK, [Next]_vars
    PROVE  (Frozen(arr) => arr' = arr) /\ (Sealed(arr) => OwnNames(arr') = OwnNames(arr))
<1> DEFINE Goal == (Frozen(arr) => arr' = arr) /\ (Sealed(arr) => OwnNames(arr') = OwnNames(arr))
<1>1. Sound(arr)
  BY DEF TypeOK
<1>2. SomeIndices \in SUBSET Index /\ SomeDescriptors \in SUBSET Descriptor
      /\ SomeLengths \in SUBSET (Index \cup {-1})
  BY BoundsAssumption
<1>3. ASSUME NEW w, Legal(arr, w), OnLength(w) => w.order \in Orders(arr) \cup {NoOrder},
             Leads(Step(arr, above, w))
      PROVE  Goal
  <2>1. arr' = Step(arr, above, w).object
    BY <1>3 DEF Leads
  <2>2. Frozen(arr) => arr' = arr
    BY <1>1, <1>3, <2>1, StepFrozen
  <2>3. Sealed(arr) => OwnNames(arr') = OwnNames(arr)
    <3>1. CASE OnLength(w)
      BY <1>1, <1>3, <2>1, <3>1, OrdersSealed, LengthStepNames
    <3>2. CASE ~OnLength(w)
      BY <1>1, <1>3, <2>1, <3>2, StepKept, SealedClosed
    <3> QED
      BY <3>1, <3>2
  <2> QED
    BY <2>2, <2>3
<1>4. ASSUME NEW p, NEW n, Playable(p, n), Leads(Run(arr, above, p))
      PROVE  Goal
  <2>1. arr' = Run(arr, above, p).object
    BY <1>4 DEF Leads
  <2> QED
    BY <1>1, <1>4, <2>1, RunFrozen, RunSealed
<1> HIDE DEF Goal
<1>5. CASE AssignElement
  <2>1. PICK w \in Assignments(SomeIndices) : Leads(Step(arr, above, w))
    BY <1>5 DEF AssignElement
  <2>2. Legal(arr, w) /\ w.op \in {"put", "byval", "fraction"}
    BY <1>2, AssignmentLegal
  <2>3. ~OnLength(w)
    BY <2>2 DEF OnLength
  <2>4. Goal
    BY <1>3, <2>1, <2>2, <2>3
  <2> QED
    BY <2>4 DEF Goal
<1>6. CASE DefineElement
  <2>1. PICK w \in Definitions(SomeIndices, SomeDescriptors) : Leads(Step(arr, above, w))
    BY <1>6 DEF DefineElement
  <2>2. Legal(arr, w) /\ w.op = "define"
    BY <1>2, DefinitionLegal
  <2>3. ~OnLength(w)
    BY <2>2 DEF OnLength
  <2>4. Goal
    BY <1>3, <2>1, <2>2, <2>3
  <2> QED
    BY <2>4 DEF Goal
<1>7. CASE DeleteElement
  <2>1. PICK w \in Deletions(SomeIndices) : Leads(Step(arr, above, w))
    BY <1>7 DEF DeleteElement
  <2>2. Legal(arr, w) /\ w.op = "delete"
    BY <1>2, DeletionLegal
  <2>3. ~OnLength(w)
    BY <2>2 DEF OnLength
  <2>4. Goal
    BY <1>3, <2>1, <2>2, <2>3
  <2> QED
    BY <2>4 DEF Goal
<1>8. CASE DefineLengthOf
  <2>1. PICK w \in Lengths(SomeLengths) : Leads(Step(arr, above, w))
    BY <1>8 DEF DefineLengthOf
  <2>2. Legal(arr, w)
    BY <1>1, <1>2, LengthLegal
  <2>3. w.order \in Orders(arr) \cup {NoOrder}
    BY <1>2, LengthShape
  <2>4. Goal
    BY <1>3, <2>1, <2>2, <2>3
  <2> QED
    BY <2>4 DEF Goal
<1>9. CASE LimitArray
  <2>1. PICK w \in Limits : Leads(Step(arr, above, w))
    BY <1>9 DEF LimitArray
  <2>2. Legal(arr, w) /\ w.op \in {"freeze", "seal", "prevent extensions"}
    BY LimitLegal
  <2>3. ~OnLength(w)
    BY <2>2 DEF OnLength
  <2>4. Goal
    BY <1>3, <2>1, <2>2, <2>3
  <2> QED
    BY <2>4 DEF Goal
<1>10. CASE CallMethod
  <2>1. Goal
    BY <1>4, <1>10, MethodPlayable DEF CallMethod
  <2> QED
    BY <2>1 DEF Goal
<1>11. CASE SortArray
  <2>1. PICK S : chain \in Seq(S) /\ Len(chain) = Len(above) + 1 /\ chain[1] = arr /\ Len(above) \in Nat
    BY ChainOf
  <2>2. PICK c \in Comparators : Leads(Run(arr, above, Sort(chain, c)))
    BY <1>11 DEF SortArray
  <2>3. \E n : Playable(Sort(chain, c), n)
    BY <1>1, <2>1, SortPlayable
  <2>4. Goal
    BY <1>4, <2>2, <2>3
  <2> QED
    BY <2>4 DEF Goal
<1>12. CASE UNCHANGED vars
  BY <1>12 DEF vars
<1> QED
  BY <1>5, <1>6, <1>7, <1>8, <1>9, <1>10, <1>11, <1>12 DEF Next

\* IntegrityHolds.  Object.freeze and Object.seal (JsObject::freeze and seal) hold for
\* every later operation and method, whatever the prototypes: no path of
\* define_own_indexed_property, delete_indexed or set_length gets at an element of a sparse
\* array that is not configurable.
THEOREM IntegrityKeeps == Spec => IntegrityHolds
<1>1. TypeOK /\ [Next]_vars =>
         [/\ Frozen(arr) => View(arr') = View(arr)
          /\ Sealed(arr) => OwnNames(arr') = OwnNames(arr)]_vars
  BY IntegrityStep
<1> QED
  BY <1>1, TypeCorrect, PTL DEF Spec, IntegrityHolds

-----------------------------------------------------------------------------
(* Stray elements.                                                          *)

Within(o) == \A i \in OwnNames(o) : i < o.length

LEMMA NoStray ==
    ASSUME NEW o, Sound(o)
    PROVE  Stray(o) = {} <=> Within(o)
<1>1. o.length \in Int /\ OwnNames(o) \subseteq Int
  BY WidthAssumption, NamesFinite DEF Sound, Index
<1> QED
  BY <1>1 DEF Stray, Within

LEMMA LengthInt ==
    ASSUME NEW o, Sound(o)
    PROVE  o.length \in Nat /\ o.length <= MaxU32 /\ MaxU32 \in Nat /\ MaxVector \in Nat /\ MaxVector < MaxU32
BY WidthAssumption DEF Sound, Index

\* The names of a map, of a dense array and of a sparse one.
LEMMA NamesOf ==
    ASSUME NEW o, Sound(o)
    PROVE  OwnNames(o) = FilledCells(o) \cup DOMAIN o.map
BY DEF Sound, OwnNames

LEMMA DefineDenseWithin ==
    ASSUME NEW o, Sound(o), Within(o), o.dense, NEW i \in Nat, i < MaxVector, NEW v
    PROVE  Within(DefineDense(o, i, v))
<1> DEFINE n == Max({i + 1, Len(o.vector)})
           w == [Resize(o.vector, n) EXCEPT ![i + 1] = v]
           l == Max({o.length, i + 1})
           q == DefineDense(o, i, v)
<1>1. Len(o.vector) \in Nat /\ DOMAIN o.vector = 1..Len(o.vector) /\ o.length \in Nat
  BY SoundVector, LengthInt
<1>2. n = IF i + 1 >= Len(o.vector) THEN i + 1 ELSE Len(o.vector)
  BY <1>1, MaxOfTwo
<1>3. l = IF o.length >= i + 1 THEN o.length ELSE i + 1
  BY <1>1, MaxOfTwo
<1>4. q.vector = w /\ q.map = o.map /\ q.length = l
  BY DEF DefineDense, Sound
<1>5. Sound(q)
  BY DefineDenseSound
<1> HIDE DEF n, l, q
<1>6. n \in Nat /\ Len(w) = n /\ \A k \in 1..n : w[k] = IF k = i + 1 THEN v ELSE IF k <= Len(o.vector) THEN o.vector[k] ELSE Empty
  <2>1. n \in Nat /\ i + 1 \in 1..n
    BY <1>1, <1>2
  <2>2. w = [k \in 1..n |-> w[k]]
    BY DEF Resize
  <2>3. \A k \in 1..n : w[k] = IF k = i + 1 THEN v ELSE IF k <= Len(o.vector) THEN o.vector[k] ELSE Empty
    BY <2>1 DEF Resize
  <2> HIDE DEF w
  <2> QED
    BY <2>1, <2>2, <2>3, SequenceOf
<1> HIDE DEF w
<1>7. ASSUME NEW k \in FilledCells(q)
      PROVE  k < l
  <2>1. k \in 0..(n - 1) /\ w[k + 1] # Empty
    BY <1>4, <1>6 DEF FilledCells, Cell
  <2>2. k + 1 \in 1..n
    BY <1>6, <2>1
  <2>3. CASE k = i
    BY <1>1, <1>3, <2>3
  <2>4. CASE k # i
    <3>1. k + 1 <= Len(o.vector) /\ o.vector[k + 1] # Empty
      BY <1>6, <2>1, <2>2, <2>4
    <3>2. k \in 0..(Len(o.vector) - 1)
      BY <1>1, <1>6, <2>1, <3>1
    <3>3. k \in OwnNames(o)
      BY <3>1, <3>2, NamesOf DEF FilledCells, Cell
    <3> QED
      BY <1>1, <1>3, <2>1, <3>3 DEF Within
  <2> QED
    BY <2>3, <2>4
<1>8. ASSUME NEW k \in DOMAIN o.map
      PROVE  k < l
  <2>1. k \in OwnNames(o) /\ k \in Nat
    BY NamesOf DEF Sound
  <2> QED
    BY <1>1, <1>3, <2>1 DEF Within
<1>9. Within(q)
  BY <1>4, <1>5, <1>7, <1>8, NamesOf DEF Within
<1> QED
  BY <1>9 DEF q

LEMMA MakeSparseWithin ==
    ASSUME NEW o, Sound(o)
    PROVE  /\ OwnNames(MakeSparse(o)) = OwnNames(o) /\ MakeSparse(o).length = o.length
           /\ MakeSparse(o).map = [i \in OwnNames(o) |->
                 IF i \in FilledCells(o) THEN PlainSlot(Cell(o, i)) ELSE o.map[i]]
<1> DEFINE p == MakeSparse(o)
<1>1. /\ p \in [dense : {FALSE}, writable : {o.writable}, extensible : {o.extensible},
                indexed : {o.indexed}, vector : {[k \in DOMAIN o.vector |-> Empty]},
                map : {p.map}, length : {o.length}]
      /\ p.map = [i \in DOMAIN o.map \cup FilledCells(o) |->
                    IF i \in FilledCells(o) THEN PlainSlot(Cell(o, i)) ELSE o.map[i]]
  BY SparseFields
<1> HIDE DEF p
<1>2. ~p.dense /\ p.length = o.length
  BY <1>1
<1>3. OwnNames(o) = DOMAIN o.map \cup FilledCells(o)
  BY NamesOf
<1>4. OwnNames(p) = DOMAIN p.map
  BY <1>2 DEF OwnNames
<1> QED
  BY <1>1, <1>2, <1>3, <1>4 DEF p

\* The cells of an array with another map.
LEMMA DefineInMapWithin ==
    ASSUME NEW o, Sound(o), Within(o), NEW i \in Nat, i < MaxU32, NEW d, NEW t
    PROVE  Within(DefineInMap(o, i, d, t).object)
<1>1. o.length \in Nat /\ MaxU32 \in Nat /\ \A k \in OwnNames(o) : k \in Nat /\ k < o.length
  BY LengthInt, NamesFinite DEF Within
<1>2. CASE i \in DOMAIN o.map
  <2> DEFINE q == [o EXCEPT !.map[i] = Merge(o.map[i], d)]
  <2>1. [o EXCEPT !.map[i] = Merge(@, d)] = q
    OBVIOUS
  <2>2. DefineInMap(o, i, d, t).object \in {o, q}
    BY <1>2, <2>1, OutcomeFields DEF DefineInMap
  <2>3. q.dense = o.dense /\ q.vector = o.vector /\ q.length = o.length /\ DOMAIN q.map = DOMAIN o.map
    BY DEF Sound
  <2> HIDE DEF q
  <2>4. Within(q)
    BY <2>3 DEF Within, OwnNames, FilledCells, Cell
  <2> QED
    BY <2>2, <2>4
<1>3. CASE i \notin DOMAIN o.map
  <2> DEFINE l == IF i < o.length THEN o.length ELSE (i + 1) % (MaxU32 + 1)
             m == Extended(o.map, i, NewSlot(d))
             q == [o EXCEPT !.indexed = TRUE, !.length = l, !.map = m]
  <2>1. DefineInMap(o, i, d, t).object \in {o, q}
    BY <1>3, OutcomeFields DEF DefineInMap
  <2>2. l = IF i < o.length THEN o.length ELSE i + 1
    BY <1>1
  <2>3. DOMAIN m = DOMAIN o.map \cup {i}
    BY DEF Extended
  <2>4. q.dense = o.dense /\ q.vector = o.vector /\ q.length = l /\ q.map = m
    <3> HIDE DEF l, m
    <3> QED
      BY DEF Sound
  <2> HIDE DEF l, m, q
  <2>5. OwnNames(q) = OwnNames(o) \cup {i}
    BY <2>3, <2>4 DEF OwnNames, FilledCells, Cell
  <2>6. Within(q)
    BY <1>1, <2>2, <2>4, <2>5 DEF Within
  <2> QED
    BY <2>1, <2>6
<1> QED
  BY <1>2, <1>3

LEMMA DefineWithin ==
    ASSUME NEW o, Sound(o), Within(o), NEW i \in Nat, i < MaxU32, NEW d, NEW t
    PROVE  Within(Define(o, i, d, t).object)
<1>1. CASE i >= o.length /\ ~o.writable
  BY <1>1, OutcomeFields DEF Define
<1>2. CASE o.dense /\ IsDefault(d) /\ i < MaxVector /\ ~(i >= o.length /\ ~o.writable)
  <2> DEFINE v == IF "value" \in d.has THEN d.value ELSE Undefined
  <2>1. Define(o, i, d, t).object = DefineDense(o, i, v)
    BY <1>2, OutcomeFields DEF Define
  <2> HIDE DEF v
  <2> QED
    BY <1>2, <2>1, DefineDenseWithin
<1>3. CASE ~(o.dense /\ IsDefault(d) /\ i < MaxVector) /\ ~(i >= o.length /\ ~o.writable)
  <2> DEFINE p == IF o.dense /\ ~IsDefault(d) /\ i < MaxVector THEN MakeSparse(o) ELSE o
  <2>1. Sound(p) /\ Within(p)
    BY MakeSparseSound, MakeSparseWithin DEF Within
  <2>2. \/ Define(o, i, d, t).object = o
        \/ Define(o, i, d, t).object = DefineInMap(p, i, d, t).object
    BY <1>3, OutcomeFields DEF Define
  <2> HIDE DEF p
  <2> QED
    BY <2>1, <2>2, DefineInMapWithin
<1> QED
  BY <1>1, <1>2, <1>3

LEMMA PutWithin ==
    ASSUME NEW o, Sound(o), Within(o), NEW up, NEW i \in Nat, i < MaxU32, NEW v, NEW t
    PROVE  Within(Put(o, up, i, v, t).object)
<1>1. CASE i < MaxVector /\ o.dense /\ (up = <<>> \/ HasIndexed(up))
  BY <1>1, OutcomeFields, DefineDenseWithin DEF Put
<1>2. CASE ~(i < MaxVector /\ o.dense /\ (up = <<>> \/ HasIndexed(up)))
  <2>1. Put(o, up, i, v, t).object \in
            {o, Define(o, i, ValueDescriptor(v), t).object, Define(o, i, DataDescriptor(v, Flags), t).object}
    BY <1>2, OutcomeFields DEF Put
  <2> QED
    BY <2>1, DefineWithin
<1> QED
  BY <1>1, <1>2

\* A cell below the length, or one that is emptied.
LEMMA CellWithin ==
    ASSUME NEW o, Sound(o), Within(o), NEW i \in Nat, InVector(o, i), NEW v, i < o.length \/ v = Empty
    PROVE  Within([o EXCEPT !.vector[i + 1] = v])
<1> DEFINE q == [o EXCEPT !.vector[i + 1] = v]
<1>1. /\ q.dense = o.dense /\ q.map = o.map /\ q.length = o.length
      /\ q.vector = [o.vector EXCEPT ![i + 1] = v]
  BY DEF Sound
<1>2. Len(o.vector) \in Nat /\ DOMAIN o.vector = 1..Len(o.vector)
  BY SoundVector
<1>3. Len(q.vector) = Len(o.vector) /\ \A k \in 1..Len(o.vector) : q.vector[k] = IF k = i + 1 THEN v ELSE o.vector[k]
  <2> DEFINE w == [o.vector EXCEPT ![i + 1] = v]
  <2>1. w = [k \in 1..Len(o.vector) |-> w[k]] /\ \A k \in 1..Len(o.vector) : w[k] = IF k = i + 1 THEN v ELSE o.vector[k]
    BY <1>2
  <2> HIDE DEF w, q
  <2>2. Len(w) = Len(o.vector)
    BY <1>2, <2>1, SequenceOf
  <2> QED
    BY <1>1, <2>1, <2>2 DEF w
<1> HIDE DEF q
<1>4. Sound(q)
  BY CellSound DEF q
<1>5. ASSUME NEW k \in FilledCells(q)
      PROVE  k < o.length
  <2>1. k \in 0..(Len(o.vector) - 1) /\ q.vector[k + 1] # Empty
    BY <1>3 DEF FilledCells, Cell
  <2>2. k + 1 \in 1..Len(o.vector)
    BY <1>2, <2>1
  <2>3. CASE k = i
    BY <1>3, <2>1, <2>2, <2>3
  <2>4. CASE k # i
    <3>1. o.vector[k + 1] # Empty
      BY <1>3, <2>1, <2>2, <2>4
    <3>2. k \in OwnNames(o)
      BY <2>1, <3>1, NamesOf DEF FilledCells, Cell
    <3> QED
      BY <3>2 DEF Within
  <2> QED
    BY <2>3, <2>4
<1>6. Within(q)
  BY <1>1, <1>4, <1>5, NamesOf DEF Within
<1> QED
  BY <1>6 DEF q

\* The map without some of its indices has no names that were not there.
LEMMA WithoutNames ==
    ASSUME NEW o, Sound(o), NEW D, NEW l \in Index
    PROVE  LET q == [Without(o, D) EXCEPT !.length = l] IN
           /\ Sound(q) /\ q.length = l
           /\ OwnNames(q) \subseteq FilledCells(o) \cup (DOMAIN o.map \ D)
<1> DEFINE m == Restrict(o.map, DOMAIN o.map \ D)
           p == Without(o, D)
           q == [p EXCEPT !.length = l]
<1>1. Sound(p)
  BY WithoutSound
<1>2. DOMAIN m = DOMAIN o.map \ D
  BY DEF Restrict
<1>3. p \in {MakeDense(o), [o EXCEPT !.map = m]}
  BY DEF Without
<1>4. [o EXCEPT !.map = m].map = m /\ [o EXCEPT !.map = m].vector = o.vector
  BY DEF Sound
<1>5. MakeDense(o).vector = o.vector /\ MakeDense(o).map = NoElements /\ DOMAIN NoElements = {}
  BY MakeDenseSound DEF NoElements
<1> HIDE DEF m, p
<1>6. p.vector = o.vector /\ DOMAIN p.map \subseteq DOMAIN o.map \ D
  BY <1>2, <1>3, <1>4, <1>5
<1>7. Sound(q) /\ q.length = l /\ q.vector = p.vector /\ q.map = p.map
  BY <1>1, LengthSound DEF Sound
<1> HIDE DEF q
<1>8. FilledCells(q) = FilledCells(o)
  BY <1>6, <1>7 DEF FilledCells, Cell
<1>9. OwnNames(q) \subseteq FilledCells(o) \cup (DOMAIN o.map \ D)
  BY <1>6, <1>7, <1>8, NamesOf
<1> QED
  BY <1>7, <1>9 DEF p, q

LEMMA DeleteWithin ==
    ASSUME NEW o, Sound(o), Within(o), NEW i \in Nat, NEW t
    PROVE  Within(Delete(o, i, t).object)
<1>1. CASE InVector(o, i)
  <2>1. Delete(o, i, t).object \in {o, [o EXCEPT !.vector[i + 1] = Empty]}
    BY <1>1, OutcomeFields DEF Delete
  <2> QED
    BY <1>1, <2>1, CellWithin
<1>2. CASE ~InVector(o, i)
  <2>1. Delete(o, i, t).object \in {o, Without(o, {i})}
    BY <1>2, OutcomeFields DEF Delete
  <2> DEFINE p == Without(o, {i})
             q == [p EXCEPT !.length = o.length]
  <2>2. o.length \in Index
    BY DEF Sound
  <2>3. Sound(p) /\ p.length = o.length
    BY WithoutSound
  <2>4. OwnNames(q) \subseteq FilledCells(o) \cup DOMAIN o.map
    BY <2>2, WithoutNames
  <2> HIDE DEF p
  <2>5. q = p
    BY <2>3 DEF Sound
  <2>6. Within(p)
    BY <2>3, <2>4, <2>5, NamesOf DEF Within
  <2> QED
    BY <2>1, <2>6 DEF p
<1> QED
  BY <1>1, <1>2

LEMMA ShrinkDenseWithin ==
    ASSUME NEW o, Sound(o), o.dense, NEW n \in Index, n <= MaxVector
    PROVE  Within(ShrinkDense(o, n))
<1> DEFINE l == Min({n, Len(o.vector)})
           w == Resize(o.vector, l)
           p == MakeDense(o)
           q == ShrinkDense(o, n)
<1>1. Len(o.vector) \in Nat /\ n \in Nat
  BY SoundVector, WidthAssumption DEF Index
<1>2. l \in Nat /\ l <= n
  BY <1>1, MinOfTwo
<1>3. Sound(p) /\ p.vector = o.vector /\ p.map = NoElements
  BY MakeDenseSound
<1>4. q = [p EXCEPT !.vector = w, !.length = n]
  BY <1>3 DEF ShrinkDense
<1>5. w = [k \in 1..l |-> w[k]]
  BY DEF Resize
<1> HIDE DEF p, w, l
<1>6. Len(w) = l
  BY <1>2, <1>5, SequenceOf
<1> DEFINE r == [p EXCEPT !.vector = w, !.length = n]
<1>7. r.vector = w /\ r.length = n /\ r.map = NoElements
  BY <1>3 DEF Sound
<1>8. Sound(q)
  BY ShrinkDenseSound
<1> HIDE DEF q, r
<1>9. q = r
  BY <1>4 DEF r
<1>10. OwnNames(q) \subseteq 0..(l - 1)
  <2>1. DOMAIN NoElements = {}
    BY DEF NoElements
  <2>2. FilledCells(q) \subseteq 0..(l - 1)
    BY <1>6, <1>7, <1>9 DEF FilledCells
  <2> QED
    BY <1>7, <1>8, <1>9, <2>1, <2>2, NamesOf
<1>11. Within(q)
  BY <1>1, <1>2, <1>7, <1>9, <1>10 DEF Within
<1> QED
  BY <1>11 DEF q

LEMMA ShrinkSparseWithin ==
    ASSUME NEW o, Sound(o), Within(o), ~o.dense, NEW n \in Index, n < o.length, NEW t
    PROVE  Within(ShrinkSparse(o, n, t).object)
<1> DEFINE fixed == Fixed(o, n..(o.length - 1))
           m == IF fixed = {} THEN n ELSE Max(fixed) + 1
           D == m..(o.length - 1)
           q == [Without(o, D) EXCEPT !.length = m]
<1>1. o.length \in Index /\ IsFiniteSet(DOMAIN o.map) /\ n \in Nat /\ o.length \in Nat /\ DOMAIN o.map \subseteq Nat
  BY DEF Sound, Index
<1>2. fixed \subseteq DOMAIN o.map /\ fixed \subseteq n..(o.length - 1)
  BY DEF Fixed
<1>3. fixed # {} => Max(fixed) \in n..(o.length - 1)
  <2>1. IsFiniteSet(fixed) /\ fixed \subseteq Int
    BY <1>1, <1>2, FS_Subset
  <2> HIDE DEF fixed
  <2> QED
    BY <1>2, <2>1, MaxOf
<1>4. m \in Index
  <2>1. CASE fixed = {}
    BY <2>1
  <2>2. CASE fixed # {}
    <3>1. Max(fixed) \in Nat /\ Max(fixed) < o.length
      BY <1>1, <1>3, <2>2
    <3> QED
      BY <1>1, <2>2, <3>1, IndexBelow
  <2> QED
    BY <2>1, <2>2
<1>5. ShrinkSparse(o, n, t).object = q
  BY OutcomeFields DEF ShrinkSparse
<1>6. FilledCells(o) = {}
  BY DEF Sound
<1>7. q.length = m /\ OwnNames(q) \subseteq FilledCells(o) \cup (DOMAIN o.map \ D)
  <2> HIDE DEF m, D
  <2> QED
    BY <1>4, WithoutNames
<1> HIDE DEF m
<1>8. m \in Nat
  BY <1>4 DEF Index
<1>9. \A i \in DOMAIN o.map \ (m..(o.length - 1)) : i < m
  <2>1. \A i \in DOMAIN o.map : i < o.length
    BY NamesOf DEF Within
  <2> QED
    BY <1>1, <1>8, <2>1
<1> HIDE DEF q
<1>10. Within(q)
  BY <1>6, <1>7, <1>9 DEF Within
<1> QED
  BY <1>5, <1>10

\* A length that neither drops any element nor shrinks a dense array to more
\* than MAX_VECTOR_SIZE.
Near(o, n) == ~FarShrink(o, n) /\ ~(o.dense /\ MaxVector < n /\ n < o.length)

LEMMA LongerWithin ==
    ASSUME NEW o, Sound(o), Within(o), NEW n \in Index, n >= o.length
    PROVE  Within([o EXCEPT !.length = n])
<1> DEFINE q == [o EXCEPT !.length = n]
<1>1. q.length = n /\ q.map = o.map /\ q.vector = o.vector /\ Sound(q)
  BY LengthSound DEF Sound
<1>2. o.length \in Nat /\ n \in Nat /\ OwnNames(o) \subseteq Nat
  BY LengthInt, NamesFinite DEF Index
<1> HIDE DEF q
<1>3. OwnNames(q) = OwnNames(o)
  BY <1>1, NamesOf DEF FilledCells, Cell
<1>4. Within(q)
  BY <1>1, <1>2, <1>3 DEF Within
<1> QED
  BY <1>4 DEF q

LEMMA SetLengthWithin ==
    ASSUME NEW o, Sound(o), Within(o), NEW n \in Index, Near(o, n), NEW t, NEW order
    PROVE  Within(SetLength(o, n, t, order).object)
<1>0. o.length \in Nat /\ n \in Nat /\ MaxVector \in Nat
  BY WidthAssumption DEF Sound, Index
<1>1. CASE n = MaxU32
  <2>1. ~(n < o.length)
    BY <1>0, <1>1 DEF Sound, Index
  <2> QED
    BY <1>1, <2>1, OutcomeFields DEF SetLength, FarShrink
<1>2. CASE n # MaxU32 /\ n >= o.length
  <2>1. SetLength(o, n, t, order).object = [o EXCEPT !.length = n]
    BY <1>2, <1>0, OutcomeFields DEF SetLength, FarShrink
  <2> QED
    BY <1>2, <2>1, LongerWithin
<1>3. CASE n # MaxU32 /\ n < o.length /\ o.dense
  <2>1. SetLength(o, n, t, order).object = ShrinkDense(o, n)
    BY <1>3, <1>0, OutcomeFields DEF SetLength, FarShrink
  <2>2. n <= MaxVector
    BY <1>0, <1>3 DEF Near
  <2> QED
    BY <1>3, <2>1, <2>2, ShrinkDenseWithin
<1>5. CASE n # MaxU32 /\ n < o.length /\ ~o.dense
  <2>1. SetLength(o, n, t, order) = ShrinkSparse(o, n, t)
    BY <1>5, <1>0 DEF SetLength, Near
  <2> QED
    BY <1>5, <2>1, ShrinkSparseWithin
<1> QED
  BY <1>0, <1>1, <1>2, <1>3, <1>5

LEMMA LengthWritableWithin ==
    ASSUME NEW o, Sound(o), Within(o), NEW x, NEW t
    PROVE  Within(ChangeLengthWritable(o, x, t).object)
<1> DEFINE q == [o EXCEPT !.writable = FALSE]
<1>1. ChangeLengthWritable(o, x, t).object \in {o, q}
  BY OutcomeFields DEF ChangeLengthWritable
<1>2. q.dense = o.dense /\ q.map = o.map /\ q.vector = o.vector /\ q.length = o.length
  BY DEF Sound
<1> HIDE DEF q
<1>3. Within(q)
  BY <1>2 DEF Within, OwnNames, FilledCells, Cell
<1> QED
  BY <1>1, <1>3

LEMMA DefineLengthWithin ==
    ASSUME NEW o, Sound(o), Within(o), NEW d, Measured(d), NEW t, NEW order, Ordered(o, order),
           "value" \in d.has /\ d.value # -1 => Near(o, d.value)
    PROVE  Within(DefineLength(o, d, t, order).object)
<1> DEFINE set == IF "value" \notin d.has \/ d.value = o.length THEN Outcome(o, "ok")
                  ELSE IF d.value = -1 THEN Outcome(o, "TypeError")
                  ELSE IF ~o.writable THEN Refused(o, t)
                  ELSE SetLength(o, d.value, t, order)
<1>1. Sound(set.object) /\ Within(set.object)
  <2>1. CASE "value" \notin d.has \/ d.value = o.length \/ d.value = -1 \/ ~o.writable
    BY <2>1, OutcomeFields
  <2>2. CASE ~("value" \notin d.has \/ d.value = o.length \/ d.value = -1 \/ ~o.writable)
    <3>1. d.value \in Index
      BY <2>2 DEF Measured
    <3> QED
      BY <2>2, <3>1, SetLengthSound, SetLengthWithin
  <2> QED
    BY <2>1, <2>2
<1>2. DefineLength(o, d, t, order).object \in
          {o, set.object, ChangeLengthWritable(set.object, "W" \in d.on, t).object}
  BY OutcomeFields DEF DefineLength
<1> HIDE DEF set
<1> QED
  BY <1>1, <1>2, LengthWritableWithin

LEMMA PreventWithin ==
    ASSUME NEW o, Sound(o), Within(o)
    PROVE  Within(PreventExtensions(o)) /\ \A x \in BOOLEAN : Within([o EXCEPT !.writable = x])
<1> DEFINE p == [o EXCEPT !.extensible = FALSE]
<1>1. Sound(p)
  BY WritableSound
<1>2. p.dense = o.dense /\ p.map = o.map /\ p.vector = o.vector /\ p.length = o.length
  BY DEF Sound
<1> HIDE DEF p
<1>3. Within(p)
  BY <1>2 DEF Within, OwnNames, FilledCells, Cell
<1>4. Within(PreventExtensions(o))
  BY <1>1, <1>3, MakeSparseWithin DEF Within, PreventExtensions, p
<1>5. ASSUME NEW x \in BOOLEAN
      PROVE  Within([o EXCEPT !.writable = x])
  <2> DEFINE q == [o EXCEPT !.writable = x]
  <2>1. q.dense = o.dense /\ q.map = o.map /\ q.vector = o.vector /\ q.length = o.length
    BY DEF Sound
  <2> HIDE DEF q
  <2>2. Within(q)
    BY <2>1 DEF Within, OwnNames, FilledCells, Cell
  <2> QED
    BY <2>2 DEF q
<1> QED
  BY <1>4, <1>5

LEMMA RedefineWithin ==
    ASSUME NEW x, Sound(x.object), Within(x.object), NEW i \in Nat, i < MaxU32, NEW off
    PROVE  Within(Redefine(x, i, off).object)
<1>1. CASE x.result # "ok" \/ GetOwn(x.object, i) = NotFound
  BY <1>1, OutcomeFields DEF Redefine
<1>2. CASE ~(x.result # "ok" \/ GetOwn(x.object, i) = NotFound)
  BY <1>2, DefineWithin DEF Redefine
<1> QED
  BY <1>1, <1>2

LEMMA IntegrityWithin ==
    ASSUME NEW o, Sound(o), Within(o), NEW off
    PROVE  Within(Integrity(o, off).object)
<1> DEFINE S == OwnNames(o)
           b == Outcome(Locked(o, off), "ok")
<1>1. S \subseteq Nat /\ S \subseteq Int /\ IsFiniteSet(S) /\ \A i \in S : i < MaxU32
  BY NamesFinite, LengthInt DEF Within
<1>2. PICK it : /\ Redefined(b, off, S, it)
                /\ Integrity(o, off) = IF it[S].result = "ok"
                                       THEN Outcome(PreventExtensions(it[S].object), "ok") ELSE it[S]
  BY <1>1, IntegrityFolds
<1>3. Sound(b.object) /\ Within(b.object)
  <2>1. (o.writable /\ "W" \notin off) \in BOOLEAN
    OBVIOUS
  <2>2. /\ Sound([o EXCEPT !.writable = o.writable /\ "W" \notin off])
        /\ Within([o EXCEPT !.writable = o.writable /\ "W" \notin off])
    BY <2>1, WritableSound, PreventWithin
  <2> QED
    BY <2>2, OutcomeFields DEF Locked
<1>4. Sound(it[S].object) /\ Within(it[S].object)
  <2> DEFINE H == {s \in SUBSET S : Sound(it[s].object) /\ Within(it[s].object)}
  <2> HIDE DEF b
  <2>1. {} \in H
    BY <1>2, <1>3 DEF Redefined
  <2>2. ASSUME NEW s \in SUBSET S, s # {}
        PROVE  \E x \in s : s \ {x} \in H => s \in H
    <3>1. Max(s) \in s
      BY <1>1, <2>2, MaxOf, SubsetsFinite
    <3>2. it[s] = Redefine(it[s \ {Max(s)}], Max(s), off)
      BY <1>2, <2>2 DEF Redefined
    <3> HIDE DEF S
    <3> QED
      BY <1>1, <3>1, <3>2, RedefineSound, RedefineWithin
  <2>3. S \in H
    <3> HIDE DEF H
    <3> QED
      BY <1>1, <2>1, <2>2, SubsetInduction
  <2> QED
    BY <2>3
<1> HIDE DEF S, b
<1> QED
  BY <1>2, <1>4, OutcomeFields, PreventWithin

\* Every operation but those that Strays names leaves no element at or above
\* the length.
LEMMA StepWithin ==
    ASSUME Sound(arr), Within(arr), NEW w \in Primitives, ~Strays(arr, w)
    PROVE  Within(Step(arr, above, w).object) /\ Legal(arr, w)
<1>0. AllIndices \in SUBSET Index /\ AllDescriptors \in SUBSET Descriptor
      /\ AllLengths \in SUBSET (Index \cup {-1})
  BY BoundsAssumption
<1>1. CASE w \in Assignments(AllIndices)
  <2>1. Legal(arr, w) /\ w.op \in {"put", "byval", "fraction"} /\ w.i \in Index /\ w.i \in Nat
    BY <1>0, <1>1, AssignmentLegal DEF Legal
  <2>2. w.i # MaxU32 => w.i < MaxU32
    BY <2>1, LengthInt DEF Index
  <2>3. ~(w.i >= arr.length) => w.i < arr.length
    BY <2>1, LengthInt
  <2>4. CASE w.op = "put"
    <3>1. w.i < MaxU32
      BY <2>2, <2>4 DEF Strays
    <3> QED
      BY <2>1, <2>4, <3>1, PutWithin DEF Step
  <2>5. CASE w.op = "byval"
    <3>1. w.i < MaxU32 /\ (InVector(arr, w.i) => w.i < arr.length)
      BY <2>2, <2>3, <2>5 DEF Strays
    <3>2. CASE InVector(arr, w.i)
      BY <2>1, <2>5, <3>1, <3>2, CellWithin, OutcomeFields DEF Step, PutByVal
    <3>3. CASE ~InVector(arr, w.i)
      BY <2>1, <2>5, <3>1, <3>3, PutWithin DEF Step, PutByVal
    <3> QED
      BY <3>2, <3>3
  <2>6. CASE w.op = "fraction"
    <3>1. InVector(arr, w.i) => w.i < arr.length
      BY <2>3, <2>6 DEF Strays
    <3>2. Step(arr, above, w) = PutByFraction(arr, w.i, w.v)
      BY <2>6 DEF Step
    <3>3. CASE InVector(arr, w.i)
      <4>1. PutByFraction(arr, w.i, w.v).object = [arr EXCEPT !.vector[w.i + 1] = w.v]
        BY <3>3, OutcomeFields DEF PutByFraction
      <4> QED
        BY <2>1, <3>1, <3>2, <3>3, <4>1, CellWithin
    <3>4. CASE ~InVector(arr, w.i)
      BY <2>1, <3>2, <3>4, OutcomeFields DEF PutByFraction
    <3> QED
      BY <3>3, <3>4
  <2> QED
    BY <2>1, <2>4, <2>5, <2>6
<1>2. CASE w \in Definitions(AllIndices, AllDescriptors)
  <2>1. Legal(arr, w) /\ w.op = "define" /\ w.i \in Index /\ w.i \in Nat
    BY <1>0, <1>2, DefinitionLegal DEF Legal
  <2>2. w.i < MaxU32
    <3>1. w.i # MaxU32
      BY <2>1 DEF Strays
    <3> QED
      BY <2>1, <3>1, LengthInt DEF Index
  <2> QED
    BY <2>1, <2>2, DefineWithin DEF Step
<1>3. CASE w \in Deletions(AllIndices)
  <2>1. Legal(arr, w) /\ w.op = "delete" /\ w.i \in Nat
    BY <1>0, <1>3, DeletionLegal DEF Legal
  <2> QED
    BY <2>1, DeleteWithin DEF Step
<1>4. CASE w \in Lengths(AllLengths)
  <2>1. Legal(arr, w)
    BY <1>0, <1>4, LengthLegal
  <2>2. CASE w.op = "assign length"
    <3>1. w.n \in Index \cup {-1} /\ Ordered(arr, w.order) /\ Near(arr, w.n)
      BY <2>1, <2>2 DEF Legal, Strays, Near
    <3>2. Measured(ToLength(w.n)) /\ ToLength(w.n).value = w.n
      BY <3>1 DEF Measured, ToLength, LengthDescriptor
    <3>3. Within(DefineLength(arr, ToLength(w.n), w.throwable, w.order).object)
      BY <3>1, <3>2, DefineLengthWithin
    <3>4. Step(arr, above, w) = PutLength(arr, w.n, w.throwable, w.order)
      BY <2>2 DEF Step
    <3> QED
      BY <2>1, <3>3, <3>4, OutcomeFields DEF PutLength
  <2>3. CASE w.op = "length"
    <3>1. Measured(w.d) /\ Ordered(arr, w.order)
      BY <2>1, <2>3 DEF Legal
    <3>2. ASSUME "value" \in w.d.has
          PROVE  Near(arr, w.d.value)
      <4>1. w.d.value = Max({arr.length - 1, 0})
        BY <1>0, <1>4, <2>3, <3>2, LengthShape
      <4>2. arr.length \in Nat /\ MaxVector \in Nat \ {0} /\ SparseStep \in Nat \ {0, 1}
        BY LengthInt, WidthAssumption
      <4>3. w.d.value = IF arr.length - 1 >= 0 THEN arr.length - 1 ELSE 0
        BY <4>1, <4>2, MaxOfTwo
      <4>4. ~(arr.dense /\ arr.length - 1 > MaxVector)
        BY <2>3 DEF Strays
      <4>5. ~FarShrink(arr, w.d.value)
        <5>1. ~(w.d.value < arr.length /\ arr.length - w.d.value >= SparseStep)
          BY <4>2, <4>3
        <5> QED
          BY <5>1 DEF FarShrink
      <4>6. ~(MaxVector < w.d.value /\ ~(arr.length - 1 > MaxVector))
        BY <4>2, <4>3
      <4> QED
        BY <4>4, <4>5, <4>6 DEF Near
    <3>3. Within(DefineLength(arr, w.d, w.throwable, w.order).object)
      BY <3>1, <3>2, DefineLengthWithin
    <3> QED
      BY <2>1, <2>3, <3>3 DEF Step
  <2> QED
    BY <1>0, <1>4, <2>2, <2>3, LengthShape
<1>5. CASE w \in Limits
  <2>1. Legal(arr, w) /\ w.op \in {"freeze", "seal", "prevent extensions"}
    BY <1>5, LimitLegal
  <2>2. CASE w.op = "freeze"
    BY <2>1, <2>2, IntegrityWithin DEF Step, Freeze
  <2>3. CASE w.op = "seal"
    BY <2>1, <2>3, IntegrityWithin DEF Step, Seal
  <2>4. CASE w.op = "prevent extensions"
    <3>1. w.op # "put" /\ w.op # "byval" /\ w.op # "fraction" /\ w.op # "define" /\ w.op # "delete"
          /\ w.op # "length" /\ w.op # "assign length" /\ w.op # "freeze" /\ w.op # "seal" /\ w.op # "throw"
      BY <2>4
    <3>2. Step(arr, above, w) = Outcome(PreventExtensions(arr), "ok")
      BY <3>1 DEF Step
    <3>3. Step(arr, above, w).object = PreventExtensions(arr)
      BY <3>2, OutcomeFields
    <3>4. Within(PreventExtensions(arr))
      BY PreventWithin
    <3> QED
      BY <2>1, <3>3, <3>4
  <2> QED
    BY <2>1, <2>2, <2>3, <2>4
<1> QED
  BY <1>1, <1>2, <1>3, <1>4, <1>5 DEF Primitives

\* An array without stray elements gets some only by the operations of Strays:
\* whatever a program does to its elements and length otherwise, no element is
\* left where the array does not count it (vm/object.rs, vm/array.rs).
THEOREM StrayElementsExplained == Spec => []StraysExplained
<1>1. TypeOK => StraysExplained
  <2> SUFFICES ASSUME TypeOK, Stray(arr) = {}, NEW w \in Primitives, ~Strays(arr, w)
               PROVE  Stray(Step(arr, above, w).object) = {}
    BY DEF StraysExplained
  <2>1. Sound(arr) /\ Within(arr)
    BY NoStray DEF TypeOK
  <2>2. Within(Step(arr, above, w).object) /\ Legal(arr, w)
    BY <2>1, StepWithin
  <2>3. Sound(Step(arr, above, w).object)
    BY <2>1, <2>2, StepSound
  <2> QED
    BY <2>2, <2>3, NoStray
<1> QED
  BY <1>1, TypeCorrect, PTL

-----------------------------------------------------------------------------
(* Primitive operations and the reference.                                  *)

\* What an array shows of an index: a cell, or an entry of the map below the length.
LEMMA OwnSlot ==
    ASSUME NEW o, Sound(o), NEW i \in Nat
    PROVE  /\ GetOwn(o, i) = IF i \in FilledCells(o) THEN PlainSlot(Cell(o, i))
                             ELSE IF i \in DOMAIN o.map /\ i < o.length THEN o.map[i] ELSE NotFound
           /\ GetOwn(o, i) # NotFound <=> i \in FilledCells(o) \/ (i \in DOMAIN o.map /\ i < o.length)
           /\ GetOwn(o, i) # NotFound => SoundSlot(GetOwn(o, i))
           /\ i \in FilledCells(o) => i \notin DOMAIN o.map /\ InVector(o, i)
           /\ InVector(o, i) => i < MaxVector /\ i \notin DOMAIN o.map
           /\ InVector(o, i) => (i \in FilledCells(o) <=> Cell(o, i) # Empty)
<1>1. Len(o.vector) \in Nat /\ Len(o.vector) <= MaxVector /\ MaxVector \in Nat
  BY SoundVector, LengthInt
<1>2. i \in FilledCells(o) <=> i < Len(o.vector) /\ Cell(o, i) # Empty
  BY <1>1 DEF FilledCells
<1>3. i \in FilledCells(o) => o.dense
  BY DEF Sound
<1>4. InVector(o, i) => i < MaxVector /\ i \notin DOMAIN o.map
  <2>1. ASSUME InVector(o, i)
        PROVE  i < MaxVector
    BY <1>1, <2>1 DEF InVector
  <2>2. ASSUME InVector(o, i)
        PROVE  i \notin DOMAIN o.map
    BY <1>1, <2>1, <2>2 DEF InVector, Sound
  <2> QED
    BY <2>1, <2>2
<1>5. InVector(o, i) <=> o.dense /\ i < Len(o.vector)
  BY DEF InVector
<1>6. \A v : PlainSlot(v) # NotFound
  BY DEF PlainSlot, NotFound
<1>7. \A k \in DOMAIN o.map : SoundSlot(o.map[k]) /\ o.map[k] # NotFound
  BY DEF Sound, SoundSlot, NotFound
<1> QED
  BY <1>2, <1>3, <1>4, <1>5, <1>6, <1>7, PlainSound DEF GetOwn

\* What an array without stray elements shows.
LEMMA ViewOf ==
    ASSUME NEW o, Sound(o)
    PROVE  /\ View(o) = [length |-> o.length, writable |-> o.writable, extensible |-> o.extensible,
                         props |-> View(o).props]
           /\ View(o).props = [i \in DOMAIN View(o).props |-> GetOwn(o, i)]
           /\ DOMAIN View(o).props \subseteq OwnNames(o)
           /\ \A i \in Index : i \in DOMAIN View(o).props <=> GetOwn(o, i) # NotFound
           /\ Within(o) => DOMAIN View(o).props = OwnNames(o)
<1>1. /\ View(o) = [length |-> o.length, writable |-> o.writable, extensible |-> o.extensible,
                    props |-> View(o).props]
      /\ View(o).props = [i \in {j \in Index : GetOwn(o, j) # NotFound} |-> GetOwn(o, i)]
  BY DEF View
<1>2. DOMAIN View(o).props = {j \in Index : GetOwn(o, j) # NotFound}
  BY <1>1
<1>3. Index \subseteq Nat
  BY WidthAssumption DEF Index
<1>4. DOMAIN View(o).props \subseteq OwnNames(o)
  BY <1>2, <1>3, OwnSlot, NamesOf
<1>5. ASSUME Within(o), NEW i \in OwnNames(o)
      PROVE  i \in DOMAIN View(o).props
  <2>1. i \in Nat /\ i < o.length /\ i \in Index
    BY <1>5, LengthInt, NamesFinite DEF Within, Index
  <2> QED
    BY <1>2, <1>5, <2>1, OwnSlot, NamesOf
<1> QED
  BY <1>1, <1>2, <1>4, <1>5

\* An array of the reference.
IsEcma(a) ==
    /\ a = [length |-> a.length, writable |-> a.writable, extensible |-> a.extensible, props |-> a.props]
    /\ a.props = [i \in DOMAIN a.props |-> a.props[i]]

LEMMA SameView ==
    ASSUME NEW q, NEW a, IsEcma(a),
           q.length = a.length, q.writable = a.writable, q.extensible = a.extensible,
           DOMAIN a.props \subseteq Index,
           \A i \in Index : IF i \in DOMAIN a.props THEN GetOwn(q, i) = a.props[i] /\ a.props[i] # NotFound
                            ELSE GetOwn(q, i) = NotFound
    PROVE  View(q) = a
<1> DEFINE S == {j \in Index : GetOwn(q, j) # NotFound}
<1>1. S = DOMAIN a.props
  OBVIOUS
<1>2. [i \in S |-> GetOwn(q, i)] = a.props
  <2> HIDE DEF S
  <2> QED
    BY <1>1 DEF IsEcma
<1> QED
  BY <1>2 DEF View, IsEcma

\* Two arrays of which a program sees the same.
LEMMA SameShown ==
    ASSUME NEW o, NEW q, q.length = o.length, q.writable = o.writable, q.extensible = o.extensible,
           \A j \in Nat : GetOwn(q, j) = GetOwn(o, j)
    PROVE  View(q) = View(o)
<1>1. Index \subseteq Nat
  BY WidthAssumption DEF Index
<1>2. {j \in Index : GetOwn(q, j) # NotFound} = {j \in Index : GetOwn(o, j) # NotFound}
  BY <1>1
<1>3. [i \in {j \in Index : GetOwn(q, j) # NotFound} |-> GetOwn(q, i)]
      = [i \in {j \in Index : GetOwn(o, j) # NotFound} |-> GetOwn(o, i)]
  BY <1>1, <1>2
<1> QED
  BY <1>3 DEF View

\* One that differs at one index.
Differs(o, q, i, s) ==
    /\ q.writable = o.writable /\ q.extensible = o.extensible
    /\ \A j \in Nat : GetOwn(q, j) = IF j = i THEN s ELSE GetOwn(o, j)

LEMMA ReplacedView ==
    ASSUME NEW o, Sound(o), NEW q, NEW i \in Index, NEW s, s # NotFound, Differs(o, q, i, s),
           q.length = o.length, i \in DOMAIN View(o).props
    PROVE  View(q) = [View(o) EXCEPT !.props[i] = s]
<1> DEFINE a == View(o)
           p == [a.props EXCEPT ![i] = s]
           b == [length |-> a.length, writable |-> a.writable, extensible |-> a.extensible, props |-> p]
<1>0. IsEcma(a) /\ a.length = o.length /\ a.writable = o.writable /\ a.extensible = o.extensible
      /\ Index \subseteq Nat
      /\ DOMAIN a.props \subseteq Index
  BY WidthAssumption DEF Index, View, IsEcma
<1>1. \A j \in Index : (j \in DOMAIN a.props <=> GetOwn(o, j) # NotFound)
                       /\ (j \in DOMAIN a.props => a.props[j] = GetOwn(o, j))
  BY DEF View
<1> HIDE DEF a
<1>2. [a EXCEPT !.props[i] = s] = b
  BY <1>0 DEF IsEcma
<1>3. p = [j \in DOMAIN a.props |-> IF j = i THEN s ELSE a.props[j]]
  BY <1>0 DEF IsEcma
<1> HIDE DEF p
<1>4. IsEcma(b) /\ b.length = a.length /\ b.writable = a.writable /\ b.extensible = a.extensible /\ b.props = p
  BY <1>3 DEF IsEcma
<1> HIDE DEF b
<1>5. i \in DOMAIN a.props
  BY DEF a
<1>6. \A j \in Index : IF j \in DOMAIN p THEN GetOwn(q, j) = p[j] /\ p[j] # NotFound
                       ELSE GetOwn(q, j) = NotFound
  BY <1>0, <1>1, <1>3, <1>5 DEF Differs
<1>7. View(q) = b
  BY <1>0, <1>3, <1>4, <1>6, SameView DEF Differs
<1> QED
  BY <1>2, <1>7 DEF a

\* An array of the reference with one more element.
Grown(a, i, s) == [a EXCEPT !.length = Max({@, i + 1}), !.props = Extended(@, i, s)]

LEMMA ExtendedView ==
    ASSUME NEW o, Sound(o), NEW q, NEW i \in Index, NEW s, s # NotFound, Differs(o, q, i, s),
           q.length = IF i < o.length THEN o.length ELSE i + 1, i \notin DOMAIN View(o).props
    PROVE  View(q) = Grown(View(o), i, s)
<1> DEFINE a == View(o)
           p == Extended(a.props, i, s)
           l == Max({a.length, i + 1})
           b == [length |-> l, writable |-> a.writable, extensible |-> a.extensible, props |-> p]
<1>0. IsEcma(a) /\ a.length = o.length /\ a.writable = o.writable /\ a.extensible = o.extensible
      /\ Index \subseteq Nat /\ o.length \in Nat
      /\ DOMAIN a.props \subseteq Index
  BY WidthAssumption, LengthInt DEF Index, View, IsEcma
<1>1. \A j \in Index : (j \in DOMAIN a.props <=> GetOwn(o, j) # NotFound)
                       /\ (j \in DOMAIN a.props => a.props[j] = GetOwn(o, j))
  BY DEF View
<1> HIDE DEF a
<1>8. l = q.length
  <2>1. l = IF a.length >= i + 1 THEN a.length ELSE i + 1
    BY <1>0, MaxOfTwo
  <2> QED
    BY <1>0, <2>1
<1>3. p = [j \in DOMAIN a.props \cup {i} |-> IF j = i THEN s ELSE a.props[j]]
  BY DEF Extended
<1> HIDE DEF p, l
<1>2. [a EXCEPT !.length = l, !.props = p] = b
  <2>1. a \in [length : {a.length}, writable : {a.writable}, extensible : {a.extensible}, props : {a.props}]
    BY <1>0 DEF IsEcma
  <2> HIDE DEF b
  <2>2. b \in [length : {l}, writable : {a.writable}, extensible : {a.extensible}, props : {p}]
    BY DEF b
  <2>3. [a EXCEPT !.length = l, !.props = p]
            \in [length : {l}, writable : {a.writable}, extensible : {a.extensible}, props : {p}]
    BY <2>1
  <2> QED
    BY <2>2, <2>3
<1>4. IsEcma(b) /\ b.length = l /\ b.writable = a.writable /\ b.extensible = a.extensible /\ b.props = p
  BY <1>3 DEF IsEcma
<1> HIDE DEF b
<1>6. \A j \in Index : IF j \in DOMAIN p THEN GetOwn(q, j) = p[j] /\ p[j] # NotFound
                       ELSE GetOwn(q, j) = NotFound
  BY <1>0, <1>1, <1>3 DEF Differs
<1>7. View(q) = b
  BY <1>0, <1>3, <1>4, <1>6, <1>8, SameView DEF Differs
<1> QED
  BY <1>2, <1>7 DEF a, p, l, Grown

LEMMA DroppedView ==
    ASSUME NEW o, Sound(o), NEW q, NEW i \in Index, Differs(o, q, i, NotFound), q.length = o.length
    PROVE  View(q) = [View(o) EXCEPT !.props = Restrict(@, DOMAIN @ \ {i})]
<1> DEFINE a == View(o)
           p == Restrict(a.props, DOMAIN a.props \ {i})
           b == [length |-> a.length, writable |-> a.writable, extensible |-> a.extensible, props |-> p]
<1>0. IsEcma(a) /\ a.length = o.length /\ a.writable = o.writable /\ a.extensible = o.extensible
      /\ Index \subseteq Nat
      /\ DOMAIN a.props \subseteq Index
  BY WidthAssumption DEF Index, View, IsEcma
<1>1. \A j \in Index : (j \in DOMAIN a.props <=> GetOwn(o, j) # NotFound)
                       /\ (j \in DOMAIN a.props => a.props[j] = GetOwn(o, j))
  BY DEF View
<1> HIDE DEF a
<1>2. [a EXCEPT !.props = Restrict(@, DOMAIN @ \ {i})] = b
  BY <1>0 DEF IsEcma
<1>3. p = [j \in DOMAIN a.props \ {i} |-> a.props[j]]
  BY DEF Restrict
<1> HIDE DEF p
<1>4. IsEcma(b) /\ b.length = a.length /\ b.writable = a.writable /\ b.extensible = a.extensible /\ b.props = p
  BY <1>3 DEF IsEcma
<1> HIDE DEF b
<1>6. \A j \in Index : IF j \in DOMAIN p THEN GetOwn(q, j) = p[j] /\ p[j] # NotFound
                       ELSE GetOwn(q, j) = NotFound
  BY <1>0, <1>1, <1>3 DEF Differs
<1>7. View(q) = b
  BY <1>0, <1>3, <1>4, <1>6, SameView DEF Differs
<1> QED
  BY <1>2, <1>7 DEF a

LEMMA CellDiffers ==
    ASSUME NEW o, Sound(o), NEW i \in Nat, InVector(o, i), NEW v
    PROVE  LET q == [o EXCEPT !.vector[i + 1] = v] IN
           Differs(o, q, i, IF v = Empty THEN NotFound ELSE PlainSlot(v)) /\ q.length = o.length
<1> DEFINE q == [o EXCEPT !.vector[i + 1] = v]
<1>1. /\ q.dense = o.dense /\ q.map = o.map /\ q.length = o.length
      /\ q.writable = o.writable /\ q.extensible = o.extensible
      /\ q.vector = [o.vector EXCEPT ![i + 1] = v]
  BY DEF Sound
<1>2. Len(o.vector) \in Nat /\ DOMAIN o.vector = 1..Len(o.vector)
  BY SoundVector
<1>3. Len(q.vector) = Len(o.vector) /\ \A k \in 1..Len(o.vector) : q.vector[k] = IF k = i + 1 THEN v ELSE o.vector[k]
  <2> DEFINE w == [o.vector EXCEPT ![i + 1] = v]
  <2>1. w = [k \in 1..Len(o.vector) |-> w[k]] /\ \A k \in 1..Len(o.vector) : w[k] = IF k = i + 1 THEN v ELSE o.vector[k]
    BY <1>2
  <2> HIDE DEF w, q
  <2>2. Len(w) = Len(o.vector)
    BY <1>2, <2>1, SequenceOf
  <2> QED
    BY <1>1, <2>1, <2>2 DEF w
<1> HIDE DEF q
<1>4. ASSUME NEW j \in Nat
      PROVE  GetOwn(q, j) = IF j = i THEN (IF v = Empty THEN NotFound ELSE PlainSlot(v)) ELSE GetOwn(o, j)
  <2>1. InVector(q, j) <=> InVector(o, j)
    BY <1>1, <1>3 DEF InVector
  <2>2. InVector(o, j) => Cell(q, j) = IF j = i THEN v ELSE Cell(o, j)
    <3>1. InVector(o, j) => j + 1 \in 1..Len(o.vector)
      BY <1>2 DEF InVector
    <3> QED
      BY <1>3, <3>1 DEF Cell
  <2> QED
    BY <1>1, <2>1, <2>2 DEF GetOwn
<1>5. Differs(o, q, i, IF v = Empty THEN NotFound ELSE PlainSlot(v))
  BY <1>1, <1>4 DEF Differs
<1> QED
  BY <1>1, <1>5 DEF q

LEMMA DenseDiffers ==
    ASSUME NEW o, Sound(o), Within(o), o.dense, NEW i \in Nat, i < MaxVector, NEW v, v # Empty
    PROVE  LET q == DefineDense(o, i, v) IN
           Differs(o, q, i, PlainSlot(v)) /\ q.length = IF i < o.length THEN o.length ELSE i + 1
<1> DEFINE n == Max({i + 1, Len(o.vector)})
           w == [Resize(o.vector, n) EXCEPT ![i + 1] = v]
           l == Max({o.length, i + 1})
           q == DefineDense(o, i, v)
<1>1. Len(o.vector) \in Nat /\ DOMAIN o.vector = 1..Len(o.vector) /\ o.length \in Nat
      /\ MaxVector \in Nat /\ Len(o.vector) <= MaxVector
  BY SoundVector, LengthInt
<1>2. n = IF i + 1 >= Len(o.vector) THEN i + 1 ELSE Len(o.vector)
  BY <1>1, MaxOfTwo
<1>3. l = IF o.length >= i + 1 THEN o.length ELSE i + 1
  BY <1>1, MaxOfTwo
<1>4. q.vector = w /\ q.map = o.map /\ q.length = l /\ q.writable = o.writable /\ q.extensible = o.extensible
      /\ q.dense
  BY DEF DefineDense, Sound
<1> HIDE DEF n, l, q
<1>6. n \in Nat /\ Len(w) = n /\ \A k \in 1..n : w[k] = IF k = i + 1 THEN v ELSE IF k <= Len(o.vector) THEN o.vector[k] ELSE Empty
  <2>1. n \in Nat /\ i + 1 \in 1..n
    BY <1>1, <1>2
  <2>2. w = [k \in 1..n |-> w[k]]
    BY DEF Resize
  <2>3. \A k \in 1..n : w[k] = IF k = i + 1 THEN v ELSE IF k <= Len(o.vector) THEN o.vector[k] ELSE Empty
    BY <2>1 DEF Resize
  <2> HIDE DEF w
  <2> QED
    BY <2>1, <2>2, <2>3, SequenceOf
<1> HIDE DEF w
<1>7. \A j \in DOMAIN o.map : j \in Nat /\ j >= MaxVector /\ j < o.length
  BY NamesOf DEF Within, Sound
<1>8. ASSUME NEW j \in Nat
      PROVE  GetOwn(q, j) = IF j = i THEN PlainSlot(v) ELSE GetOwn(o, j)
  <2>1. InVector(q, j) <=> j < n
    BY <1>4, <1>6 DEF InVector
  <2>2. InVector(o, j) <=> j < Len(o.vector)
    BY DEF InVector
  <2>3. n <= MaxVector
    BY <1>1, <1>2
  <2>4. CASE j < n
    <3>1. Cell(q, j) = IF j = i THEN v ELSE IF j < Len(o.vector) THEN Cell(o, j) ELSE Empty
      <4>1. j + 1 \in 1..n /\ (j + 1 = i + 1 <=> j = i) /\ (j + 1 <= Len(o.vector) <=> j < Len(o.vector))
        BY <1>1, <1>6, <2>4
      <4> QED
        BY <1>4, <1>6, <4>1 DEF Cell
    <3>2. j \notin DOMAIN o.map
      BY <1>1, <1>6, <1>7, <2>3, <2>4
    <3> QED
      BY <2>1, <2>2, <2>4, <3>1, <3>2 DEF GetOwn
  <2>5. CASE ~(j < n)
    <3>1. j # i /\ ~(j < Len(o.vector))
      BY <1>1, <1>2, <2>5
    <3>2. j \in DOMAIN o.map => (j < q.length <=> j < o.length)
      BY <1>1, <1>3, <1>4, <1>7
    <3> QED
      BY <1>4, <2>1, <2>2, <2>5, <3>1, <3>2 DEF GetOwn
  <2> QED
    BY <2>4, <2>5
<1>9. q.length = IF i < o.length THEN o.length ELSE i + 1
  BY <1>1, <1>3, <1>4
<1>10. Differs(o, q, i, PlainSlot(v))
  BY <1>4, <1>8 DEF Differs
<1> QED
  BY <1>9, <1>10 DEF q

LEMMA MapDiffers ==
    ASSUME NEW o, Sound(o), Within(o), NEW i \in Nat, ~InVector(o, i), NEW q, NEW s,
           q.dense = o.dense, q.vector = o.vector, q.writable = o.writable, q.extensible = o.extensible,
           q.length \in Nat, q.length >= o.length, i < q.length, DOMAIN q.map = DOMAIN o.map \cup {i},
           \A j \in DOMAIN q.map : q.map[j] = IF j = i THEN s ELSE o.map[j]
    PROVE  Differs(o, q, i, s)
<1>1. o.length \in Nat /\ \A j \in DOMAIN o.map : j < o.length /\ j \in Nat
  BY LengthInt, NamesOf DEF Within, Sound
<1>2. \A j \in Nat : (InVector(q, j) <=> InVector(o, j)) /\ Cell(q, j) = Cell(o, j)
  BY DEF InVector, Cell
<1>3. \A j \in DOMAIN o.map : j < q.length
  BY <1>1
<1>4. ASSUME NEW j \in Nat
      PROVE  GetOwn(q, j) = IF j = i THEN s ELSE GetOwn(o, j)
  BY <1>1, <1>2, <1>3 DEF GetOwn
<1> QED
  BY <1>4 DEF Differs

LEMMA SparseSame ==
    ASSUME NEW o, Sound(o), Within(o)
    PROVE  /\ \A j \in Nat : GetOwn(MakeSparse(o), j) = GetOwn(o, j)
           /\ MakeSparse(o).length = o.length /\ MakeSparse(o).writable = o.writable
           /\ MakeSparse(o).extensible = o.extensible
           /\ View(MakeSparse(o)) = View(o)
<1> DEFINE q == MakeSparse(o)
<1>1. /\ q \in [dense : {FALSE}, writable : {o.writable}, extensible : {o.extensible},
                indexed : {o.indexed}, vector : {[k \in DOMAIN o.vector |-> Empty]},
                map : {q.map}, length : {o.length}]
      /\ q.map = [i \in DOMAIN o.map \cup FilledCells(o) |->
                    IF i \in FilledCells(o) THEN PlainSlot(Cell(o, i)) ELSE o.map[i]]
  BY SparseFields
<1> HIDE DEF q
<1>2. \A j : ~InVector(q, j)
  BY <1>1 DEF InVector
<1>3. q.length = o.length /\ q.writable = o.writable /\ q.extensible = o.extensible
  BY <1>1
<1>4. \A j \in FilledCells(o) \cup DOMAIN o.map : j < o.length
  BY NamesOf DEF Within
<1>5. ASSUME NEW j \in Nat
      PROVE  GetOwn(q, j) = GetOwn(o, j)
  <2>1. GetOwn(q, j) = IF j \in DOMAIN q.map /\ j < o.length THEN q.map[j] ELSE NotFound
    BY <1>2, <1>3 DEF GetOwn
  <2>2. j \in DOMAIN q.map <=> j \in DOMAIN o.map \/ j \in FilledCells(o)
    BY <1>1
  <2>3. j \in DOMAIN q.map => q.map[j] = IF j \in FilledCells(o) THEN PlainSlot(Cell(o, j)) ELSE o.map[j]
    BY <1>1
  <2>4. GetOwn(o, j) = IF j \in FilledCells(o) THEN PlainSlot(Cell(o, j))
                       ELSE IF j \in DOMAIN o.map /\ j < o.length THEN o.map[j] ELSE NotFound
    BY OwnSlot
  <2> QED
    BY <1>4, <2>1, <2>2, <2>3, <2>4
<1>6. View(q) = View(o)
  BY <1>3, <1>5, SameShown
<1> QED
  BY <1>3, <1>5, <1>6 DEF q

\* Two arrays that differ in what they allow.
LEMMA AllowedView ==
    ASSUME NEW o, NEW q, q.length = o.length, \A j \in Nat : GetOwn(q, j) = GetOwn(o, j)
    PROVE  /\ q.extensible = o.extensible => View(q) = [View(o) EXCEPT !.writable = q.writable]
           /\ q.writable = o.writable => View(q) = [View(o) EXCEPT !.extensible = q.extensible]
<1> DEFINE P(r) == [i \in {j \in Index : GetOwn(r, j) # NotFound} |-> GetOwn(r, i)]
<1>1. Index \subseteq Nat
  BY WidthAssumption DEF Index
<1>2. {j \in Index : GetOwn(q, j) # NotFound} = {j \in Index : GetOwn(o, j) # NotFound}
  BY <1>1
<1>3. P(q) = P(o)
  BY <1>1, <1>2
<1>4. \A r : View(r) = [length |-> r.length, writable |-> r.writable, extensible |-> r.extensible, props |-> P(r)]
  BY DEF View
<1> HIDE DEF P
<1> QED
  BY <1>3, <1>4

LEMMA PreventView ==
    ASSUME NEW o, Sound(o), Within(o)
    PROVE  View(PreventExtensions(o)) = [View(o) EXCEPT !.extensible = FALSE]
<1> DEFINE p == [o EXCEPT !.extensible = FALSE]
<1>1. Sound(p)
  BY WritableSound
<1>2. p.dense = o.dense /\ p.map = o.map /\ p.vector = o.vector /\ p.length = o.length
      /\ p.writable = o.writable /\ p.extensible = FALSE
  BY DEF Sound
<1> HIDE DEF p
<1>3. Within(p)
  BY <1>2 DEF Within, OwnNames, FilledCells, Cell
<1>4. \A j : GetOwn(p, j) = GetOwn(o, j)
  BY <1>2 DEF GetOwn, InVector, Cell
<1>5. View(p) = [View(o) EXCEPT !.extensible = FALSE]
  BY <1>2, <1>4, AllowedView
<1>6. View(MakeSparse(p)) = View(p)
  BY <1>1, <1>3, SparseSame
<1> QED
  BY <1>5, <1>6 DEF PreventExtensions, p

\* The rejections agree where the definition would have an effect.
LEMMA SameRejections ==
    ASSUME NEW s, SoundSlot(s), NEW d, Asked(d), ~EcmaSame(s, d)
    PROVE  Rejected(s, d) <=> EcmaRejects(s, d)
<1>1. d.on \subseteq d.has /\ Kind(d) = "data" => d.has \cap AccessorFields = {}
  BY DEF Asked, Kind
<1>2. EcmaRejects(s, d) => Rejected(s, d)
  BY DEF EcmaRejects, Rejected
<1>3. ASSUME Rejected(s, d), ~EcmaRejects(s, d) PROVE FALSE
  <2>1. /\ "C" \notin s.on /\ "C" \notin d.on /\ Agrees(s, d, {"E"})
        /\ Kind(d) = "data" /\ s.kind = "data" /\ "W" \notin s.on
        /\ "W" \notin d.on /\ "value" \notin d.has
    BY <1>3 DEF EcmaRejects, Rejected
  <2>2. Agrees(s, d, Flags)
    BY <2>1 DEF Agrees, Flags
  <2>3. d.has \cap AccessorFields = {}
    BY <1>1, <2>1 DEF Asked
  <2> QED
    BY <2>1, <2>2, <2>3 DEF EcmaSame, AccessorFields
<1> QED
  BY <1>2, <1>3

\* The code keeps a property only where the standard does.
LEMMA KeptAsEcma ==
    ASSUME NEW s, SoundSlot(s), NEW d, Asked(d), Verdict(s, d) = "keep"
    PROVE  EcmaSame(s, d)
<1>1. CASE d.has \cap {"E", "C"} = {} /\ Kind(d) = "generic"
  <2>1. d.has = {}
    BY <1>1 DEF Kind, Asked, DataFields, AccessorFields, Flags
  <2> QED
    BY <2>1 DEF EcmaSame, Agrees
<1>2. CASE NoEffect(s, d)
  <2>1. Agrees(s, d, {"C", "E"}) /\ Kind(d) = s.kind
    BY <1>2 DEF NoEffect
  <2>2. CASE Kind(d) = "data"
    <3>1. Agrees(s, d, {"W"}) /\ ("value" \in d.has => d.value = s.value)
      BY <1>2, <2>2 DEF NoEffect
    <3>2. d.has \cap AccessorFields = {}
      BY <2>2 DEF Kind, Asked
    <3>3. Agrees(s, d, Flags)
      BY <2>1, <3>1 DEF Agrees, Flags
    <3> QED
      BY <2>1, <2>2, <3>1, <3>2, <3>3 DEF EcmaSame, AccessorFields
  <2>3. CASE Kind(d) = "accessor"
    <3>1. d.get = s.value.get /\ d.set = s.value.set
      BY <1>2, <2>3 DEF NoEffect
    <3>2. d.has \cap DataFields = {}
      BY <2>3 DEF Kind
    <3>3. Agrees(s, d, Flags)
      BY <2>1, <3>2 DEF Agrees, Flags, DataFields
    <3> QED
      BY <2>1, <2>3, <3>1, <3>2, <3>3 DEF EcmaSame, DataFields
  <2> QED
    BY <2>1, <2>2, <2>3 DEF SoundSlot
<1> QED
  BY <1>1, <1>2 DEF Verdict

\* A definition that changes nothing is not refused, and merging it changes
\* nothing.
LEMMA MergeOfSame ==
    ASSUME NEW s, SoundSlot(s), NEW d, Asked(d), EcmaSame(s, d),
           Verdict(s, d) # "keep"
    PROVE  ~Rejected(s, d) /\ Merge(s, d) = s
<1>0. d.on \subseteq d.has /\ d.on \subseteq Flags /\ s.on \subseteq Flags
      /\ s.kind \in {"data", "accessor"}
      /\ (s.kind = "accessor" => s.value = [get |-> s.value.get, set |-> s.value.set] /\ "W" \notin s.on)
      /\ s = [kind |-> s.kind, on |-> s.on, value |-> s.value]
      /\ (Kind(d) = "data" => d.has \cap AccessorFields = {})
  BY DEF Asked, SoundSlot, Kind
<1>1. /\ Agrees(s, d, Flags) /\ Agrees(s, d, {"C", "E"})
      /\ Agrees(s, d, {"W"}) /\ Agrees(s, d, {"E"})
  BY DEF EcmaSame, Agrees, Flags
<1>2. Replaced(s, d, Flags) = s.on /\ Replaced(s, d, {"E", "C"}) = s.on
  BY <1>0, <1>1 DEF Agrees, Replaced, Flags
<1>3. d.on \subseteq s.on
  BY <1>0, <1>1 DEF Agrees
<1>4. Kind(d) \in {"generic", s.kind}
  BY DEF EcmaSame, Kind
<1>5. Kind(d) # "data"
  <2>1. Kind(d) = "data" => NoEffect(s, d)
    BY <1>1, <1>4 DEF NoEffect, EcmaSame
  <2> QED
    BY <2>1 DEF Verdict
<1>6. CASE Kind(d) = "generic"
  BY <1>0, <1>1, <1>2, <1>3, <1>6 DEF Rejected, Merge
<1>7. CASE Kind(d) = "accessor"
  <2>1. s.kind = "accessor" /\ s.value = [get |-> s.value.get, set |-> s.value.set] /\ "W" \notin s.on
    BY <1>0, <1>4, <1>7
  <2>2. /\ "get" \in d.has => d.get = s.value.get
        /\ "set" \in d.has => d.set = s.value.set
    BY DEF EcmaSame
  <2>3. ~Rejected(s, d)
    BY <1>1, <1>3, <1>4, <1>7, <2>1, <2>2 DEF Rejected
  <2>4. s.value = [get |-> s.value.get, set |-> s.value.set]
    BY <2>1 
  <2>5. Merge(s, d) = [kind |-> "accessor", on |-> s.on, value |-> s.value]
    BY <1>2, <1>7, <2>1, <2>2, <2>4 DEF Merge
  <2> QED
    BY <1>0, <2>1, <2>3, <2>5
<1> QED
  BY <1>5, <1>6, <1>7 DEF Kind

\* What the code leaves is what 8.12.9 leaves, except for an accessor that
\* becomes a data property without a value.
LEMMA MergeAsEcma ==
    ASSUME NEW s, SoundSlot(s), NEW d, Asked(d),
           ~(s.kind = "accessor" /\ Kind(d) = "data" /\ "value" \notin d.has)
    PROVE  Merge(s, d) = EcmaMerge(s, d)
<1>0. d.on \subseteq d.has /\ d.on \subseteq Flags /\ s.on \subseteq Flags
      /\ s.kind \in {"data", "accessor"}
      /\ (s.kind = "accessor" => s.value = [get |-> s.value.get, set |-> s.value.set] /\ "W" \notin s.on)
      /\ s = [kind |-> s.kind, on |-> s.on, value |-> s.value]
  BY DEF Asked, SoundSlot
<1>1. CASE Kind(d) = "generic"
  <2>1. d.has \cap DataFields = {} /\ d.has \cap AccessorFields = {}
    BY <1>1 DEF Kind
  <2>2. Replaced(s, d, Flags) = Replaced(s, d, {"E", "C"})
    BY <1>0, <2>1 DEF Replaced, Flags, DataFields
  <2>3. EcmaConverted(s, Kind(d)) = s
    BY <1>1 DEF EcmaConverted
  <2>4. CASE s.kind = "data"
    BY <1>0, <1>1, <2>1, <2>2, <2>3, <2>4 DEF Merge, EcmaMerge, DataFields
  <2>5. CASE s.kind = "accessor"
    <3>1. [get |-> s.value.get, set |-> s.value.set] = s.value
      BY <1>0, <2>5 
    <3> QED
      BY <1>0, <1>1, <2>1, <2>2, <2>3, <2>5, <3>1 DEF Merge, EcmaMerge, AccessorFields
  <2> QED
    BY <1>0, <2>4, <2>5
<1>2. CASE Kind(d) = "data"
  <2>1. CASE s.kind = "data"
    BY <1>0, <1>2, <2>1 DEF Merge, EcmaMerge, EcmaConverted
  <2>2. CASE s.kind = "accessor"
    <3>1. "value" \in d.has
      BY <1>2, <2>2
    <3>2. s.on \ {"W"} = s.on
      BY <1>0, <2>2
    <3> QED
      BY <1>0, <1>2, <2>2, <3>1, <3>2 DEF Merge, EcmaMerge, EcmaConverted, Replaced
  <2> QED
    BY <1>0, <2>1, <2>2
<1>3. CASE Kind(d) = "accessor"
  <2>1. d.has \cap DataFields = {}
    BY <1>3 DEF Kind
  <2>2. "W" \notin d.has
    BY <2>1 DEF DataFields
  <2>3. CASE s.kind = "accessor"
    <3>1. Replaced(s, d, Flags) = Replaced(s, d, {"E", "C"}) \ {"W"}
      BY <1>0, <2>2, <2>3 DEF Replaced, Flags
    <3> QED
      BY <1>3, <2>3, <3>1 DEF Merge, EcmaMerge, EcmaConverted
  <2>4. CASE s.kind = "data"
    <3> DEFINE c == EcmaConverted(s, "accessor")
    <3>1. c.on = s.on \ {"W"} /\ c.kind = "accessor"
          /\ c.value.get = Undefined /\ c.value.set = Undefined
      BY <2>4 DEF EcmaConverted
    <3>2. Replaced(c, d, Flags) = Replaced(s, d, {"E", "C"}) \ {"W"}
      BY <1>0, <2>2, <3>1 DEF Replaced, Flags
    <3> HIDE DEF c
    <3> QED
      BY <1>3, <2>4, <3>1, <3>2 DEF Merge, EcmaMerge, c
  <2> QED
    BY <1>0, <2>3, <2>4
<1> QED
  BY <1>1, <1>2, <1>3 DEF Kind

\* What a definition leaves of a property is what 8.12.9 leaves.
LEMMA SlotAsEcma ==
    ASSUME NEW s, SoundSlot(s), NEW d, Asked(d),
           ~(s.kind = "accessor" /\ Kind(d) = "data" /\ "value" \notin d.has)
    PROVE  /\ Verdict(s, d) = "reject" <=> EcmaVerdict(s, d) = "reject"
           /\ Verdict(s, d) = "keep" => EcmaVerdict(s, d) = "keep"
           /\ Verdict(s, d) = "merge" => Merge(s, d) = IF EcmaVerdict(s, d) = "merge" THEN EcmaMerge(s, d) ELSE s
           /\ Verdict(s, d) \in {"keep", "reject", "merge"} /\ EcmaVerdict(s, d) \in {"keep", "reject", "merge"}
<1>1. CASE EcmaSame(s, d)
  <2>1. EcmaVerdict(s, d) = "keep"
    BY <1>1 DEF EcmaVerdict
  <2>2. Verdict(s, d) # "keep" => ~Rejected(s, d) /\ Merge(s, d) = s
    BY <1>1, MergeOfSame
  <2> QED
    BY <2>1, <2>2 DEF Verdict
<1>2. CASE ~EcmaSame(s, d)
  <2>1. Verdict(s, d) # "keep" /\ (Rejected(s, d) <=> EcmaRejects(s, d))
    BY <1>2, KeptAsEcma, SameRejections
  <2> QED
    BY <1>2, <2>1, MergeAsEcma DEF Verdict, EcmaVerdict
<1> QED
  BY <1>1, <1>2

\* An outcome and the one of the reference.
Agree(x, e) == View(x.object) = e.array /\ x.result = e.result

LEMMA EcmaFields ==
    \A a, r, t : /\ EcmaOutcome(a, r).array = a /\ EcmaOutcome(a, r).result = r
                 /\ EcmaRefused(a, t).array = a /\ EcmaRefused(a, t).result = IF t THEN "TypeError" ELSE "refused"
BY DEF EcmaOutcome, EcmaRefused

LEMMA RefusedAgree ==
    \A o, t : Agree(Refused(o, t), EcmaRefused(View(o), t))
BY OutcomeFields, EcmaFields DEF Agree

\* The elements of a view.
LEMMA ViewProps ==
    ASSUME NEW o, Sound(o), Within(o)
    PROVE  /\ View(o).length = o.length /\ View(o).writable = o.writable /\ View(o).extensible = o.extensible
           /\ \A i \in Index : i \in DOMAIN View(o).props <=> i \in OwnNames(o)
           /\ \A i \in Index : i \in DOMAIN View(o).props <=> i \in FilledCells(o) \/ i \in DOMAIN o.map
           /\ \A i \in Index : i \in DOMAIN View(o).props <=> GetOwn(o, i) # NotFound
           /\ \A i \in DOMAIN View(o).props : View(o).props[i] = GetOwn(o, i) /\ SoundSlot(GetOwn(o, i))
                                              /\ i < o.length /\ i \in Index
           /\ \A i \in DOMAIN View(o).props : [View(o) EXCEPT !.props[i] = GetOwn(o, i)] = View(o)
<1> DEFINE a == View(o)
<1>1. a.length = o.length /\ a.writable = o.writable /\ a.extensible = o.extensible
  BY DEF View
<1>2. IsEcma(a) /\ DOMAIN a.props = OwnNames(o) /\ a.props = [i \in OwnNames(o) |-> GetOwn(o, i)]
      /\ \A i \in Index : i \in DOMAIN a.props <=> GetOwn(o, i) # NotFound
  <2>1. /\ a = [length |-> o.length, writable |-> o.writable, extensible |-> o.extensible, props |-> a.props]
        /\ a.props = [i \in DOMAIN a.props |-> GetOwn(o, i)]
        /\ DOMAIN a.props = OwnNames(o)
        /\ \A i \in Index : i \in DOMAIN a.props <=> GetOwn(o, i) # NotFound
    BY ViewOf
  <2> HIDE DEF a
  <2> QED
    BY <1>1, <2>1 DEF IsEcma
<1> HIDE DEF a
<1>3. \A i \in OwnNames(o) : i \in Nat /\ i < o.length /\ i \in Index
  BY NamesFinite, LengthInt DEF Within, Index
<1>4. \A i \in OwnNames(o) : SoundSlot(GetOwn(o, i))
  BY <1>2, <1>3, OwnSlot
<1>5. ASSUME NEW i \in DOMAIN a.props
      PROVE  [a EXCEPT !.props[i] = GetOwn(o, i)] = a
  <2> DEFINE p == [a.props EXCEPT ![i] = GetOwn(o, i)]
  <2>1. p = a.props
    BY <1>2
  <2> HIDE DEF p
  <2>2. [a EXCEPT !.props = p] = a
    BY <2>1, <1>2 DEF IsEcma
  <2> QED
    BY <2>2 DEF p
<1> QED
  BY <1>1, <1>2, <1>3, <1>4, <1>5, NamesOf DEF a

LEMMA DefineInMapAgrees ==
    ASSUME NEW o, Sound(o), Within(o), NEW i \in Index, i # MaxU32, ~InVector(o, i), i < o.length \/ o.writable,
           NEW d, Asked(d), NEW t,
           i \in DOMAIN o.map => ~(o.map[i].kind = "accessor" /\ Kind(d) = "data" /\ "value" \notin d.has)
    PROVE  Agree(DefineInMap(o, i, d, t), EcmaDefine(View(o), i, d, t))
<1>0. i \in Nat /\ i < MaxU32 /\ o.length \in Nat /\ MaxU32 \in Nat
  BY LengthInt DEF Index
<1>1. i \in DOMAIN View(o).props <=> i \in DOMAIN o.map
  BY <1>0, ViewProps, OwnSlot
<1>2. CASE i \in DOMAIN o.map
  <2> DEFINE s == o.map[i]
             q == [o EXCEPT !.map[i] = Merge(s, d)]
  <2>1. SoundSlot(s) /\ View(o).props[i] = s
    <3>1. GetOwn(o, i) = s
      BY <1>0, <1>1, <1>2, ViewProps, OwnSlot
    <3> QED
      BY <1>1, <1>2, <3>1, ViewProps
  <2>2. /\ Verdict(s, d) = "reject" <=> EcmaVerdict(s, d) = "reject"
        /\ Verdict(s, d) = "keep" => EcmaVerdict(s, d) = "keep"
        /\ Verdict(s, d) = "merge" => Merge(s, d) = IF EcmaVerdict(s, d) = "merge" THEN EcmaMerge(s, d) ELSE s
        /\ Verdict(s, d) \in {"keep", "reject", "merge"} /\ EcmaVerdict(s, d) \in {"keep", "reject", "merge"}
    BY <1>2, <2>1, SlotAsEcma
  <2>3. View(q) = [View(o) EXCEPT !.props[i] = Merge(s, d)]
    <3>1. SoundSlot(Merge(s, d)) /\ Merge(s, d) # NotFound
      <4>1. SoundSlot(Merge(s, d))
        BY <2>1, MergeSound
      <4> QED
        BY <4>1 DEF SoundSlot, NotFound
    <3>2. q.dense = o.dense /\ q.vector = o.vector /\ q.writable = o.writable /\ q.extensible = o.extensible
          /\ q.length = o.length /\ DOMAIN q.map = DOMAIN o.map
          /\ \A j \in DOMAIN o.map : q.map[j] = IF j = i THEN Merge(s, d) ELSE o.map[j]
      BY DEF Sound
    <3>3. i < o.length
      BY <1>1, <1>2, ViewProps
    <3> HIDE DEF q, s
    <3>4. Differs(o, q, i, Merge(s, d))
      BY <1>0, <1>2, <3>2, <3>3, MapDiffers
    <3> QED
      BY <1>1, <1>2, <3>1, <3>2, <3>4, ReplacedView
  <2>4. [View(o) EXCEPT !.props[i] = s] = View(o)
    BY <1>1, <1>2, <2>1, ViewProps
  <2>5. EcmaDefine(View(o), i, d, t) =
            CASE EcmaVerdict(s, d) = "keep" -> EcmaOutcome(View(o), "ok")
              [] EcmaVerdict(s, d) = "reject" -> EcmaRefused(View(o), t)
              [] OTHER -> EcmaOutcome([View(o) EXCEPT !.props[i] = EcmaMerge(s, d)], "ok")
    <3>1. [View(o) EXCEPT !.props[i] = EcmaMerge(@, d)] = [View(o) EXCEPT !.props[i] = EcmaMerge(s, d)]
      BY <2>1
    <3> QED
      BY <1>1, <1>2, <2>1, <3>1 DEF EcmaDefine
  <2>6. DefineInMap(o, i, d, t) =
            IF Verdict(s, d) = "reject" THEN Refused(o, t)
            ELSE Outcome(IF Verdict(s, d) = "keep" THEN o ELSE q, "ok")
    <3>1. [o EXCEPT !.map[i] = Merge(@, d)] = q
      OBVIOUS
    <3> HIDE DEF q
    <3> QED
      BY <1>2, <3>1 DEF DefineInMap
  <2> HIDE DEF s, q
  <2>7. CASE Verdict(s, d) = "reject"
    BY <2>2, <2>5, <2>6, <2>7, RefusedAgree
  <2>8. CASE Verdict(s, d) = "keep"
    BY <2>2, <2>5, <2>6, <2>8, OutcomeFields, EcmaFields DEF Agree
  <2>9. CASE Verdict(s, d) = "merge" /\ EcmaVerdict(s, d) = "merge"
    BY <2>2, <2>3, <2>5, <2>6, <2>9, OutcomeFields, EcmaFields DEF Agree
  <2>10. CASE Verdict(s, d) = "merge" /\ EcmaVerdict(s, d) = "keep"
    BY <2>2, <2>3, <2>4, <2>5, <2>6, <2>10, OutcomeFields, EcmaFields DEF Agree
  <2> QED
    BY <2>2, <2>7, <2>8, <2>9, <2>10
<1>3. CASE i \notin DOMAIN o.map /\ ~o.extensible
  <2>1. DefineInMap(o, i, d, t) = Refused(o, t)
    BY <1>3 DEF DefineInMap
  <2>2. EcmaDefine(View(o), i, d, t) = EcmaRefused(View(o), t)
    BY <1>1, <1>3, ViewProps DEF EcmaDefine
  <2> QED
    BY <2>1, <2>2, RefusedAgree
<1>4. CASE i \notin DOMAIN o.map /\ o.extensible
  <2> DEFINE l == IF i < o.length THEN o.length ELSE (i + 1) % (MaxU32 + 1)
             m == Extended(o.map, i, NewSlot(d))
             q == [o EXCEPT !.indexed = TRUE, !.length = l, !.map = m]
             b == Grown(View(o), i, NewSlot(d))
  <2>1. DefineInMap(o, i, d, t) = Outcome(q, "ok")
    BY <1>4 DEF DefineInMap
  <2>2. l = IF i < o.length THEN o.length ELSE i + 1
    BY <1>0
  <2>3. DOMAIN m = DOMAIN o.map \cup {i} /\ \A j \in DOMAIN m : m[j] = IF j = i THEN NewSlot(d) ELSE o.map[j]
    BY DEF Extended
  <2>4. q.dense = o.dense /\ q.vector = o.vector /\ q.writable = o.writable /\ q.extensible = o.extensible
        /\ q.length = l /\ q.map = m
    <3> HIDE DEF l, m
    <3> QED
      BY DEF Sound
  <2>5. ~(~View(o).extensible \/ (i >= View(o).length /\ ~View(o).writable))
    BY <1>0, <1>4, ViewProps
  <2>6. EcmaDefine(View(o), i, d, t) = EcmaOutcome(b, "ok")
    BY <1>1, <1>4, <2>5 DEF EcmaDefine, Grown
  <2>7. NewSlot(d) # NotFound
    BY DEF NewSlot, NotFound
  <2> HIDE DEF l, m, q
  <2>8. q.length \in Nat /\ q.length >= o.length /\ i < q.length
    BY <1>0, <2>2, <2>4
  <2>9. Differs(o, q, i, NewSlot(d))
    BY <1>0, <2>3, <2>4, <2>8, MapDiffers
  <2>10. View(q) = b
    <3>1. q.length = IF i < o.length THEN o.length ELSE i + 1
      BY <2>2, <2>4
    <3>2. i \notin DOMAIN View(o).props
      BY <1>1, <1>4
    <3> DEFINE s == NewSlot(d)
    <3>3. s # NotFound /\ Differs(o, q, i, s)
      BY <2>7, <2>9
    <3> HIDE DEF s, b
    <3>4. View(q) = Grown(View(o), i, s)
      BY <3>1, <3>2, <3>3, ExtendedView
    <3> QED
      BY <3>4 DEF b, s
  <2> HIDE DEF b
  <2> QED
    BY <2>1, <2>6, <2>10, OutcomeFields, EcmaFields DEF Agree
<1> QED
  BY <1>2, <1>3, <1>4

\* Giving a plain property another value.
LEMMA PlainVerdict ==
    ASSUME NEW u, NEW v, NEW d, Asked(d), "value" \in d.has, d.value = v, d.on = Flags \/ d.has = {"value"}
    PROVE  /\ EcmaVerdict(PlainSlot(u), d) \in {"keep", "merge"}
           /\ EcmaVerdict(PlainSlot(u), d) = "keep" => PlainSlot(u) = PlainSlot(v)
           /\ EcmaVerdict(PlainSlot(u), d) = "merge" => EcmaMerge(PlainSlot(u), d) = PlainSlot(v)
<1> DEFINE s == PlainSlot(u)
<1>1. s = [kind |-> "data", on |-> Flags, value |-> u] /\ s.kind = "data" /\ s.on = Flags /\ s.value = u
  BY DEF PlainSlot
<1>2. Kind(d) = "data"
  BY DEF Kind, DataFields
<1> HIDE DEF s
<1>3. ~EcmaRejects(s, d)
  BY <1>1 DEF EcmaRejects, Flags
<1>4. EcmaSame(s, d) => u = v
  BY <1>1 DEF EcmaSame
<1>5. Replaced(s, d, Flags) = Flags
  BY <1>1 DEF Replaced, Flags, Asked
<1>6. EcmaMerge(s, d) = [kind |-> "data", on |-> Flags, value |-> v]
  BY <1>1, <1>2, <1>5 DEF EcmaMerge, EcmaConverted
<1>7. EcmaMerge(s, d) = PlainSlot(v)
  BY <1>6 DEF PlainSlot
<1> QED
  BY <1>3, <1>4, <1>7 DEF EcmaVerdict, s

\* A cell that is written is a definition.
LEMMA WrittenAgrees ==
    ASSUME NEW o, Sound(o), Within(o), NEW i \in Index, i # MaxU32, NEW v, NEW q, Differs(o, q, i, PlainSlot(v)),
           q.length = IF i < o.length THEN o.length ELSE i + 1, NEW d, NEW t,
           i \in DOMAIN View(o).props =>
               /\ \E u : GetOwn(o, i) = PlainSlot(u)
               /\ Asked(d) /\ "value" \in d.has /\ d.value = v /\ (d.on = Flags \/ d.has = {"value"}),
           i \notin DOMAIN View(o).props =>
               NewSlot(d) = PlainSlot(v) /\ o.extensible /\ (i < o.length \/ o.writable)
    PROVE  EcmaDefine(View(o), i, d, t) = EcmaOutcome(View(q), "ok")
<1>0. i \in Nat /\ o.length \in Nat /\ PlainSlot(v) # NotFound
  BY LengthInt DEF Index, PlainSlot, NotFound
<1>1. CASE i \in DOMAIN View(o).props
  <2>1. PICK u : GetOwn(o, i) = PlainSlot(u)
    BY <1>1
  <2>2. View(o).props[i] = PlainSlot(u) /\ i < o.length
    BY <1>1, <2>1, ViewProps
  <2>3. View(q) = [View(o) EXCEPT !.props[i] = PlainSlot(v)]
    BY <1>0, <1>1, <2>2, ReplacedView
  <2>4. [View(o) EXCEPT !.props[i] = PlainSlot(u)] = View(o)
    BY <1>1, <2>1, ViewProps
  <2>5. [View(o) EXCEPT !.props[i] = EcmaMerge(@, d)] = [View(o) EXCEPT !.props[i] = EcmaMerge(PlainSlot(u), d)]
    BY <2>2
  <2>6. /\ EcmaVerdict(PlainSlot(u), d) \in {"keep", "merge"}
        /\ EcmaVerdict(PlainSlot(u), d) = "keep" => PlainSlot(u) = PlainSlot(v)
        /\ EcmaVerdict(PlainSlot(u), d) = "merge" => EcmaMerge(PlainSlot(u), d) = PlainSlot(v)
    BY <1>1, PlainVerdict
  <2>7. CASE EcmaVerdict(PlainSlot(u), d) = "keep"
    <3>1. EcmaDefine(View(o), i, d, t) = EcmaOutcome(View(o), "ok")
      BY <1>1, <2>2, <2>7 DEF EcmaDefine
    <3>2. PlainSlot(u) = PlainSlot(v)
      BY <2>6, <2>7
    <3>3. View(q) = View(o)
      BY <2>3, <2>4, <3>2
    <3> QED
      BY <3>1, <3>3
  <2>8. CASE EcmaVerdict(PlainSlot(u), d) = "merge"
    <3>1. EcmaDefine(View(o), i, d, t) = EcmaOutcome([View(o) EXCEPT !.props[i] = EcmaMerge(PlainSlot(u), d)], "ok")
      BY <1>1, <2>2, <2>5, <2>8 DEF EcmaDefine
    <3> QED
      BY <2>3, <2>6, <2>8, <3>1
  <2> QED
    BY <2>6, <2>7, <2>8
<1>2. CASE i \notin DOMAIN View(o).props
  <2>1. View(q) = Grown(View(o), i, PlainSlot(v))
    BY <1>0, <1>2, ExtendedView
  <2>2. ~(~View(o).extensible \/ (i >= View(o).length /\ ~View(o).writable))
    BY <1>0, <1>2, ViewProps
  <2>3. EcmaDefine(View(o), i, d, t) = EcmaOutcome(Grown(View(o), i, NewSlot(d)), "ok")
    BY <1>2, <2>2 DEF EcmaDefine, Grown
  <2> QED
    BY <1>2, <2>1, <2>3
<1> QED
  BY <1>1, <1>2

LEMMA DefineAgrees ==
    ASSUME NEW o, Sound(o), Within(o), NEW i \in Index, i # MaxU32, NEW d, Asked(d), NEW t,
           d.value # Empty, "value" \notin d.has => d.value = Undefined,
           i \in DOMAIN o.map => ~(o.map[i].kind = "accessor" /\ Kind(d) = "data" /\ "value" \notin d.has),
           o.dense /\ IsDefault(d) /\ i < MaxVector =>
               IF i \in DOMAIN View(o).props THEN "value" \in d.has ELSE o.extensible
    PROVE  Agree(Define(o, i, d, t), EcmaDefine(View(o), i, d, t))
<1>0. i \in Nat /\ i < MaxU32 /\ o.length \in Nat /\ MaxU32 \in Nat /\ MaxVector \in Nat
  BY LengthInt DEF Index
<1>1. CASE i >= o.length /\ ~o.writable
  <2>1. i \notin DOMAIN View(o).props
    BY <1>0, <1>1, ViewProps
  <2>2. EcmaDefine(View(o), i, d, t) = EcmaRefused(View(o), t)
    BY <1>1, <2>1, ViewProps DEF EcmaDefine
  <2>3. Define(o, i, d, t) = Refused(o, t)
    BY <1>1 DEF Define
  <2> QED
    BY <2>2, <2>3, RefusedAgree
<1> DEFINE v == IF "value" \in d.has THEN d.value ELSE Undefined
<1>2. CASE ~(i >= o.length /\ ~o.writable) /\ o.dense /\ IsDefault(d) /\ i < MaxVector
  <2> DEFINE q == DefineDense(o, i, v)
  <2>1. Define(o, i, d, t) = Outcome(q, "ok")
    BY <1>2 DEF Define
  <2>2. v # Empty /\ v = d.value
    OBVIOUS
  <2> HIDE DEF v
  <2>3. Differs(o, q, i, PlainSlot(v)) /\ q.length = IF i < o.length THEN o.length ELSE i + 1
    BY <1>0, <1>2, <2>2, DenseDiffers
  <2>4. i \in DOMAIN View(o).props => \E u : GetOwn(o, i) = PlainSlot(u)
    <3>1. i \notin DOMAIN o.map
      BY <1>0, <1>2 DEF Sound
    <3>2. i \in DOMAIN View(o).props => i \in FilledCells(o)
      BY <3>1, ViewProps
    <3>3. i \in FilledCells(o) => GetOwn(o, i) = PlainSlot(Cell(o, i))
      BY <1>0, OwnSlot
    <3> QED
      BY <3>2, <3>3
  <2>5. d.on = Flags /\ Kind(d) = "data"
    BY <1>2 DEF IsDefault
  <2>6. NewSlot(d) = PlainSlot(v)
    BY <2>2, <2>5 DEF NewSlot, PlainSlot
  <2>7. i < o.length \/ o.writable
    BY <1>0, <1>2
  <2> HIDE DEF q
  <2>8. EcmaDefine(View(o), i, d, t) = EcmaOutcome(View(q), "ok")
    BY <1>2, <2>2, <2>3, <2>4, <2>5, <2>6, <2>7, WrittenAgrees
  <2> QED
    BY <2>1, <2>8, OutcomeFields, EcmaFields DEF Agree
<1>3. CASE /\ ~(i >= o.length /\ ~o.writable) /\ ~(o.dense /\ IsDefault(d) /\ i < MaxVector)
           /\ InVector(o, i) /\ Cell(o, i) # Empty /\ IsAbsent(d)
  <2>1. GetOwn(o, i) = PlainSlot(Cell(o, i)) /\ i \in DOMAIN View(o).props
    BY <1>0, <1>3, OwnSlot, ViewProps
  <2>2. View(o).props[i] = PlainSlot(Cell(o, i))
    BY <2>1, ViewProps
  <2>3. EcmaSame(PlainSlot(Cell(o, i)), d)
    <3>1. d.has \cap DataFields = {} /\ d.has \cap AccessorFields = {} /\ d.has \subseteq d.on
      BY <1>3 DEF IsAbsent, Kind
    <3>2. \A u : PlainSlot(u).on = Flags
      BY DEF PlainSlot
    <3> QED
      BY <3>1, <3>2 DEF EcmaSame, Agrees, DataFields, AccessorFields, Asked
  <2>4. EcmaDefine(View(o), i, d, t) = EcmaOutcome(View(o), "ok")
    BY <2>1, <2>2, <2>3 DEF EcmaDefine, EcmaVerdict
  <2>5. Define(o, i, d, t) = Outcome(o, "ok")
    BY <1>3 DEF Define
  <2> QED
    BY <2>4, <2>5, OutcomeFields, EcmaFields DEF Agree
<1>4. CASE /\ ~(i >= o.length /\ ~o.writable) /\ ~(o.dense /\ IsDefault(d) /\ i < MaxVector)
           /\ ~(InVector(o, i) /\ Cell(o, i) # Empty /\ IsAbsent(d))
  <2> DEFINE p == IF o.dense /\ ~IsDefault(d) /\ i < MaxVector THEN MakeSparse(o) ELSE o
  <2>1. Define(o, i, d, t) = DefineInMap(p, i, d, t)
    BY <1>4 DEF Define
  <2>2. Sound(p) /\ Within(p) /\ View(p) = View(o) /\ p.length = o.length /\ p.writable = o.writable
    BY MakeSparseSound, MakeSparseWithin, SparseSame DEF Within
  <2>3. ~InVector(p, i)
    <3>1. CASE o.dense /\ ~IsDefault(d) /\ i < MaxVector
      BY <3>1, SparseFields DEF InVector
    <3>2. CASE ~o.dense
      BY <3>2 DEF InVector
    <3>3. CASE o.dense /\ ~(i < MaxVector)
      BY <1>0, <3>3, OwnSlot
    <3> QED
      BY <1>4, <3>1, <3>2, <3>3
  <2>4. i \in DOMAIN p.map => ~(p.map[i].kind = "accessor" /\ Kind(d) = "data" /\ "value" \notin d.has)
    <3>1. \A u : PlainSlot(u).kind # "accessor"
      BY DEF PlainSlot
    <3>2. i \in DOMAIN MakeSparse(o).map => MakeSparse(o).map[i] = IF i \in FilledCells(o) THEN PlainSlot(Cell(o, i)) ELSE o.map[i]
      BY MakeSparseWithin
    <3>3. i \in DOMAIN MakeSparse(o).map /\ i \notin FilledCells(o) => i \in DOMAIN o.map
      BY MakeSparseWithin, NamesOf
    <3> QED
      BY <3>1, <3>2, <3>3
  <2>5. i < p.length \/ p.writable
    BY <1>0, <1>4, <2>2
  <2> HIDE DEF p
  <2>6. Agree(DefineInMap(p, i, d, t), EcmaDefine(View(p), i, d, t))
    BY <2>2, <2>3, <2>4, <2>5, DefineInMapAgrees
  <2> QED
    BY <2>1, <2>2, <2>6
<1> QED
  BY <1>1, <1>2, <1>3, <1>4

\* What an array shows without the indices D of its map, and with another
\* length.
LEMMA WithoutShown ==
    ASSUME NEW o, Sound(o), NEW D, NEW l \in Index
    PROVE  LET q == [Without(o, D) EXCEPT !.length = l] IN
           /\ Sound(q) /\ q.length = l /\ q.writable = o.writable /\ q.extensible = o.extensible
           /\ \A j \in Nat : GetOwn(q, j) = IF j \in FilledCells(o) THEN PlainSlot(Cell(o, j))
                                            ELSE IF j \in DOMAIN o.map \ D /\ j < l THEN o.map[j] ELSE NotFound
<1> DEFINE m == Restrict(o.map, DOMAIN o.map \ D)
           p == Without(o, D)
           q == [p EXCEPT !.length = l]
<1>1. Sound(p)
  BY WithoutSound
<1>2. DOMAIN m = DOMAIN o.map \ D /\ \A j \in DOMAIN m : m[j] = o.map[j]
  BY DEF Restrict
<1>3. p = [o EXCEPT !.map = m] \/ (p = MakeDense(o) /\ DOMAIN m = {})
  BY DEF Without
<1>4. LET r == [o EXCEPT !.map = m] IN
      r.map = m /\ r.vector = o.vector /\ r.writable = o.writable /\ r.extensible = o.extensible
  BY DEF Sound
<1>5. LET r == MakeDense(o) IN
      /\ r.vector = o.vector /\ r.map = NoElements /\ DOMAIN NoElements = {}
      /\ r.writable = o.writable /\ r.extensible = o.extensible
  BY MakeDenseSound DEF NoElements
<1> HIDE DEF m, p
<1>6. /\ p.vector = o.vector /\ DOMAIN p.map = DOMAIN o.map \ D /\ \A j \in DOMAIN p.map : p.map[j] = o.map[j]
      /\ p.writable = o.writable /\ p.extensible = o.extensible
  BY <1>2, <1>3, <1>4, <1>5
<1>7. /\ Sound(q) /\ q.length = l /\ q.vector = p.vector /\ q.map = p.map
      /\ q.writable = p.writable /\ q.extensible = p.extensible
  BY <1>1, LengthSound DEF Sound
<1> HIDE DEF q
<1>8. FilledCells(q) = FilledCells(o) /\ \A j : Cell(q, j) = Cell(o, j)
  BY <1>6, <1>7 DEF FilledCells, Cell
<1>9. \A j \in Nat : GetOwn(q, j) = IF j \in FilledCells(o) THEN PlainSlot(Cell(o, j))
                                    ELSE IF j \in DOMAIN o.map \ D /\ j < l THEN o.map[j] ELSE NotFound
  BY <1>6, <1>7, <1>8, OwnSlot
<1> QED
  BY <1>6, <1>7, <1>9 DEF p, q

LEMMA DeleteAgrees ==
    ASSUME NEW o, Sound(o), Within(o), NEW i \in Index, NEW t
    PROVE  Agree(Delete(o, i, t), EcmaDelete(View(o), i, t))
<1>0. i \in Nat /\ o.length \in Nat /\ o.length \in Index
  BY LengthInt DEF Index, Sound
<1> DEFINE less == [View(o) EXCEPT !.props = Restrict(@, DOMAIN @ \ {i})]
<1>1. CASE i >= o.length \/ (~InVector(o, i) /\ (i \notin DOMAIN o.map \/ (o.dense /\ i < MaxVector)))
  <2>1. i \notin DOMAIN View(o).props
    <3>1. o.dense /\ i < MaxVector => i \notin DOMAIN o.map
      BY <1>0, LengthInt DEF Sound
    <3>2. i \in FilledCells(o) => InVector(o, i)
      BY <1>0, OwnSlot
    <3> QED
      BY <1>0, <1>1, <3>1, <3>2, ViewProps
  <2>2. EcmaDelete(View(o), i, t) = EcmaOutcome(View(o), "ok")
    BY <2>1 DEF EcmaDelete
  <2>3. Delete(o, i, t) = Outcome(o, "ok") \/ (~(i >= o.length) /\ InVector(o, i))
    BY <1>1 DEF Delete
  <2>4. ~(~(i >= o.length) /\ InVector(o, i))
    BY <1>1
  <2> QED
    BY <2>2, <2>3, <2>4, OutcomeFields, EcmaFields DEF Agree
<1>2. CASE ~(i >= o.length) /\ InVector(o, i)
  <2> DEFINE q == [o EXCEPT !.vector[i + 1] = Empty]
  <2>1. Delete(o, i, t) = Outcome(q, "ok")
    BY <1>2 DEF Delete
  <2>2. Differs(o, q, i, NotFound) /\ q.length = o.length
    BY <1>0, <1>2, CellDiffers
  <2> HIDE DEF q
  <2>3. View(q) = less
    BY <2>2, DroppedView
  <2>4. CASE i \in DOMAIN View(o).props
    <3>1. GetOwn(o, i) = PlainSlot(Cell(o, i)) /\ View(o).props[i] = GetOwn(o, i)
      BY <1>0, <1>2, <2>4, OwnSlot, ViewProps
    <3>2. "C" \in View(o).props[i].on
      BY <3>1 DEF PlainSlot, Flags
    <3>3. EcmaDelete(View(o), i, t) = EcmaOutcome(less, "ok")
      BY <2>4, <3>2 DEF EcmaDelete
    <3> QED
      BY <2>1, <2>3, <3>3, OutcomeFields, EcmaFields DEF Agree
  <2>5. CASE i \notin DOMAIN View(o).props
    <3>1. EcmaDelete(View(o), i, t) = EcmaOutcome(View(o), "ok")
      BY <2>5 DEF EcmaDelete
    <3>2. GetOwn(o, i) = NotFound
      BY <2>5, ViewProps
    <3>3. View(q) = View(o)
      BY <2>2, <3>2, SameShown DEF Differs
    <3> QED
      BY <2>1, <3>1, <3>3, OutcomeFields, EcmaFields DEF Agree
  <2> QED
    BY <2>4, <2>5
<1>3. CASE ~(i >= o.length) /\ ~InVector(o, i) /\ i \in DOMAIN o.map /\ ~(o.dense /\ i < MaxVector)
  <2>1. i \notin FilledCells(o) /\ i < o.length
    BY <1>0, <1>3, OwnSlot
  <2>2. GetOwn(o, i) = o.map[i] /\ i \in DOMAIN View(o).props /\ View(o).props[i] = o.map[i]
    BY <1>0, <1>3, <2>1, OwnSlot, ViewProps
  <2>3. CASE "C" \notin o.map[i].on
    <3>1. EcmaDelete(View(o), i, t) = EcmaRefused(View(o), t)
      BY <2>2, <2>3 DEF EcmaDelete
    <3>2. Delete(o, i, t) = Refused(o, t)
      BY <1>3, <2>3 DEF Delete
    <3> QED
      BY <3>1, <3>2, RefusedAgree
  <2>4. CASE "C" \in o.map[i].on
    <3> DEFINE p == Without(o, {i})
               q == [p EXCEPT !.length = o.length]
    <3>1. EcmaDelete(View(o), i, t) = EcmaOutcome(less, "ok")
      BY <2>2, <2>4 DEF EcmaDelete
    <3>2. Delete(o, i, t) = Outcome(p, "ok")
      BY <1>3, <2>4 DEF Delete
    <3>3. Sound(p) /\ p.length = o.length
      BY WithoutSound
    <3>4. /\ q.length = o.length /\ q.writable = o.writable /\ q.extensible = o.extensible
          /\ \A j \in Nat : GetOwn(q, j) = IF j \in FilledCells(o) THEN PlainSlot(Cell(o, j))
                                           ELSE IF j \in DOMAIN o.map \ {i} /\ j < o.length THEN o.map[j]
                                           ELSE NotFound
      BY <1>0, WithoutShown
    <3> HIDE DEF p
    <3>5. q = p
      BY <3>3 DEF Sound
    <3> HIDE DEF q
    <3>6. Differs(o, q, i, NotFound)
      BY <2>1, <3>4, OwnSlot DEF Differs
    <3>7. View(q) = less
      BY <3>4, <3>6, DroppedView
    <3> QED
      BY <3>1, <3>2, <3>5, <3>7, OutcomeFields, EcmaFields DEF Agree
  <2> QED
    BY <2>3, <2>4
<1> QED
  BY <1>1, <1>2, <1>3

\* The smallest number of a set.
LEMMA MinIs ==
    ASSUME NEW T \in SUBSET Nat, NEW m \in T, \A k \in T : m <= k
    PROVE  Min(T) = m
<1>1. \A x \in T : (\A k \in T : x <= k) => x = m
  OBVIOUS
<1> QED
  BY <1>1 DEF Min

LEMMA MinOf ==
    ASSUME NEW T \in SUBSET Nat, T # {}
    PROVE  Min(T) \in T /\ \A k \in T : Min(T) <= k
BY Smallest, MinIs

\* The property of an array, or else of its prototypes.
LEMMA LookupOwn ==
    ASSUME NEW S, NEW up \in Seq(S), NEW o, NEW i
    PROVE  Lookup(<<o>> \o up, i) = IF GetOwn(o, i) # NotFound THEN GetOwn(o, i) ELSE Lookup(up, i)
<1> DEFINE c == <<o>> \o up
           held == {k \in DOMAIN c : GetOwn(c[k], i) # NotFound}
           above1 == {k \in DOMAIN up : GetOwn(up[k], i) # NotFound}
<1>1. Len(up) \in Nat /\ DOMAIN up = 1..Len(up) /\ DOMAIN c = 1..(Len(up) + 1) /\ c[1] = o
  OBVIOUS
<1>2. \A k \in 1..Len(up) : c[k + 1] = up[k]
  OBVIOUS
<1>3. Lookup(c, i) = IF held = {} THEN NotFound ELSE GetOwn(c[Min(held)], i)
  BY DEF Lookup
<1>4. Lookup(up, i) = IF above1 = {} THEN NotFound ELSE GetOwn(up[Min(above1)], i)
  BY DEF Lookup
<1>5. held \in SUBSET Nat /\ above1 \in SUBSET Nat
  BY <1>1
<1>6. \A k \in 1..Len(up) : k \in above1 <=> k + 1 \in held
  BY <1>1, <1>2
<1>7. \A k \in held : k = 1 \/ k - 1 \in above1
  <2> TAKE k \in held
  <2>1. k = 1 \/ (k - 1 \in 1..Len(up) /\ (k - 1) + 1 = k)
    BY <1>1
  <2> QED
    BY <1>6, <2>1
<1>8. 1 \in held <=> GetOwn(o, i) # NotFound
  BY <1>1
<1>9. above1 \subseteq 1..Len(up) /\ \A k \in held : k >= 1
  BY <1>1
<1> HIDE DEF held, above1, c
<1>10. CASE GetOwn(o, i) # NotFound
  <2>1. Min(held) = 1
    BY <1>5, <1>8, <1>9, <1>10, MinIs
  <2> QED
    BY <1>1, <1>3, <1>8, <1>10, <2>1 DEF c
<1>11. CASE GetOwn(o, i) = NotFound /\ above1 = {}
  BY <1>3, <1>4, <1>7, <1>8, <1>11 DEF c
<1>12. CASE GetOwn(o, i) = NotFound /\ above1 # {}
  <2>1. Min(above1) \in above1 /\ \A k \in above1 : Min(above1) <= k
    BY <1>5, <1>12, MinOf
  <2>2. Min(above1) + 1 \in held
    BY <1>6, <1>9, <2>1
  <2>3. \A k \in held : Min(above1) + 1 <= k
    <3> TAKE k \in held
    <3>1. k - 1 \in above1
      BY <1>7, <1>8, <1>12
    <3>2. k \in Nat /\ Min(above1) \in Nat /\ Min(above1) <= k - 1
      BY <1>5, <2>1, <3>1
    <3> QED
      BY <3>2
  <2>4. Min(held) = Min(above1) + 1
    BY <1>5, <2>2, <2>3, MinIs
  <2> QED
    BY <1>2, <1>3, <1>4, <1>9, <1>12, <2>1, <2>2, <2>4 DEF c
<1> QED
  BY <1>10, <1>11, <1>12

\* The views of a chain hold what the chain does.
LEMMA ViewsLookup ==
    ASSUME NEW S, NEW c \in Seq(S), NEW i \in Index
    PROVE  EcmaLookup([k \in DOMAIN c |-> View(c[k])], i) = Lookup(c, i)
<1> DEFINE views == [k \in DOMAIN c |-> View(c[k])]
           held == {k \in DOMAIN c : GetOwn(c[k], i) # NotFound}
<1>1. \A x : /\ i \in DOMAIN View(x).props <=> GetOwn(x, i) # NotFound
             /\ i \in DOMAIN View(x).props => View(x).props[i] = GetOwn(x, i)
  BY DEF View
<1>2. {k \in DOMAIN views : i \in DOMAIN views[k].props} = held
  BY <1>1
<1>3. held \in SUBSET Nat
  OBVIOUS
<1>4. held # {} => Min(held) \in held
  <2> HIDE DEF held
  <2> QED
    BY <1>3, MinOf
<1>5. \A k \in held : views[k].props[i] = GetOwn(c[k], i)
  BY <1>1
<1>6. EcmaLookup(views, i) = IF held = {} THEN NotFound ELSE views[Min(held)].props[i]
  <2> HIDE DEF views, held
  <2> QED
    BY <1>2 DEF EcmaLookup
<1>7. Lookup(c, i) = IF held = {} THEN NotFound ELSE GetOwn(c[Min(held)], i)
  BY DEF Lookup
<1> HIDE DEF held, views
<1>8. EcmaLookup(views, i) = Lookup(c, i)
  BY <1>4, <1>5, <1>6, <1>7
<1> QED
  BY <1>8 DEF views

\* What the prototypes of an array show.
Views(up) == [k \in DOMAIN up |-> View(up[k])]

LEMMA ViewsChain ==
    ASSUME NEW S, NEW up \in Seq(S), NEW o
    PROVE  <<View(o)>> \o Views(up) = [k \in DOMAIN (<<o>> \o up) |-> View((<<o>> \o up)[k])]
<1> DEFINE c == <<o>> \o up
           f == Views(up)
           n == Len(up)
           l == <<View(o)>> \o f
           r == [k \in DOMAIN c |-> View(c[k])]
<1>1. n \in Nat /\ DOMAIN up = 1..n /\ DOMAIN c = 1..(n + 1) /\ c[1] = o /\ \A k \in 1..n : c[k + 1] = up[k]
  OBVIOUS
<1>2. \A k \in 2..(n + 1) : k - 1 \in 1..n /\ c[k] = up[k - 1]
  <2> TAKE k \in 2..(n + 1)
  <2>1. k - 1 \in 1..n /\ (k - 1) + 1 = k
    BY <1>1
  <2> QED
    BY <1>1, <2>1
<1>3. f = [k \in 1..n |-> View(up[k])]
  BY <1>1 DEF Views
<1>4. f \in Seq(Range(f)) /\ Len(f) = n
  <2> HIDE DEF f
  <2>1. f = [k \in 1..n |-> f[k]]
    BY <1>3
  <2> QED
    BY <1>1, <2>1, SequenceOf
<1>5. View(o) \in {View(o)} \cup Range(f) /\ f \in Seq({View(o)} \cup Range(f))
  <2> HIDE DEF f
  <2> QED
    BY <1>4
<1>6. l = [k \in 1..(n + 1) |-> IF k = 1 THEN View(o) ELSE f[k - 1]]
  <2> DEFINE x == View(o)
  <2> HIDE DEF f, x, n
  <2> QED
    BY <1>1, <1>4, <1>5 DEF x
<1>7. r = [k \in 1..(n + 1) |-> IF k = 1 THEN View(o) ELSE View(up[k - 1])]
  <2> HIDE DEF c
  <2>1. \A k \in 1..(n + 1) : View(c[k]) = IF k = 1 THEN View(o) ELSE View(up[k - 1])
    <3> TAKE k \in 1..(n + 1)
    <3>1. k = 1 \/ k \in 2..(n + 1)
      BY <1>1
    <3> QED
      BY <1>1, <1>2, <3>1
  <2> QED
    BY <1>1, <2>1
<1>8. \A k \in 2..(n + 1) : f[k - 1] = View(up[k - 1])
  BY <1>2, <1>3
<1>9. \A k \in 1..(n + 1) : (IF k = 1 THEN View(o) ELSE f[k - 1]) = IF k = 1 THEN View(o) ELSE View(up[k - 1])
  <2> TAKE k \in 1..(n + 1)
  <2>1. k = 1 \/ k \in 2..(n + 1)
    BY <1>1
  <2> HIDE DEF f
  <2> QED
    BY <1>8, <2>1
<1> HIDE DEF f, c, l, r
<1>10. l = r
  BY <1>6, <1>7, <1>9
<1> QED
  BY <1>10 DEF l, r, f, c

\* The reference for an assignment, in terms of the property that the code finds.
LEMMA PutCases ==
    ASSUME NEW S, NEW up \in Seq(S), NEW o, NEW i \in Index, NEW v, NEW t
    PROVE  LET s == Lookup(<<o>> \o up, i)
               e == EcmaPut(View(o), Views(up), i, v, t)
               own == i \in DOMAIN View(o).props
           IN /\ s.kind = "accessor" /\ s.value.set = Undefined => e = EcmaRefused(View(o), t)
              /\ s.kind = "accessor" /\ s.value.set # Undefined => e = EcmaOutcome(View(o), "called")
              /\ s.kind = "data" /\ "W" \notin s.on => e = EcmaRefused(View(o), t)
              /\ s.kind = "data" /\ "W" \in s.on /\ own => e = EcmaDefine(View(o), i, ValueDescriptor(v), t)
              /\ s.kind = "data" /\ "W" \in s.on /\ ~own => e = EcmaDefine(View(o), i, DataDescriptor(v, Flags), t)
              /\ s.kind \notin {"data", "accessor"} => e = EcmaDefine(View(o), i, DataDescriptor(v, Flags), t)
<1> DEFINE c == <<o>> \o up
           s == Lookup(c, i)
<1>1. c \in Seq(S \cup {o}) /\ up \in Seq(S \cup {o})
  OBVIOUS
<1> HIDE DEF c
<1>2. EcmaLookup([k \in DOMAIN c |-> View(c[k])], i) = s
  BY <1>1, ViewsLookup
<1>3. <<View(o)>> \o Views(up) = [k \in DOMAIN c |-> View(c[k])]
  BY ViewsChain DEF c
<1>4. EcmaLookup(<<View(o)>> \o Views(up), i) = s
  BY <1>2, <1>3
<1> HIDE DEF s
<1> DEFINE e == EcmaPut(View(o), Views(up), i, v, t)
           own == i \in DOMAIN View(o).props
<1>5. s.kind = "accessor" /\ s.value.set = Undefined => e = EcmaRefused(View(o), t)
  BY <1>4 DEF EcmaPut
<1>6. s.kind = "accessor" /\ s.value.set # Undefined => e = EcmaOutcome(View(o), "called")
  BY <1>4 DEF EcmaPut
<1>7. s.kind = "data" /\ "W" \notin s.on => e = EcmaRefused(View(o), t)
  BY <1>4 DEF EcmaPut
<1>8. s.kind = "data" /\ "W" \in s.on /\ own => e = EcmaDefine(View(o), i, ValueDescriptor(v), t)
  BY <1>4 DEF EcmaPut
<1>9. s.kind = "data" /\ "W" \in s.on /\ ~own => e = EcmaDefine(View(o), i, DataDescriptor(v, Flags), t)
  BY <1>4 DEF EcmaPut
<1>10. s.kind \notin {"data", "accessor"} => e = EcmaDefine(View(o), i, DataDescriptor(v, Flags), t)
  BY <1>4 DEF EcmaPut
<1> HIDE DEF e, own
<1> QED
  BY <1>5, <1>6, <1>7, <1>8, <1>9, <1>10 DEF s, c, e, own

\* Which property an assignment meets.
LEMMA MetProperty ==
    ASSUME NEW o, Sound(o), Within(o), NEW S, NEW up \in Seq(S), NEW i \in Index
    PROVE  LET s == Lookup(<<o>> \o up, i) IN
           /\ i \in DOMAIN View(o).props => s = GetOwn(o, i) /\ s.kind \in {"data", "accessor"}
           /\ i \notin DOMAIN View(o).props => s = Lookup(up, i) /\ GetOwn(o, i).kind = "none"
<1>1. Lookup(<<o>> \o up, i) = IF GetOwn(o, i) # NotFound THEN GetOwn(o, i) ELSE Lookup(up, i)
  BY LookupOwn
<1>2. i \in DOMAIN View(o).props <=> GetOwn(o, i) # NotFound
  BY ViewProps
<1>3. i \in DOMAIN View(o).props => SoundSlot(GetOwn(o, i))
  BY ViewProps
<1>4. NotFound.kind = "none"
  BY DEF NotFound
<1> QED
  BY <1>1, <1>2, <1>3, <1>4 DEF SoundSlot

LEMMA AssignedFields ==
    \A v : /\ NewSlot(DataDescriptor(v, Flags)) = PlainSlot(v)
           /\ Asked(ValueDescriptor(v)) /\ Asked(DataDescriptor(v, Flags))
           /\ "value" \in ValueDescriptor(v).has /\ ValueDescriptor(v).value = v /\ ValueDescriptor(v).has = {"value"}
           /\ "value" \in DataDescriptor(v, Flags).has /\ DataDescriptor(v, Flags).value = v
           /\ ~IsDefault(ValueDescriptor(v))
<1>1. \A v : ~IsDefault(ValueDescriptor(v))
  BY DEF IsDefault, ValueDescriptor, Flags
<1>2. \A v : NewSlot(DataDescriptor(v, Flags)) = PlainSlot(v)
  BY DEF NewSlot, DataDescriptor, PlainSlot, Kind, DataFields
<1> QED
  BY <1>1, <1>2, DataAsked DEF ValueDescriptor, DataDescriptor

\* A cell that is written is an assignment, where nothing refuses or takes the
\* value.
LEMMA WrittenPut ==
    ASSUME NEW o, Sound(o), Within(o), NEW S, NEW up \in Seq(S), NEW i \in Index, i # MaxU32, NEW v, NEW t, NEW q,
           Differs(o, q, i, PlainSlot(v)), q.length = IF i < o.length THEN o.length ELSE i + 1,
           i \in DOMAIN View(o).props => \E u : GetOwn(o, i) = PlainSlot(u),
           i \notin DOMAIN View(o).props =>
               /\ o.extensible /\ (i < o.length \/ o.writable) /\ Lookup(up, i).kind # "accessor"
               /\ Lookup(up, i).kind = "data" => "W" \in Lookup(up, i).on
    PROVE  EcmaPut(View(o), Views(up), i, v, t) = EcmaOutcome(View(q), "ok")
<1> DEFINE s == Lookup(<<o>> \o up, i)
           e == EcmaPut(View(o), Views(up), i, v, t)
<1>1. CASE i \in DOMAIN View(o).props
  <2>1. PICK u : GetOwn(o, i) = PlainSlot(u)
    BY <1>1
  <2>2. s = PlainSlot(u) /\ s.kind = "data" /\ "W" \in s.on
    <3>1. s = PlainSlot(u)
      BY <1>1, <2>1, MetProperty
    <3> HIDE DEF s
    <3> QED
      BY <3>1 DEF PlainSlot, Flags
  <2>3. e = EcmaDefine(View(o), i, ValueDescriptor(v), t)
    BY <1>1, <2>2, PutCases
  <2>4. EcmaDefine(View(o), i, ValueDescriptor(v), t) = EcmaOutcome(View(q), "ok")
    BY <1>1, AssignedFields, WrittenAgrees
  <2> QED
    BY <2>3, <2>4
<1>2. CASE i \notin DOMAIN View(o).props
  <2>1. s = Lookup(up, i)
    BY <1>2, MetProperty
  <2>2. e = EcmaDefine(View(o), i, DataDescriptor(v, Flags), t)
    <3> HIDE DEF e, s
    <3>1. s.kind # "accessor" /\ (s.kind = "data" => "W" \in s.on)
      BY <1>2, <2>1
    <3> QED
      BY <1>2, <3>1, PutCases DEF e, s
  <2>3. EcmaDefine(View(o), i, DataDescriptor(v, Flags), t) = EcmaOutcome(View(q), "ok")
    BY <1>2, AssignedFields, WrittenAgrees
  <2> QED
    BY <2>2, <2>3
<1> QED
  BY <1>1, <1>2

\* Prototypes as the model has them: one that has elements says so.
Telling(up) == \A k \in DOMAIN up : Sound(up[k]) /\ (up[k].indexed \/ OwnNames(up[k]) = {})

LEMMA InheritedIndexed ==
    ASSUME NEW S, NEW up \in Seq(S), Telling(up), NEW i \in Index, Lookup(up, i) # NotFound
    PROVE  HasIndexed(up)
<1> DEFINE held == {k \in DOMAIN up : GetOwn(up[k], i) # NotFound}
<1>1. held # {}
  BY DEF Lookup
<1>2. PICK k \in DOMAIN up : GetOwn(up[k], i) # NotFound
  BY <1>1
<1>3. Sound(up[k]) /\ i \in Nat
  BY DEF Telling, Index
<1>4. i \in OwnNames(up[k])
  BY <1>2, <1>3, OwnSlot, NamesOf
<1>5. up[k].indexed
  BY <1>4 DEF Telling
<1> QED
  BY <1>5 DEF HasIndexed

\* In a dense array the elements below MAX_VECTOR_SIZE are plain.
LEMMA DensePlain ==
    ASSUME NEW o, Sound(o), Within(o), NEW i \in Index, i \in DOMAIN View(o).props,
           (o.dense /\ i < MaxVector) \/ InVector(o, i)
    PROVE  \E u : GetOwn(o, i) = PlainSlot(u)
<1>0. i \in Nat
  BY DEF Index
<1>1. i \notin DOMAIN o.map
  <2>1. InVector(o, i) => i \notin DOMAIN o.map
    BY <1>0, OwnSlot
  <2>2. o.dense /\ i < MaxVector => i \notin DOMAIN o.map
    BY <1>0, LengthInt DEF Sound
  <2> QED
    BY <2>1, <2>2
<1>2. i \in FilledCells(o)
  BY <1>1, ViewProps
<1> QED
  BY <1>0, <1>2, OwnSlot

LEMMA PutAgrees ==
    ASSUME NEW o, Sound(o), Within(o), NEW S, NEW up \in Seq(S), Telling(up),
           NEW i \in Index, i # MaxU32, NEW v, v # Empty, NEW t,
           LET unseen == Lookup(up, i) IN
           ~(/\ i \notin DOMAIN View(o).props
             /\ o.dense /\ i < MaxVector /\ (up = <<>> \/ HasIndexed(up))
             /\ \/ ~o.extensible \/ unseen.kind = "accessor" \/ (unseen.kind = "data" /\ "W" \notin unseen.on)
                \/ i >= o.length /\ (~o.writable \/ InVector(o, i)))
    PROVE  Agree(Put(o, up, i, v, t), EcmaPut(View(o), Views(up), i, v, t))
<1> DEFINE s == Lookup(<<o>> \o up, i)
           e == EcmaPut(View(o), Views(up), i, v, t)
           own == i \in DOMAIN View(o).props
<1>0. i \in Nat /\ o.length \in Nat
  BY LengthInt DEF Index
<1>1. CASE i < MaxVector /\ o.dense /\ (up = <<>> \/ HasIndexed(up))
  <2> DEFINE q == DefineDense(o, i, v)
  <2>1. Put(o, up, i, v, t) = Outcome(q, "ok")
    BY <1>1 DEF Put
  <2>2. Differs(o, q, i, PlainSlot(v)) /\ q.length = IF i < o.length THEN o.length ELSE i + 1
    BY <1>0, <1>1, DenseDiffers
  <2> HIDE DEF q
  <2>3. own => \E u : GetOwn(o, i) = PlainSlot(u)
    BY <1>1, DensePlain
  <2>4. ~own => /\ o.extensible /\ (i < o.length \/ o.writable) /\ Lookup(up, i).kind # "accessor"
                /\ Lookup(up, i).kind = "data" => "W" \in Lookup(up, i).on
    BY <1>0, <1>1
  <2>5. e = EcmaOutcome(View(q), "ok")
    BY <2>2, <2>3, <2>4, WrittenPut
  <2> QED
    BY <2>1, <2>5, OutcomeFields, EcmaFields DEF Agree
<1>2. CASE ~(i < MaxVector /\ o.dense /\ (up = <<>> \/ HasIndexed(up)))
  <2> DEFINE can == CanPut(<<o>> \o up, i)
  <2>1. Put(o, up, i, v, t) =
            IF ~can THEN Refused(o, t)
            ELSE IF s.kind = "accessor" THEN Outcome(o, "called")
            ELSE IF GetOwn(o, i).kind = "data" THEN Define(o, i, ValueDescriptor(v), t)
            ELSE Define(o, i, DataDescriptor(v, Flags), t)
    BY <1>2 DEF Put
  <2>2. (<<o>> \o up)[1] = o
    OBVIOUS
  <2>3. /\ own => s = GetOwn(o, i) /\ s.kind \in {"data", "accessor"}
        /\ ~own => s = Lookup(up, i) /\ GetOwn(o, i).kind = "none"
    BY MetProperty
  <2> HIDE DEF e
  <2>4. /\ s.kind = "accessor" => (can <=> s.value.set # Undefined)
        /\ s.kind = "data" => (can <=> "W" \in s.on)
        /\ s.kind \notin {"data", "accessor"} => can = o.extensible
    BY <2>2 DEF CanPut
  <2>5. /\ s.kind = "accessor" /\ s.value.set = Undefined => e = EcmaRefused(View(o), t)
        /\ s.kind = "accessor" /\ s.value.set # Undefined => e = EcmaOutcome(View(o), "called")
        /\ s.kind = "data" /\ "W" \notin s.on => e = EcmaRefused(View(o), t)
        /\ s.kind = "data" /\ "W" \in s.on /\ own => e = EcmaDefine(View(o), i, ValueDescriptor(v), t)
        /\ s.kind = "data" /\ "W" \in s.on /\ ~own => e = EcmaDefine(View(o), i, DataDescriptor(v, Flags), t)
        /\ s.kind \notin {"data", "accessor"} => e = EcmaDefine(View(o), i, DataDescriptor(v, Flags), t)
    BY PutCases DEF e
  <2> HIDE DEF s, can, own
  <2>6. CASE s.kind = "accessor"
    <3>1. CASE s.value.set = Undefined
      <4>1. Put(o, up, i, v, t) = Refused(o, t) /\ e = EcmaRefused(View(o), t)
        BY <2>1, <2>4, <2>5, <2>6, <3>1
      <4> QED
        BY <4>1, RefusedAgree DEF e
    <3>2. CASE s.value.set # Undefined
      <4>1. Put(o, up, i, v, t) = Outcome(o, "called") /\ e = EcmaOutcome(View(o), "called")
        BY <2>1, <2>4, <2>5, <2>6, <3>2
      <4> QED
        BY <4>1, OutcomeFields, EcmaFields DEF Agree, e
    <3> QED
      BY <3>1, <3>2
  <2>7. CASE s.kind = "data" /\ "W" \notin s.on
    <3>1. Put(o, up, i, v, t) = Refused(o, t) /\ e = EcmaRefused(View(o), t)
      BY <2>1, <2>4, <2>5, <2>7
    <3> QED
      BY <3>1, RefusedAgree DEF e
  <2>8. CASE s.kind = "data" /\ "W" \in s.on /\ own
    <3>1. Put(o, up, i, v, t) = Define(o, i, ValueDescriptor(v), t)
          /\ e = EcmaDefine(View(o), i, ValueDescriptor(v), t)
      BY <2>1, <2>3, <2>4, <2>5, <2>8
    <3>2. Agree(Define(o, i, ValueDescriptor(v), t), EcmaDefine(View(o), i, ValueDescriptor(v), t))
      BY AssignedFields, DefineAgrees
    <3> QED
      BY <3>1, <3>2 DEF e
  <2>9. CASE s.kind # "accessor" /\ ~own
        /\ (s.kind = "data" => "W" \in s.on)
    <3>1. e = EcmaDefine(View(o), i, DataDescriptor(v, Flags), t)
      BY <2>5, <2>9
    <3>2. CASE ~can
      <4>1. ~o.extensible
        BY <2>4, <2>9, <3>2
      <4>2. EcmaDefine(View(o), i, DataDescriptor(v, Flags), t) = EcmaRefused(View(o), t)
        BY <2>9, <4>1, ViewProps DEF EcmaDefine, own
      <4>3. Put(o, up, i, v, t) = Refused(o, t)
        BY <2>1, <3>2
      <4> QED
        BY <3>1, <4>2, <4>3, RefusedAgree DEF e
    <3>3. CASE can
      <4>1. Put(o, up, i, v, t) = Define(o, i, DataDescriptor(v, Flags), t)
        BY <2>1, <2>3, <2>9, <3>3
      <4>2. o.dense /\ i < MaxVector => o.extensible
        <5> SUFFICES ASSUME o.dense, i < MaxVector
                     PROVE  o.extensible
          OBVIOUS
        <5>1. ~HasIndexed(up)
          BY <1>2
        <5>2. s = NotFound
          BY <2>3, <2>9, <5>1, InheritedIndexed
        <5>3. s.kind = "none"
          BY <5>2 DEF NotFound
        <5> QED
          BY <2>4, <3>3, <5>3
      <4>3. Agree(Define(o, i, DataDescriptor(v, Flags), t), EcmaDefine(View(o), i, DataDescriptor(v, Flags), t))
        BY <2>9, <4>2, AssignedFields, DefineAgrees DEF own
      <4> QED
        BY <3>1, <4>1, <4>3 DEF e
    <3> QED
      BY <3>2, <3>3
  <2> QED
    BY <2>3, <2>6, <2>7, <2>8, <2>9 DEF e
<1> QED
  BY <1>1, <1>2

LEMMA PutByValAgrees ==
    ASSUME NEW o, Sound(o), Within(o), NEW S, NEW up \in Seq(S), Telling(up),
           NEW i \in Index, i # MaxU32, NEW v, v # Empty, NEW t,
           LET unseen == Lookup(up, i) IN
           ~(/\ i \notin DOMAIN View(o).props
             /\ InVector(o, i) \/ (o.dense /\ i < MaxVector /\ (up = <<>> \/ HasIndexed(up)))
             /\ \/ ~o.extensible \/ unseen.kind = "accessor" \/ (unseen.kind = "data" /\ "W" \notin unseen.on)
                \/ i >= o.length /\ (~o.writable \/ InVector(o, i)))
    PROVE  Agree(PutByVal(o, up, i, v, t), EcmaPut(View(o), Views(up), i, v, t))
<1> DEFINE own == i \in DOMAIN View(o).props
<1>0. i \in Nat /\ o.length \in Nat
  BY LengthInt DEF Index
<1>1. CASE InVector(o, i)
  <2> DEFINE q == [o EXCEPT !.vector[i + 1] = v]
  <2>1. PutByVal(o, up, i, v, t) = Outcome(q, "ok")
    BY <1>1 DEF PutByVal
  <2>2. Differs(o, q, i, PlainSlot(v)) /\ q.length = o.length
    BY <1>0, <1>1, CellDiffers
  <2> HIDE DEF q
  <2>3. own => \E u : GetOwn(o, i) = PlainSlot(u)
    BY <1>1, DensePlain
  <2>4. ~own => /\ o.extensible /\ i < o.length /\ Lookup(up, i).kind # "accessor"
                /\ Lookup(up, i).kind = "data" => "W" \in Lookup(up, i).on
    BY <1>0, <1>1
  <2>5. own => i < o.length
    BY ViewProps
  <2>6. EcmaPut(View(o), Views(up), i, v, t) = EcmaOutcome(View(q), "ok")
    BY <2>2, <2>3, <2>4, <2>5, WrittenPut
  <2> QED
    BY <2>1, <2>6, OutcomeFields, EcmaFields DEF Agree
<1>2. CASE ~InVector(o, i)
  <2>1. PutByVal(o, up, i, v, t) = Put(o, up, i, v, t)
    BY <1>2 DEF PutByVal
  <2>2. Agree(Put(o, up, i, v, t), EcmaPut(View(o), Views(up), i, v, t))
    BY <1>2, PutAgrees
  <2> QED
    BY <2>1, <2>2
<1> QED
  BY <1>1, <1>2

-----------------------------------------------------------------------------
\* The length and the reference.

\* An array without its elements from m on.
Cut(a, m) == [a EXCEPT !.length = m, !.props = Restrict(@, {i \in DOMAIN @ : i < m})]

LEMMA CutView ==
    ASSUME NEW o, Sound(o), NEW q, NEW m \in Nat, q.length = m, q.writable = o.writable,
           q.extensible = o.extensible,
           \A j \in Nat : GetOwn(q, j) = IF j < m THEN GetOwn(o, j) ELSE NotFound
    PROVE  View(q) = Cut(View(o), m)
<1> DEFINE a == View(o)
           p == Restrict(a.props, {i \in DOMAIN a.props : i < m})
           b == [length |-> m, writable |-> o.writable, extensible |-> o.extensible, props |-> p]
<1>1. a = [length |-> o.length, writable |-> o.writable, extensible |-> o.extensible, props |-> a.props]
  BY ViewOf
<1>2. \A i \in Index : i \in DOMAIN a.props <=> GetOwn(o, i) # NotFound
  BY ViewOf
<1>3. DOMAIN a.props \subseteq Index /\ \A i \in DOMAIN a.props : a.props[i] = GetOwn(o, i)
  BY DEF View
<1>4. p = [i \in DOMAIN p |-> p[i]] /\ DOMAIN p = {i \in DOMAIN a.props : i < m}
      /\ \A i \in DOMAIN p : p[i] = a.props[i]
  BY DEF Restrict
<1> HIDE DEF a, p
<1>5. Cut(a, m) = b
  <2>1. a \in [length : {a.length}, writable : {o.writable}, extensible : {o.extensible}, props : {a.props}]
    BY <1>1
  <2>2. Cut(a, m) = [a EXCEPT !.length = m, !.props = p]
    BY DEF Cut, p
  <2> QED
    BY <1>1, <2>1, <2>2
<1>6. b.length = m /\ b.writable = o.writable /\ b.extensible = o.extensible /\ b.props = p
  OBVIOUS
<1>7. IsEcma(b)
  BY <1>4, <1>6 DEF IsEcma
<1> HIDE DEF b
<1>8. \A i \in Index : IF i \in DOMAIN b.props THEN GetOwn(q, i) = b.props[i] /\ b.props[i] # NotFound
                       ELSE GetOwn(q, i) = NotFound
  <2> TAKE i \in Index
  <2>1. i \in Nat
    BY DEF Index
  <2> QED
    BY <1>2, <1>3, <1>4, <1>6, <2>1
<1>9. View(q) = b
  BY <1>3, <1>4, <1>6, <1>7, <1>8, SameView
<1> QED
  BY <1>5, <1>9 DEF a

LEMMA LongerView ==
    ASSUME NEW o, Sound(o), Within(o), NEW n \in Index, n >= o.length
    PROVE  View([o EXCEPT !.length = n]) = [View(o) EXCEPT !.length = n]
<1> DEFINE q == [o EXCEPT !.length = n]
           a == View(o)
           b == [length |-> n, writable |-> o.writable, extensible |-> o.extensible, props |-> a.props]
<1>0. n \in Nat /\ o.length \in Nat
  BY LengthInt DEF Index
<1>1. q.length = n /\ q.map = o.map /\ q.vector = o.vector /\ q.dense = o.dense /\ Sound(q)
      /\ q.writable = o.writable /\ q.extensible = o.extensible
  BY LengthSound DEF Sound
<1>2. a = [length |-> o.length, writable |-> o.writable, extensible |-> o.extensible, props |-> a.props]
  BY ViewOf
<1>3. \A i \in Index : i \in DOMAIN a.props <=> GetOwn(o, i) # NotFound
  BY ViewOf
<1>4. DOMAIN a.props \subseteq Index /\ (\A i \in DOMAIN a.props : a.props[i] = GetOwn(o, i))
      /\ a.props = [i \in DOMAIN a.props |-> a.props[i]]
  BY DEF View
<1> HIDE DEF a, q
<1>5. [a EXCEPT !.length = n] = b
  BY <1>2
<1>6. b.length = n /\ b.writable = o.writable /\ b.extensible = o.extensible /\ b.props = a.props /\ IsEcma(b)
  BY <1>4 DEF IsEcma
<1>7. FilledCells(q) = FilledCells(o) /\ \A j : Cell(q, j) = Cell(o, j)
  BY <1>1 DEF FilledCells, Cell
<1>8. \A j \in DOMAIN o.map : j < o.length /\ j < n
  <2>1. \A j \in DOMAIN o.map : j < o.length /\ j \in Nat
    BY NamesOf DEF Within, Sound
  <2> QED
    BY <1>0, <2>1
<1>9. \A j \in Nat : GetOwn(q, j) = GetOwn(o, j)
  BY <1>1, <1>7, <1>8, OwnSlot
<1> HIDE DEF b
<1>10. View(q) = b
  <2>1. \A i \in Index : i \in Nat
    BY DEF Index
  <2> QED
    BY <1>1, <1>3, <1>4, <1>6, <1>9, <2>1, SameView
<1> QED
  BY <1>5, <1>10 DEF a, q

\* The elements that keep a length from shrinking.
EcmaFixed(a, n) == {i \in DOMAIN a.props : i >= n /\ "C" \notin a.props[i].on}
EcmaEnd(a, n) == IF EcmaFixed(a, n) = {} THEN n ELSE Max(EcmaFixed(a, n)) + 1

LEMMA SameFixed ==
    ASSUME NEW o, Sound(o), Within(o), NEW n \in Nat
    PROVE  EcmaFixed(View(o), n) = Fixed(o, n..(o.length - 1))
<1> DEFINE a == View(o)
<1>1. o.length \in Nat /\ DOMAIN o.map \subseteq Nat /\ \A i \in Index : i \in Nat
  BY LengthInt DEF Sound, Index
<1>2. ASSUME NEW i \in EcmaFixed(a, n) PROVE i \in Fixed(o, n..(o.length - 1))
  <2>1. i \in DOMAIN a.props /\ i >= n /\ "C" \notin a.props[i].on
    BY <1>2 DEF EcmaFixed
  <2>2. a.props[i] = GetOwn(o, i) /\ i < o.length /\ i \in Index
    BY <2>1, ViewProps
  <2>3. i \notin FilledCells(o)
    <3>1. \A u : "C" \in PlainSlot(u).on
      BY DEF PlainSlot, Flags
    <3>2. i \in FilledCells(o) => GetOwn(o, i) = PlainSlot(Cell(o, i))
      BY <1>1, <2>2, OwnSlot
    <3> QED
      BY <2>1, <2>2, <3>1, <3>2
  <2>4. i \in DOMAIN o.map
    BY <2>1, <2>2, <2>3, ViewProps
  <2>5. GetOwn(o, i) = o.map[i]
    BY <1>1, <2>2, <2>3, <2>4, OwnSlot
  <2>6. i \in n..(o.length - 1)
    BY <1>1, <2>1, <2>2
  <2> QED
    BY <2>1, <2>2, <2>4, <2>5, <2>6 DEF Fixed
<1>3. ASSUME NEW i \in Fixed(o, n..(o.length - 1)) PROVE i \in EcmaFixed(a, n)
  <2>1. i \in n..(o.length - 1) /\ i \in DOMAIN o.map /\ "C" \notin o.map[i].on
    BY <1>3 DEF Fixed
  <2>2. i \in Index /\ i \in Nat /\ i < o.length /\ i >= n
    BY <1>1, <2>1, LengthInt DEF Index
  <2>3. i \in DOMAIN a.props /\ a.props[i] = GetOwn(o, i)
    BY <2>1, <2>2, ViewProps
  <2>4. i \notin FilledCells(o)
    BY <2>1, <2>2, OwnSlot
  <2>5. GetOwn(o, i) = o.map[i]
    BY <2>1, <2>2, <2>4, OwnSlot
  <2> QED
    BY <2>1, <2>2, <2>3, <2>5 DEF EcmaFixed
<1> QED
  BY <1>2, <1>3

\* The reference for a length other than the present one.
LEMMA EcmaLengthCases ==
    ASSUME NEW a, NEW d, "value" \in d.has, d.value # a.length, d.value # -1, a.writable, NEW t, NEW k \in BOOLEAN,
           k = IF "W" \in d.has THEN "W" \in d.on ELSE TRUE
    PROVE  LET n == d.value
               set == IF n >= a.length THEN [a EXCEPT !.length = n] ELSE Cut(a, EcmaEnd(a, n))
               after == [set EXCEPT !.writable = @ /\ k]
           IN EcmaSetLength(a, d, t) =
                  IF n < a.length /\ EcmaFixed(a, n) # {} THEN EcmaRefused(after, t) ELSE EcmaOutcome(after, "ok")
BY DEF EcmaSetLength, EcmaFixed, EcmaEnd, Cut

LEMMA ShrinkDenseView ==
    ASSUME NEW o, Sound(o), Within(o), o.dense, NEW n \in Index, n < o.length
    PROVE  View(ShrinkDense(o, n)) = Cut(View(o), n)
<1>0. n \in Nat /\ o.length \in Nat /\ MaxVector \in Nat /\ n < o.length
  BY LengthInt DEF Index
<1>1. CASE n <= MaxVector
  <2> DEFINE v == o.vector
             l == Min({n, Len(v)})
             w == Resize(v, l)
             p == [MakeDense(o) EXCEPT !.vector = w, !.length = n]
  <2>0. MakeDense(o).vector = v
    BY MakeDenseSound
  <2>1. p = ShrinkDense(o, n)
    <3>1. [MakeDense(o) EXCEPT !.vector = Resize(@, Min({n, Len(@)})), !.length = n]
              = [MakeDense(o) EXCEPT !.vector = w, !.length = n]
      <4> HIDE DEF v
      <4> QED
        BY <2>0
    <3> QED
      BY <1>1, <3>1 DEF ShrinkDense
  <2> DEFINE c == Len(v)
  <2>2. c \in Nat /\ l = (IF n <= c THEN n ELSE c) /\ l \in Nat
    BY <1>0, SoundVector, MinOfTwo
  <2> HIDE DEF l, c
  <2>3. w = [k \in 1..l |-> v[k]] /\ Len(w) = l
    <3>1. \A k \in 1..l : k <= c
      BY <1>0, <2>2
    <3>2. w = [k \in 1..l |-> v[k]]
      BY <3>1 DEF Resize, c
    <3>3. w = [k \in 1..l |-> w[k]]
      BY <3>2
    <3> HIDE DEF w
    <3> QED
      BY <2>2, <3>2, <3>3, SequenceOf
  <2>4. MakeDense(o).dense /\ MakeDense(o).map = NoElements /\ Sound(MakeDense(o))
        /\ MakeDense(o).writable = o.writable /\ MakeDense(o).extensible = o.extensible
    BY MakeDenseSound
  <2> HIDE DEF w, v
  <2>5. /\ p.dense /\ p.map = NoElements /\ p.vector = w /\ p.length = n
        /\ p.writable = o.writable /\ p.extensible = o.extensible
    BY <2>4 DEF Sound
  <2> HIDE DEF p
  <2>6. Sound(p)
    BY <2>1, ShrinkDenseSound
  <2>7. DOMAIN p.map = {} /\ \A j \in DOMAIN o.map : j >= MaxVector
    BY <2>5 DEF NoElements, Sound
  <2>8. \A j \in Nat : j \in FilledCells(p) <=> j < n /\ j \in FilledCells(o)
    <3> TAKE j \in Nat
    <3>1. j < l <=> j < n /\ j < c
      BY <1>0, <2>2
    <3>2. j < l => w[j + 1] = v[j + 1]
      <4> SUFFICES ASSUME j < l PROVE w[j + 1] = v[j + 1]
        OBVIOUS
      <4>1. j + 1 \in 1..l
        BY <2>2
      <4> QED
        BY <2>3, <4>1
    <3>3. j \in FilledCells(p) <=> j < l /\ w[j + 1] # Empty
      BY <2>2, <2>3, <2>5 DEF FilledCells, Cell
    <3>4. j \in FilledCells(o) <=> j < c /\ v[j + 1] # Empty
      BY <2>2 DEF FilledCells, Cell, v, c
    <3> QED
      BY <3>1, <3>2, <3>3, <3>4
  <2>9. \A j \in FilledCells(p) : Cell(p, j) = Cell(o, j)
    <3> TAKE j \in FilledCells(p)
    <3>1. j + 1 \in 1..l
      BY <2>2, <2>3, <2>5 DEF FilledCells
    <3> QED
      BY <2>3, <2>5, <3>1 DEF Cell, v
  <2>10. \A j \in Nat : GetOwn(p, j) = IF j < n THEN GetOwn(o, j) ELSE NotFound
    <3> TAKE j \in Nat
    <3>1. GetOwn(p, j) = IF j \in FilledCells(p) THEN PlainSlot(Cell(p, j)) ELSE NotFound
      BY <2>6, <2>7, OwnSlot
    <3>2. j < n => j \notin DOMAIN o.map
      BY <1>0, <1>1, <2>7
    <3>3. j < n => GetOwn(o, j) = IF j \in FilledCells(o) THEN PlainSlot(Cell(o, j)) ELSE NotFound
      BY <3>2, OwnSlot
    <3> QED
      BY <2>8, <2>9, <3>1, <3>3
  <2>11. View(p) = Cut(View(o), n)
    BY <1>0, <2>5, <2>10, CutView
  <2> QED
    BY <2>1, <2>11
<1>2. CASE ~(n <= MaxVector)
  <2> DEFINE gone == IF \E i \in DOMAIN o.map : i < n THEN {} ELSE DOMAIN o.map
             q == [Without(o, gone) EXCEPT !.length = n]
  <2>1. ShrinkDense(o, n) = q
    BY <1>2 DEF ShrinkDense
  <2>2. \A i \in gone : ~(i < n)
    OBVIOUS
  <2> HIDE DEF gone
  <2>3. /\ q.length = n /\ q.writable = o.writable /\ q.extensible = o.extensible
        /\ \A j \in Nat : GetOwn(q, j) = IF j \in FilledCells(o) THEN PlainSlot(Cell(o, j))
                                         ELSE IF j \in DOMAIN o.map \ gone /\ j < n THEN o.map[j] ELSE NotFound
    BY WithoutShown
  <2> HIDE DEF q
  <2>4. \A j \in Nat : GetOwn(q, j) = IF j < n THEN GetOwn(o, j) ELSE NotFound
    <3> TAKE j \in Nat
    <3>1. j \in FilledCells(o) => j < MaxVector /\ j < n
      BY <1>0, <1>2, FilledFinite
    <3>2. j < n => j < o.length /\ j \notin gone
      BY <1>0, <2>2
    <3> QED
      BY <2>3, <3>1, <3>2, OwnSlot
  <2>5. View(q) = Cut(View(o), n)
    BY <1>0, <2>3, <2>4, CutView
  <2> QED
    BY <2>1, <2>5
<1> QED
  BY <1>1, <1>2

LEMMA ShrinkSparseView ==
    ASSUME NEW o, Sound(o), Within(o), ~o.dense, NEW n \in Index, n < o.length, NEW t
    PROVE  LET x == ShrinkSparse(o, n, t)
               fixed == Fixed(o, n..(o.length - 1))
           IN /\ View(x.object) = Cut(View(o), IF fixed = {} THEN n ELSE Max(fixed) + 1)
              /\ x.result = IF fixed = {} THEN "ok" ELSE IF t THEN "TypeError" ELSE "refused"
<1> DEFINE fixed == Fixed(o, n..(o.length - 1))
           m == IF fixed = {} THEN n ELSE Max(fixed) + 1
           D == m..(o.length - 1)
           q == [Without(o, D) EXCEPT !.length = m]
<1>1. o.length \in Index /\ IsFiniteSet(DOMAIN o.map) /\ n \in Nat /\ o.length \in Nat /\ DOMAIN o.map \subseteq Nat
  BY DEF Sound, Index
<1>2. fixed \subseteq DOMAIN o.map /\ fixed \subseteq n..(o.length - 1)
  BY DEF Fixed
<1>3. fixed # {} => Max(fixed) \in n..(o.length - 1)
  <2>1. IsFiniteSet(fixed) /\ fixed \subseteq Int
    BY <1>1, <1>2, FS_Subset
  <2> HIDE DEF fixed
  <2> QED
    BY <1>2, <2>1, MaxOf
<1>4. m \in Index /\ m <= o.length
  <2>1. CASE fixed = {}
    BY <1>1, <2>1
  <2>2. CASE fixed # {}
    <3>1. Max(fixed) \in Nat /\ Max(fixed) < o.length
      BY <1>1, <1>3, <2>2
    <3> QED
      BY <1>1, <2>2, <3>1, IndexBelow
  <2> QED
    BY <2>1, <2>2
<1>5. ShrinkSparse(o, n, t).object = q
      /\ ShrinkSparse(o, n, t).result = IF fixed = {} THEN "ok" ELSE IF t THEN "TypeError" ELSE "refused"
  BY OutcomeFields DEF ShrinkSparse
<1>6. FilledCells(o) = {}
  BY DEF Sound
<1> HIDE DEF m, D
<1>7. /\ q.length = m /\ q.writable = o.writable /\ q.extensible = o.extensible
      /\ \A j \in Nat : GetOwn(q, j) = IF j \in FilledCells(o) THEN PlainSlot(Cell(o, j))
                                       ELSE IF j \in DOMAIN o.map \ D /\ j < m THEN o.map[j] ELSE NotFound
  BY <1>4, WithoutShown
<1> HIDE DEF q
<1>8. m \in Nat
  BY <1>4 DEF Index
<1>9. \A j \in Nat : GetOwn(q, j) = IF j < m THEN GetOwn(o, j) ELSE NotFound
  <2> TAKE j \in Nat
  <2>1. j < m => j < o.length /\ j \notin D
    BY <1>1, <1>4, <1>8 DEF D
  <2> QED
    BY <1>6, <1>7, <2>1, OwnSlot
<1>10. View(q) = Cut(View(o), m)
  BY <1>7, <1>8, <1>9, CutView
<1> HIDE DEF fixed
<1> QED
  BY <1>5, <1>10 DEF m, fixed

LEMMA SetLengthAgrees ==
    ASSUME NEW o, Sound(o), Within(o), NEW n \in Index, n # MaxU32, n # o.length, ~DropsAny(o, n), NEW t, NEW order
    PROVE  LET x == SetLength(o, n, t, order)
               a == View(o)
           IN /\ View(x.object) = IF n >= o.length THEN [a EXCEPT !.length = n] ELSE Cut(a, EcmaEnd(a, n))
              /\ x.result = IF n < o.length /\ EcmaFixed(a, n) # {} THEN IF t THEN "TypeError" ELSE "refused"
                            ELSE "ok"
<1>0. n \in Nat /\ o.length \in Nat
  BY LengthInt DEF Index
<1>1. EcmaFixed(View(o), n) = Fixed(o, n..(o.length - 1))
  BY <1>0, SameFixed
<1>2. CASE n >= o.length
  <2>1. ~(n < o.length) /\ ~FarShrink(o, n)
    BY <1>0, <1>2 DEF FarShrink
  <2>2. SetLength(o, n, t, order) = Outcome([o EXCEPT !.length = n], "ok")
    BY <1>2, <2>1 DEF SetLength
  <2> QED
    BY <1>2, <2>1, <2>2, OutcomeFields, LongerView
<1>3. CASE n < o.length /\ o.dense
  <2>1. ~(n >= o.length) /\ ~FarShrink(o, n)
    BY <1>0, <1>3 DEF FarShrink
  <2>2. SetLength(o, n, t, order) = Outcome(ShrinkDense(o, n), "ok")
    BY <1>3, <2>1 DEF SetLength
  <2>3. EcmaFixed(View(o), n) = {}
    BY <1>1, <1>3 DEF DropsAny
  <2>4. EcmaEnd(View(o), n) = n
    BY <2>3 DEF EcmaEnd
  <2> QED
    BY <1>3, <2>1, <2>2, <2>3, <2>4, OutcomeFields, ShrinkDenseView
<1>4. CASE n < o.length /\ ~o.dense
  <2>1. ~(n >= o.length) /\ ~FarShrink(o, n)
    BY <1>0, <1>4 DEF DropsAny
  <2>2. SetLength(o, n, t, order) = ShrinkSparse(o, n, t)
    BY <1>0, <1>4, <2>1 DEF SetLength
  <2> DEFINE x == ShrinkSparse(o, n, t)
             fixed == Fixed(o, n..(o.length - 1))
  <2>3. /\ View(x.object) = Cut(View(o), IF fixed = {} THEN n ELSE Max(fixed) + 1)
        /\ x.result = IF fixed = {} THEN "ok" ELSE IF t THEN "TypeError" ELSE "refused"
    BY <1>4, ShrinkSparseView
  <2> HIDE DEF x, fixed
  <2>4. EcmaFixed(View(o), n) = fixed
    BY <1>1 DEF fixed
  <2> QED
    BY <1>4, <2>1, <2>2, <2>3, <2>4 DEF EcmaEnd, x
<1> QED
  BY <1>0, <1>2, <1>3, <1>4

LEMMA LockedView ==
    ASSUME NEW o, Sound(o), NEW x \in BOOLEAN
    PROVE  /\ View([o EXCEPT !.writable = x]) = [View(o) EXCEPT !.writable = x]
           /\ x = o.writable => [View(o) EXCEPT !.writable = x] = View(o)
<1> DEFINE q == [o EXCEPT !.writable = x]
<1>1. q.writable = x /\ q.extensible = o.extensible /\ q.length = o.length /\ q.dense = o.dense
      /\ q.vector = o.vector /\ q.map = o.map
  BY DEF Sound
<1> HIDE DEF q
<1>2. \A j \in Nat : GetOwn(q, j) = GetOwn(o, j)
  BY <1>1 DEF GetOwn, InVector, Cell
<1>3. View(q) = [View(o) EXCEPT !.writable = q.writable]
  BY <1>1, <1>2, AllowedView
<1> DEFINE a == View(o)
<1>4. a = [length |-> o.length, writable |-> o.writable, extensible |-> o.extensible, props |-> a.props]
  BY ViewOf
<1> HIDE DEF a
<1>5. x = o.writable => [a EXCEPT !.writable = x] = a
  BY <1>4
<1> QED
  BY <1>1, <1>3, <1>5 DEF q, a

\* A length that is to stay as writable as it is, and one that is not.
Opened(a) == [a EXCEPT !.writable = @ /\ TRUE]
Shut(a) == [a EXCEPT !.writable = @ /\ FALSE]

\* A change of the length leaves it as writable as it was.
LEMMA KeptOpen ==
    ASSUME NEW a, NEW n, NEW m, \E l, y, p : a = [length |-> l, writable |-> TRUE, extensible |-> y, props |-> p],
           NEW set, set = [a EXCEPT !.length = n] \/ set = Cut(a, m)
    PROVE  Opened(set) = set /\ Shut(set) = [set EXCEPT !.writable = FALSE]
<1>1. PICK l, y, p : a = [length |-> l, writable |-> TRUE, extensible |-> y, props |-> p]
  OBVIOUS
<1> DEFINE r == Restrict(a.props, {i \in DOMAIN a.props : i < m})
<1>2. Cut(a, m) = [a EXCEPT !.length = m, !.props = r]
  BY DEF Cut
<1> HIDE DEF r
<1>5. /\ [[length |-> l, writable |-> TRUE, extensible |-> y, props |-> p] EXCEPT !.length = m]
         = [length |-> m, writable |-> TRUE, extensible |-> y, props |-> p]
      /\ [[length |-> m, writable |-> TRUE, extensible |-> y, props |-> p] EXCEPT !.props = r]
         = [length |-> m, writable |-> TRUE, extensible |-> y, props |-> r]
  <2>1. ASSUME NEW w
        PROVE  /\ [[length |-> l, writable |-> w, extensible |-> y, props |-> p] EXCEPT !.length = m]
                  = [length |-> m, writable |-> w, extensible |-> y, props |-> p]
               /\ [[length |-> m, writable |-> w, extensible |-> y, props |-> p] EXCEPT !.props = r]
                  = [length |-> m, writable |-> w, extensible |-> y, props |-> r]
    OBVIOUS
  <2> QED
    BY ONLY <2>1, Zenon
<1>6. Cut(a, m) = [length |-> m, writable |-> TRUE, extensible |-> y, props |-> r]
  BY ONLY <1>1, <1>2, <1>5, Zenon
<1>3. \E k, s : set = [length |-> k, writable |-> TRUE, extensible |-> y, props |-> s]
  BY <1>1, <1>6
<1>4. PICK k, s : set = [length |-> k, writable |-> TRUE, extensible |-> y, props |-> s]
  BY <1>3
<1> QED
  BY <1>4 DEF Opened, Shut

LEMMA PutLengthAgrees ==
    ASSUME NEW o, Sound(o), Within(o), NEW n \in Index, n # MaxU32, ~DropsAny(o, n), NEW t, NEW order
    PROVE  Agree(PutLength(o, n, t, order),
                 IF View(o).writable THEN EcmaSetLength(View(o), ToLength(n), t) ELSE EcmaRefused(View(o), t))
<1> DEFINE a == View(o)
           d == ToLength(n)
<1>0. n # -1 /\ a.writable = o.writable /\ a.length = o.length /\ o.writable \in BOOLEAN
  BY ViewProps DEF Index, Sound
<1>1. d.has = {"value"} /\ d.on = {} /\ d.value = n
  BY DEF ToLength, LengthDescriptor
<1>2. CASE ~o.writable
  <2>1. PutLength(o, n, t, order) = Refused(o, t)
    BY <1>2 DEF PutLength
  <2> QED
    BY <1>0, <1>2, <2>1, RefusedAgree
<1>3. CASE o.writable /\ n = o.length
  <2>1. PutLength(o, n, t, order) = Outcome(o, "ok")
    <3> HIDE DEF d
    <3>1. DefineLength(o, d, t, order) = Outcome(o, "ok")
      BY <1>1, <1>3 DEF DefineLength, Kind, DataFields
    <3> QED
      BY <1>3, <3>1 DEF PutLength, d
  <2>2. [a EXCEPT !.writable = @ /\ TRUE] = a
    <3>1. [a EXCEPT !.writable = @ /\ TRUE] = [a EXCEPT !.writable = o.writable]
      BY <1>0, <1>3
    <3>2. [a EXCEPT !.writable = o.writable] = a
      BY <1>0, LockedView
    <3> QED
      BY <3>1, <3>2
  <2> HIDE DEF a, d
  <2>3. EcmaSetLength(a, d, t) = EcmaOutcome(a, "ok")
    BY <1>0, <1>1, <1>3, <2>2 DEF EcmaSetLength
  <2> QED
    BY <1>0, <1>3, <2>1, <2>3, OutcomeFields, EcmaFields DEF Agree, a, d
<1>4. CASE o.writable /\ n # o.length
  <2> DEFINE x == SetLength(o, n, t, order)
             set == IF n >= a.length THEN [a EXCEPT !.length = n] ELSE Cut(a, EcmaEnd(a, n))
             after == [set EXCEPT !.writable = @ /\ TRUE]
             stuck == n < a.length /\ EcmaFixed(a, n) # {}
  <2>1. PutLength(o, n, t, order) = x
    <3> HIDE DEF d
    <3>1. DefineLength(o, d, t, order) = x
      BY <1>0, <1>1, <1>4 DEF DefineLength, Kind, DataFields
    <3> HIDE DEF x
    <3> QED
      BY <1>4, <3>1 DEF PutLength, d
  <2>2. View(x.object) = set /\ x.result = IF stuck THEN IF t THEN "TypeError" ELSE "refused" ELSE "ok"
    BY <1>0, <1>4, SetLengthAgrees
  <2>3. EcmaSetLength(a, d, t) = IF stuck THEN EcmaRefused(after, t) ELSE EcmaOutcome(after, "ok")
    <3> HIDE DEF a, d
    <3>1. "value" \in d.has /\ d.value # a.length /\ d.value # -1 /\ a.writable /\ "W" \notin d.has
      BY <1>0, <1>1, <1>4
    <3>2. d.value = n
      BY <1>1
    <3> QED
      BY <3>1, <3>2, EcmaLengthCases
  <2>4. after = set
    <3>1. \E l, y, p : a = [length |-> l, writable |-> TRUE, extensible |-> y, props |-> p]
      BY <1>0, <1>4, ViewOf
    <3> HIDE DEF a
    <3>2. after = Opened(set)
      BY DEF Opened, Shut
    <3>3. set = [a EXCEPT !.length = n] \/ set = Cut(a, EcmaEnd(a, n))
      OBVIOUS
    <3> HIDE DEF set, after
    <3>4. Opened(set) = set
      BY <3>1, <3>3, KeptOpen
    <3> QED
      BY <3>2, <3>4
  <2> HIDE DEF a, d, set, after, stuck, x
  <2>5. EcmaSetLength(a, d, t) = IF stuck THEN EcmaRefused(set, t) ELSE EcmaOutcome(set, "ok")
    BY <2>3, <2>4
  <2>6. View(x.object) = EcmaSetLength(a, d, t).array /\ x.result = EcmaSetLength(a, d, t).result
    BY <2>2, <2>5, EcmaFields
  <2> QED
    BY <1>0, <1>4, <2>1, <2>6 DEF Agree, a, d
<1> QED
  BY <1>2, <1>3, <1>4

LEMMA DefineLengthCases ==
    ASSUME NEW o, NEW d, "W" \in d.has, d.has \subseteq {"value", "W"}, d.on \in {{}, {"W"}}, NEW t, NEW order, NEW set,
           set = IF "value" \notin d.has \/ d.value = o.length THEN Outcome(o, "ok")
                 ELSE IF d.value = -1 THEN Outcome(o, "TypeError")
                 ELSE IF ~o.writable THEN Refused(o, t)
                 ELSE SetLength(o, d.value, t, order)
    PROVE  DefineLength(o, d, t, order) =
              IF set.result \in {"TypeError", "RangeError"} \/ (set.result = "refused" /\ ~o.writable) THEN set
              ELSE IF d.on = {} THEN Outcome([set.object EXCEPT !.writable = FALSE], "ok")
              ELSE IF set.object.writable THEN Outcome(set.object, "ok") ELSE Refused(set.object, t)
<1>1. d.on \cap {"C", "E"} = {} /\ Kind(d) # "accessor" /\ ("W" \in d.on <=> d.on # {})
  BY DEF Kind, DataFields
<1>2. d.on = {} => ChangeLengthWritable(set.object, "W" \in d.on, t) = Outcome([set.object EXCEPT !.writable = FALSE], "ok")
  BY DEF ChangeLengthWritable
<1>3. d.on # {} => ChangeLengthWritable(set.object, "W" \in d.on, t) =
                      IF set.object.writable THEN Outcome(set.object, "ok") ELSE Refused(set.object, t)
  BY DEF ChangeLengthWritable
<1>4. DefineLength(o, d, t, order) =
         IF set.result \in {"TypeError", "RangeError"} \/ (set.result = "refused" /\ ~o.writable) THEN set
         ELSE ChangeLengthWritable(set.object, "W" \in d.on, t)
  BY <1>1 DEF DefineLength
<1> QED
  BY <1>2, <1>3, <1>4

LEMMA EcmaLimitCases ==
    ASSUME NEW a, NEW d, "W" \in d.has, d.on \in {{}, {"W"}}, "value" \notin d.has \/ d.value = a.length, NEW t
    PROVE  EcmaSetLength(a, d, t) =
              IF d.on = {} THEN EcmaOutcome(Shut(a), "ok")
              ELSE IF a.writable THEN EcmaOutcome(Opened(a), "ok") ELSE EcmaRefused(a, t)
<1>1. CASE d.on = {}
  <2>1. ~("W" \in d.on)
    BY <1>1
  <2>2. EcmaSetLength(a, d, t) = EcmaOutcome([a EXCEPT !.writable = @ /\ FALSE], "ok")
    BY <2>1 DEF EcmaSetLength
  <2> QED
    BY <1>1, <2>2 DEF Opened, Shut
<1>2. CASE d.on # {}
  <2>1. "W" \in d.on
    BY <1>2
  <2>2. EcmaSetLength(a, d, t) = IF a.writable THEN EcmaOutcome([a EXCEPT !.writable = @ /\ TRUE], "ok")
                                 ELSE EcmaRefused(a, t)
    BY <2>1 DEF EcmaSetLength
  <2> QED
    BY <1>2, <2>2 DEF Opened, Shut
<1> QED
  BY <1>1, <1>2

LEMMA LimitedViews ==
    ASSUME NEW o, Sound(o)
    PROVE  /\ Shut(View(o)) = [View(o) EXCEPT !.writable = FALSE]
           /\ o.writable => Opened(View(o)) = View(o)
<1> DEFINE a == View(o)
<1>1. \E l, x, y, p : a = [length |-> l, writable |-> x, extensible |-> y, props |-> p] /\ x = o.writable
  BY ViewOf
<1>2. o.writable \in BOOLEAN
  BY DEF Sound
<1> HIDE DEF a
<1>3. PICK l, x, y, p : a = [length |-> l, writable |-> x, extensible |-> y, props |-> p] /\ x = o.writable
  BY <1>1
<1>4. Shut(a) = [a EXCEPT !.writable = FALSE]
  BY <1>3 DEF Opened, Shut
<1>5. o.writable => Opened(a) = a
  BY <1>2, <1>3 DEF Opened, Shut
<1> QED
  BY <1>4, <1>5 DEF a

LEMMA DefineLengthAgrees ==
    ASSUME NEW o, Sound(o), Within(o), NEW d, "W" \in d.has, d.has \subseteq {"value", "W"}, d.on \in {{}, {"W"}},
           "value" \in d.has => d.on = {} /\ d.value \in Index /\ d.value # MaxU32 /\ ~DropsAny(o, d.value),
           NEW t, (IF t THEN "TypeError" ELSE "refused") = "TypeError",
           NEW order, Ordered(o, order), "value" \in d.has => DefineLength(o, d, t, order).result # "TypeError"
    PROVE  Agree(DefineLength(o, d, t, order), EcmaSetLength(View(o), d, t))
<1> DEFINE a == View(o)
           n == d.value
           x == SetLength(o, n, t, order)
           set == IF "value" \notin d.has \/ d.value = o.length THEN Outcome(o, "ok")
                  ELSE IF d.value = -1 THEN Outcome(o, "TypeError")
                  ELSE IF ~o.writable THEN Refused(o, t)
                  ELSE SetLength(o, d.value, t, order)
           done == DefineLength(o, d, t, order)
<1>0. a.writable = o.writable /\ a.length = o.length /\ o.writable \in BOOLEAN
  BY ViewProps DEF Sound
<1>1. done = IF set.result \in {"TypeError", "RangeError"} \/ (set.result = "refused" /\ ~o.writable) THEN set
             ELSE IF d.on = {} THEN Outcome([set.object EXCEPT !.writable = FALSE], "ok")
             ELSE IF set.object.writable THEN Outcome(set.object, "ok") ELSE Refused(set.object, t)
  <2> HIDE DEF set
  <2>1. set = IF "value" \notin d.has \/ d.value = o.length THEN Outcome(o, "ok")
              ELSE IF d.value = -1 THEN Outcome(o, "TypeError")
              ELSE IF ~o.writable THEN Refused(o, t)
              ELSE SetLength(o, d.value, t, order)
    BY DEF set
  <2>2. "W" \in d.has /\ d.has \subseteq {"value", "W"} /\ d.on \in {{}, {"W"}}
    OBVIOUS
  <2> QED
    BY ONLY <2>1, <2>2, DefineLengthCases
<1>2. Shut(a) = [a EXCEPT !.writable = FALSE] /\ (o.writable => Opened(a) = a)
  BY LimitedViews
<1>3. CASE "value" \notin d.has \/ n = o.length
  <2>1. set = Outcome(o, "ok")
    BY <1>3
  <2>2. EcmaSetLength(a, d, t) =
            IF d.on = {} THEN EcmaOutcome(Shut(a), "ok")
            ELSE IF a.writable THEN EcmaOutcome(Opened(a), "ok") ELSE EcmaRefused(a, t)
    <3> HIDE DEF a
    <3> QED
      BY <1>0, <1>3, EcmaLimitCases
  <2> HIDE DEF set, done
  <2>3. set.result = "ok" /\ set.object = o
    BY <2>1, OutcomeFields
  <2>4. CASE d.on = {}
    <3>1. done = Outcome([o EXCEPT !.writable = FALSE], "ok")
      BY <1>1, <2>3, <2>4
    <3>2. View([o EXCEPT !.writable = FALSE]) = [a EXCEPT !.writable = FALSE]
      BY LockedView
    <3> HIDE DEF a
    <3>3. EcmaSetLength(a, d, t) = EcmaOutcome([a EXCEPT !.writable = FALSE], "ok")
      BY <1>2, <2>2, <2>4
    <3> QED
      BY <3>1, <3>2, <3>3, OutcomeFields, EcmaFields DEF Agree, a, done
  <2>5. CASE d.on # {} /\ o.writable
    <3>1. done = Outcome(o, "ok") /\ EcmaSetLength(a, d, t) = EcmaOutcome(a, "ok")
      <4> HIDE DEF a
      <4> QED
        BY <1>0, <1>1, <1>2, <2>2, <2>3, <2>5
    <3> QED
      BY <3>1, OutcomeFields, EcmaFields DEF Agree, done
  <2>6. CASE d.on # {} /\ ~o.writable
    <3>1. done = Refused(o, t) /\ EcmaSetLength(a, d, t) = EcmaRefused(a, t)
      <4> HIDE DEF a
      <4> QED
        BY <1>0, <1>1, <1>2, <2>2, <2>3, <2>6
    <3> QED
      BY <3>1, RefusedAgree DEF done
  <2> QED
    BY <2>4, <2>5, <2>6
<1>4. CASE "value" \in d.has /\ n # o.length
  <2>0. n \in Index /\ n # MaxU32 /\ n # -1 /\ d.on = {} /\ ~DropsAny(o, n)
    BY <1>4 DEF Index
  <2> DEFINE aset == IF n >= a.length THEN [a EXCEPT !.length = n] ELSE Cut(a, EcmaEnd(a, n))
             after == [aset EXCEPT !.writable = @ /\ FALSE]
             stuck == n < a.length /\ EcmaFixed(a, n) # {}
  <2>1. o.writable /\ set = x
    <3>1. set = IF ~o.writable THEN Refused(o, t) ELSE x
      BY <1>4, <2>0
    <3> HIDE DEF set, x
    <3>2. ~o.writable => set.result = "TypeError"
      BY <3>1, OutcomeFields
    <3>3. set.result # "TypeError"
      BY <1>1, <1>4
    <3> QED
      BY <3>1, <3>2, <3>3
  <2>2. View(x.object) = aset /\ x.result = IF stuck THEN "TypeError" ELSE "ok"
    <3>1. /\ View(x.object) = IF n >= o.length THEN [a EXCEPT !.length = n] ELSE Cut(a, EcmaEnd(a, n))
          /\ x.result = IF n < o.length /\ EcmaFixed(a, n) # {} THEN IF t THEN "TypeError" ELSE "refused"
                        ELSE "ok"
      BY <1>4, <2>0, SetLengthAgrees
    <3> HIDE DEF a, x
    <3> QED
      BY <1>0, <3>1
  <2>3. Sound(x.object)
    BY <2>0, SetLengthSound
  <2>4. EcmaSetLength(a, d, t) = IF stuck THEN EcmaRefused(after, t) ELSE EcmaOutcome(after, "ok")
    <3> HIDE DEF a
    <3>1. "value" \in d.has /\ d.value # a.length /\ d.value # -1 /\ a.writable
      BY <1>0, <1>4, <2>0, <2>1
    <3>2. FALSE = (IF "W" \in d.has THEN "W" \in d.on ELSE TRUE)
      BY <2>0
    <3> QED
      BY <3>1, <3>2, EcmaLengthCases
  <2>5. after = [aset EXCEPT !.writable = FALSE]
    <3>1. \E l, y, p : a = [length |-> l, writable |-> TRUE, extensible |-> y, props |-> p]
      <4>1. a = [length |-> o.length, writable |-> o.writable, extensible |-> o.extensible, props |-> a.props]
        BY ViewOf
      <4>2. o.writable = TRUE
        BY <1>0, <2>1
      <4> HIDE DEF a, set, x
      <4> QED
        BY <4>1, <4>2
    <3> HIDE DEF a, set, x
    <3>2. after = Shut(aset)
      BY DEF Opened, Shut
    <3>3. aset = [a EXCEPT !.length = n] \/ aset = Cut(a, EcmaEnd(a, n))
      OBVIOUS
    <3> HIDE DEF aset, after
    <3>4. Shut(aset) = [aset EXCEPT !.writable = FALSE]
      BY ONLY <3>1, <3>3, KeptOpen
    <3> QED
      BY <3>2, <3>4
  <2> HIDE DEF set, x, aset, stuck, after
  <2>6. ~stuck /\ x.result = "ok"
    BY <1>1, <1>4, <2>1, <2>2 DEF done
  <2>7. done = Outcome([x.object EXCEPT !.writable = FALSE], "ok")
    <3> HIDE DEF done
    <3> QED
      BY <1>1, <2>0, <2>1, <2>6
  <2>8. View([x.object EXCEPT !.writable = FALSE]) = [View(x.object) EXCEPT !.writable = FALSE]
    BY <2>3, LockedView
  <2>9. EcmaSetLength(a, d, t) = EcmaOutcome([View(x.object) EXCEPT !.writable = FALSE], "ok")
    BY <2>2, <2>4, <2>5, <2>6
  <2> HIDE DEF done, a
  <2>10. View(done.object) = EcmaSetLength(a, d, t).array /\ done.result = EcmaSetLength(a, d, t).result
    BY <2>7, <2>8, <2>9, OutcomeFields, EcmaFields
  <2> QED
    BY <2>10 DEF Agree, a, done
<1> QED
  BY <1>3, <1>4

-----------------------------------------------------------------------------
\* Freeze and seal and the reference.

LEMMA FlagsFields ==
    ASSUME NEW s, SoundSlot(s), NEW off
    PROVE  /\ WithoutFlags(s, off) = [kind |-> s.kind, on |-> s.on \ off, value |-> s.value]
           /\ s = [kind |-> s.kind, on |-> s.on, value |-> s.value]
           /\ s.on \ off = s.on => WithoutFlags(s, off) = s
           /\ WithoutFlags(s, off) # NotFound
BY DEF SoundSlot, WithoutFlags, NotFound

LEMMA LimitVerdict ==
    ASSUME NEW s, SoundSlot(s), NEW off \in {{"W", "C"}, {"C"}}
    PROVE  LET d == Restricted(s, off) IN
           /\ Verdict(s, d) \in {"keep", "merge"}
           /\ Verdict(s, d) = "keep" => WithoutFlags(s, off) = s
           /\ Verdict(s, d) = "merge" => Merge(s, d) = WithoutFlags(s, off)
           /\ ~IsDefault(d) /\ ~IsAbsent(d)
<1> DEFINE d == Restricted(s, off)
<1>1. s.kind \in {"data", "accessor"} /\ s.on \subseteq Flags
  BY DEF SoundSlot
<1>2. d.on = s.on \ off /\ Asked(d)
  BY RestrictedAsked DEF Restricted
<1>3. CASE s.kind = "data"
  <2>1. d.has = {"value", "W", "E", "C"} /\ d.value = s.value
    BY <1>3 DEF Restricted
  <2> HIDE DEF d
  <2>2. Kind(d) = "data"
    BY <2>1 DEF Kind, DataFields
  <2>3. ~Rejected(s, d)
    BY <1>2, <1>3, <2>1, <2>2 DEF Rejected, Agrees
  <2>4. NoEffect(s, d) => s.on \ off = s.on
    <3>1. NoEffect(s, d) => Agrees(s, d, {"C", "E"}) /\ Agrees(s, d, {"W"})
      BY <2>2 DEF NoEffect
    <3>2. Agrees(s, d, {"C", "E"}) /\ Agrees(s, d, {"W"}) => s.on \subseteq d.on
      BY <1>1, <2>1 DEF Agrees, Flags
    <3> QED
      BY <1>2, <3>1, <3>2
  <2>5. Replaced(s, d, Flags) = d.on
    BY <1>1, <1>2, <2>1 DEF Replaced, Flags
  <2>6. Merge(s, d) = [kind |-> "data", on |-> d.on, value |-> s.value]
    BY <2>1, <2>2, <2>5 DEF Merge
  <2>7. Merge(s, d) = WithoutFlags(s, off)
    BY <1>2, <1>3, <2>6, FlagsFields
  <2>8. Verdict(s, d) = IF NoEffect(s, d) THEN "keep" ELSE "merge"
    BY <2>2, <2>3 DEF Verdict
  <2>9. ~IsDefault(d) /\ ~IsAbsent(d)
    BY <1>2, <2>2 DEF IsDefault, IsAbsent, Flags
  <2> QED
    BY <2>4, <2>7, <2>8, <2>9, FlagsFields DEF d
<1>4. CASE s.kind = "accessor"
  <2>1. /\ d.has = {"get", "set", "E", "C"} /\ d.get = s.value.get /\ d.set = s.value.set
        /\ "W" \notin s.on /\ s.value = [get |-> s.value.get, set |-> s.value.set]
    BY <1>4 DEF Restricted, SoundSlot
  <2> HIDE DEF d
  <2>2. Kind(d) = "accessor"
    BY <2>1 DEF Kind, DataFields, AccessorFields
  <2>3. ~Rejected(s, d)
    BY <1>2, <1>4, <2>1, <2>2 DEF Rejected, Agrees
  <2>4. NoEffect(s, d) => s.on \ off = s.on
    <3>1. NoEffect(s, d) => Agrees(s, d, {"C", "E"})
      BY DEF NoEffect
    <3>2. Agrees(s, d, {"C", "E"}) => s.on \subseteq d.on
      BY <1>1, <2>1 DEF Agrees, Flags
    <3> QED
      BY <1>2, <3>1, <3>2
  <2>5. Replaced(s, d, {"E", "C"}) \ {"W"} = d.on
    BY <1>1, <1>2, <2>1 DEF Replaced, Flags
  <2>6. Merge(s, d) = [kind |-> "accessor", on |-> d.on, value |-> s.value]
    <3>1. Merge(s, d) = [kind |-> "accessor", on |-> Replaced(s, d, {"E", "C"}) \ {"W"},
                         value |-> [get |-> d.get, set |-> d.set]]
      BY <2>1, <2>2 DEF Merge
    <3> QED
      BY <2>1, <2>5, <3>1
  <2>7. Merge(s, d) = WithoutFlags(s, off)
    BY <1>2, <1>4, <2>6, FlagsFields
  <2>8. Verdict(s, d) = IF NoEffect(s, d) THEN "keep" ELSE "merge"
    BY <2>2, <2>3 DEF Verdict
  <2>9. ~IsDefault(d) /\ ~IsAbsent(d)
    BY <2>2 DEF IsDefault, IsAbsent
  <2> QED
    BY <2>4, <2>7, <2>8, <2>9, FlagsFields DEF d
<1> QED
  BY <1>1, <1>3, <1>4

\* Redefining a property leaves it without the flags.
LEMMA LimitedShown ==
    ASSUME NEW o, Sound(o), Within(o), NEW i \in Nat, GetOwn(o, i) # NotFound, NEW off \in {{"W", "C"}, {"C"}}, NEW t
    PROVE  LET x == Define(o, i, Restricted(GetOwn(o, i), off), t) IN
           x.result = "ok" /\ Differs(o, x.object, i, WithoutFlags(GetOwn(o, i), off)) /\ x.object.length = o.length
<1> DEFINE s == GetOwn(o, i)
           d == Restricted(s, off)
           p == IF o.dense /\ ~IsDefault(d) /\ i < MaxVector THEN MakeSparse(o) ELSE o
<1>0. i \in OwnNames(o) /\ i < o.length /\ o.length \in Nat /\ SoundSlot(s) /\ ~(i >= o.length)
  BY OwnSlot, NamesOf, LengthInt DEF Within
<1>1. /\ Verdict(s, d) \in {"keep", "merge"}
      /\ Verdict(s, d) = "keep" => WithoutFlags(s, off) = s
      /\ Verdict(s, d) = "merge" => Merge(s, d) = WithoutFlags(s, off)
      /\ ~IsDefault(d) /\ ~IsAbsent(d)
  <2> HIDE DEF s
  <2> QED
    BY <1>0, LimitVerdict
<1>2. /\ Sound(p) /\ Within(p) /\ p.length = o.length /\ p.writable = o.writable /\ p.extensible = o.extensible
      /\ \A j \in Nat : GetOwn(p, j) = GetOwn(o, j)
  <2>1. Within(MakeSparse(o))
    BY MakeSparseWithin, SparseSame DEF Within
  <2> QED
    BY <2>1, MakeSparseSound, SparseSame
<1>3. ~InVector(p, i)
  <2> HIDE DEF d
  <2>1. CASE o.dense /\ i < MaxVector
    BY <1>1, <2>1, SparseFields DEF InVector
  <2>2. CASE ~o.dense
    BY <2>2 DEF InVector
  <2>3. CASE o.dense /\ ~(i < MaxVector)
    BY <2>3, OwnSlot
  <2> QED
    BY <2>1, <2>2, <2>3
<1>4. Define(o, i, d, t) = DefineInMap(p, i, d, t)
  <2> HIDE DEF d
  <2> QED
    BY <1>0, <1>1 DEF Define
<1> HIDE DEF p, s, d
<1>5. i \in DOMAIN p.map /\ p.map[i] = s
  <2>1. GetOwn(p, i) = s /\ s # NotFound
    BY <1>2 DEF s
  <2>2. i \notin FilledCells(p)
    BY <1>2, <1>3, OwnSlot
  <2> QED
    BY <1>2, <2>1, <2>2, OwnSlot
<1>6. CASE Verdict(s, d) = "keep"
  <2>1. DefineInMap(p, i, d, t) = Outcome(p, "ok")
    BY <1>5, <1>6 DEF DefineInMap
  <2>2. Differs(o, p, i, WithoutFlags(s, off))
    BY <1>1, <1>2, <1>6 DEF Differs, s
  <2>3. Define(o, i, d, t).result = "ok" /\ Define(o, i, d, t).object = p
    BY <1>4, <2>1, OutcomeFields
  <2> QED
    BY <1>2, <2>2, <2>3 DEF s, d
<1>7. CASE Verdict(s, d) = "merge"
  <2> DEFINE q == [p EXCEPT !.map[i] = Merge(@, d)]
  <2>1. DefineInMap(p, i, d, t) = Outcome(q, "ok")
    BY <1>5, <1>7 DEF DefineInMap
  <2>2. q = [p EXCEPT !.map[i] = WithoutFlags(s, off)]
    BY <1>1, <1>5, <1>7
  <2>3. /\ q.dense = p.dense /\ q.vector = p.vector /\ q.writable = p.writable /\ q.extensible = p.extensible
        /\ q.length = p.length /\ DOMAIN q.map = DOMAIN p.map
        /\ \A j \in DOMAIN q.map : q.map[j] = IF j = i THEN WithoutFlags(s, off) ELSE p.map[j]
    <3> HIDE DEF q
    <3> QED
      BY <1>2, <1>5, <2>2 DEF Sound
  <2> HIDE DEF q
  <2>4. Differs(p, q, i, WithoutFlags(s, off))
    <3>1. DOMAIN q.map = DOMAIN p.map \cup {i} /\ q.length \in Nat /\ q.length >= p.length /\ i < q.length
      BY <1>0, <1>2, <1>5, <2>3
    <3> QED
      BY <1>2, <1>3, <2>3, <3>1, MapDiffers
  <2>5. Differs(o, q, i, WithoutFlags(s, off))
    BY <1>2, <2>4 DEF Differs
  <2>6. Define(o, i, d, t).result = "ok" /\ Define(o, i, d, t).object = q
    BY <1>4, <2>1, OutcomeFields
  <2> QED
    BY <1>2, <2>3, <2>5, <2>6 DEF s, d
<1> QED
  BY <1>1, <1>6, <1>7

\* What freeze or seal leaves of the array o when it has redefined the names s.
LimitedSoFar(o, off, s, x) ==
    /\ x.result = "ok" /\ Sound(x.object) /\ Within(x.object)
    /\ x.object.length = o.length /\ x.object.extensible = o.extensible
    /\ x.object.writable = Locked(o, off).writable
    /\ \A j \in Nat : GetOwn(x.object, j) = IF j \in s THEN WithoutFlags(GetOwn(o, j), off) ELSE GetOwn(o, j)

\* What redefining the property of index i of o leaves.
Limit(o, i, off, t) == Define(o, i, Restricted(GetOwn(o, i), off), t)

\* ... and what it shows.
Shows(o, i, off, x) ==
    x.result = "ok" /\ Differs(o, x.object, i, WithoutFlags(GetOwn(o, i), off)) /\ x.object.length = o.length

LEMMA LimitShows ==
    ASSUME NEW o, Sound(o), Within(o), NEW i \in Nat, GetOwn(o, i) # NotFound, NEW off \in {{"W", "C"}, {"C"}}
    PROVE  \A t : Shows(o, i, off, Limit(o, i, off, t))
<1> TAKE t
<1>1. LET x == Define(o, i, Restricted(GetOwn(o, i), off), t) IN
      x.result = "ok" /\ Differs(o, x.object, i, WithoutFlags(GetOwn(o, i), off)) /\ x.object.length = o.length
  BY LimitedShown
<1> QED
  BY <1>1, Zenon DEF Shows, Limit

LEMMA RedefineLimits ==
    ASSUME NEW o, Sound(o), Within(o), NEW off \in {{"W", "C"}, {"C"}}, NEW s, NEW i \in OwnNames(o), i \in s,
           NEW x, LimitedSoFar(o, off, s \ {i}, x)
    PROVE  LimitedSoFar(o, off, s, Redefine(x, i, off))
<1> DEFINE p == x.object
           r == Define(p, i, Restricted(GetOwn(p, i), off), TRUE)
<1>0. i \in Nat /\ i < MaxU32 /\ i \in Index
  BY NamesFinite, LengthInt DEF Within, Index
<1>1. GetOwn(o, i) # NotFound
  BY <1>0, ViewProps
<1>2. x.result = "ok" /\ GetOwn(p, i) = GetOwn(o, i) /\ Sound(p) /\ Within(p)
  BY <1>0 DEF LimitedSoFar
<1>3. Redefine(x, i, off) = r
  BY <1>1, <1>2 DEF Redefine
<1>8. r = Limit(p, i, off, TRUE)
  BY Zenon DEF Limit
<1>9. \A t : Shows(p, i, off, Limit(p, i, off, t))
  <2> HIDE DEF p, r
  <2> QED
    BY <1>0, <1>1, <1>2, LimitShows
<1>10. Shows(p, i, off, r)
  <2> HIDE DEF p, r
  <2> QED
    BY <1>8, <1>9, Zenon
<1> HIDE DEF r
<1>4. r.result = "ok" /\ Differs(p, r.object, i, WithoutFlags(GetOwn(p, i), off)) /\ r.object.length = p.length
  BY <1>10 DEF Shows
<1>5. Sound(r.object) /\ Within(r.object)
  <2>1. Sound(Redefine(x, i, off).object) /\ Within(Redefine(x, i, off).object)
    BY <1>0, <1>2, RedefineSound, RedefineWithin
  <2> QED
    BY <1>3, <2>1
<1>6. r.object.writable = p.writable /\ r.object.extensible = p.extensible
      /\ \A j \in Nat : GetOwn(r.object, j) = IF j = i THEN WithoutFlags(GetOwn(p, i), off) ELSE GetOwn(p, j)
  BY <1>4 DEF Differs
<1>7. \A j \in Nat : GetOwn(r.object, j) = IF j \in s THEN WithoutFlags(GetOwn(o, j), off) ELSE GetOwn(o, j)
  <2> TAKE j \in Nat
  <2>1. CASE j = i
    BY <1>2, <1>6, <2>1
  <2>2. CASE j # i
    <3>1. j \in s <=> j \in s \ {i}
      BY <2>2
    <3>2. GetOwn(r.object, j) = GetOwn(p, j)
      BY <1>6, <2>2
    <3>3. GetOwn(p, j) = IF j \in s \ {i} THEN WithoutFlags(GetOwn(o, j), off) ELSE GetOwn(o, j)
      BY DEF LimitedSoFar
    <3> QED
      BY <3>1, <3>2, <3>3
  <2> QED
    BY <2>1, <2>2
<1> QED
  BY <1>3, <1>4, <1>5, <1>6, <1>7 DEF LimitedSoFar

\* The records of a view, field by field, and the changes that EcmaIntegrity and
\* PreventExtensions make to one.
Shaped(l, x, y, p) == [length |-> l, writable |-> x, extensible |-> y, props |-> p]
Barred(a, z) == [a EXCEPT !.extensible = z]
Opening(x, off) == x /\ "W" \notin off
Cleared(p, off) == [i \in DOMAIN p |-> WithoutFlags(p[i], off)]

\* The outcome e of the reference is the array of these fields, with z false.
EndsAs(e, l, w, z, q) == z = FALSE /\ e = EcmaOutcome(Shaped(l, w, z, q), "ok")
Reshaped(a, z, w, q) == [a EXCEPT !.extensible = z, !.writable = w, !.props = q]

LEMMA ReplaceFields ==
    ASSUME NEW a, NEW l, NEW x, NEW y, NEW p, a = Shaped(l, x, y, p), NEW z, NEW w, NEW q
    PROVE  /\ Reshaped(a, z, w, q) = Shaped(l, w, z, q)
           /\ Barred(a, z) = Shaped(l, x, z, p)
<1> DEFINE b == [a EXCEPT !.extensible = z]
           c == [b EXCEPT !.writable = w]
           d == [c EXCEPT !.props = q]
<1>1. b = [length |-> l, writable |-> x, extensible |-> z, props |-> p]
  BY DEF Shaped
<1>5. Barred(a, z) = Shaped(l, x, z, p)
  BY <1>1 DEF Shaped, Barred
<1> HIDE DEF b
<1>2. c = [length |-> l, writable |-> w, extensible |-> z, props |-> p]
  BY <1>1
<1> HIDE DEF c
<1>3. d = [length |-> l, writable |-> w, extensible |-> z, props |-> q]
  BY <1>2
<1>4. Reshaped(a, z, w, q) = d
  BY DEF Reshaped, b, c
<1> QED
  BY <1>3, <1>4, <1>5 DEF Shaped

LEMMA EcmaLimited ==
    ASSUME NEW a, NEW l, NEW x, NEW y, NEW p, a = Shaped(l, x, y, p),
           NEW off, NEW w, w = Opening(x, off),
           NEW q, q = Cleared(p, off)
    PROVE  \E z : EndsAs(EcmaIntegrity(a, off), l, w, z, q)
<1>1. PICK z : z = FALSE
  BY Zenon
<1>2. a.writable = x /\ a.props = p
  BY Zenon DEF Shaped
<1>3. EcmaIntegrity(a, off) = EcmaOutcome(Reshaped(a, z, w, q), "ok")
  BY <1>1, <1>2, Zenon DEF EcmaIntegrity, Reshaped, Opening, Cleared
<1>4. \A v : Reshaped(a, z, v, q) = Shaped(l, v, z, q)
  BY ReplaceFields
<1> QED
  BY <1>1, <1>3, <1>4, Zenon DEF EndsAs

LEMMA IntegrityAgrees ==
    ASSUME NEW o, Sound(o), Within(o), NEW off \in {{"W", "C"}, {"C"}}
    PROVE  Agree(Integrity(o, off), EcmaIntegrity(View(o), off))
<1> DEFINE S == OwnNames(o)
           b == Outcome(Locked(o, off), "ok")
           w == o.writable /\ "W" \notin off
           a == View(o)
<1>1. S \subseteq Nat /\ S \subseteq Int /\ IsFiniteSet(S) /\ \A i \in S : i \in Index
  BY NamesFinite, LengthInt DEF Within, Index
<1>2. PICK it : /\ Redefined(b, off, S, it)
                /\ Integrity(o, off) = IF it[S].result = "ok"
                                       THEN Outcome(PreventExtensions(it[S].object), "ok") ELSE it[S]
  BY <1>1, IntegrityFolds
<1>3. LimitedSoFar(o, off, {}, b)
  <2> DEFINE q == Locked(o, off)
  <2>0. w \in BOOLEAN
    OBVIOUS
  <2>1. Sound(q) /\ Within(q)
    <3>1. Sound([o EXCEPT !.writable = w]) /\ Within([o EXCEPT !.writable = w])
      BY <2>0, WritableSound, PreventWithin
    <3> QED
      BY <3>1 DEF Locked
  <2>2. q.length = o.length /\ q.extensible = o.extensible /\ q.dense = o.dense
        /\ q.vector = o.vector /\ q.map = o.map
    BY DEF Locked, Sound
  <2> HIDE DEF q
  <2>3. \A j \in Nat : GetOwn(q, j) = GetOwn(o, j)
    BY <2>2 DEF GetOwn, InVector, Cell
  <2>4. b.result = "ok" /\ b.object = q
    BY OutcomeFields DEF q
  <2> HIDE DEF b
  <2> QED
    BY <2>1, <2>2, <2>3, <2>4 DEF LimitedSoFar, q
<1>4. LimitedSoFar(o, off, S, it[S])
  <2> DEFINE H == {s \in SUBSET S : LimitedSoFar(o, off, s, it[s])}
  <2> HIDE DEF b
  <2>1. {} \in H
    BY <1>2, <1>3 DEF Redefined
  <2>2. ASSUME NEW s \in SUBSET S, s # {}
        PROVE  \E x \in s : s \ {x} \in H => s \in H
    <3>1. Max(s) \in s
      BY <1>1, <2>2, MaxOf, SubsetsFinite
    <3>2. it[s] = Redefine(it[s \ {Max(s)}], Max(s), off)
      BY <1>2, <2>2 DEF Redefined
    <3>3. Max(s) \in OwnNames(o)
      BY <3>1
    <3> DEFINE m == Max(s)
    <3> HIDE DEF S, m
    <3>4. ASSUME s \ {m} \in H PROVE s \in H
      <4>1. LimitedSoFar(o, off, s \ {m}, it[s \ {m}])
        BY <3>4
      <4>2. LimitedSoFar(o, off, s, Redefine(it[s \ {m}], m, off))
        BY <3>1, <3>3, <4>1, RedefineLimits DEF m
      <4> QED
        BY <3>2, <4>2 DEF m
    <3> QED
      BY <3>1, <3>4 DEF m
  <2>3. S \in H
    <3> HIDE DEF H
    <3> QED
      BY <1>1, <2>1, <2>2, SubsetInduction
  <2> QED
    BY <2>3
<1> DEFINE p == it[S].object
           props == [i \in DOMAIN a.props |-> WithoutFlags(a.props[i], off)]
           u == Locked(o, off).writable
           c == Shaped(o.length, u, o.extensible, props)
<1>5. /\ p.length = o.length /\ p.extensible = o.extensible /\ p.writable = Locked(o, off).writable
      /\ \A j \in Nat : GetOwn(p, j) = IF j \in S THEN WithoutFlags(GetOwn(o, j), off) ELSE GetOwn(o, j)
      /\ Sound(p) /\ Within(p) /\ it[S].result = "ok"
  <2> HIDE DEF S
  <2> QED
    BY <1>4 DEF LimitedSoFar
<1>6. Integrity(o, off) = Outcome(PreventExtensions(p), "ok")
  BY <1>2, <1>5
<1> HIDE DEF p, b
<1>7. View(PreventExtensions(p)) = [View(p) EXCEPT !.extensible = FALSE]
  BY <1>5, PreventView
<1>8. View(p) = c
  <2>1. \A i \in Index : /\ i \in DOMAIN a.props <=> i \in S
                         /\ i \in DOMAIN a.props <=> GetOwn(o, i) # NotFound
    BY ViewProps
  <2>2. \A i \in DOMAIN a.props : a.props[i] = GetOwn(o, i) /\ SoundSlot(GetOwn(o, i)) /\ i \in Index
    BY ViewProps
  <2> HIDE DEF a, S
  <2>3. c.length = o.length /\ c.writable = Locked(o, off).writable /\ c.extensible = o.extensible /\ c.props = props
        /\ DOMAIN props = DOMAIN a.props /\ IsEcma(c)
    BY DEF IsEcma, Shaped
  <2>4. \A i \in DOMAIN a.props : props[i] = WithoutFlags(GetOwn(o, i), off) /\ props[i] # NotFound
    BY <2>2, FlagsFields
  <2> HIDE DEF props, c
  <2>5. \A i \in Index : IF i \in DOMAIN c.props THEN GetOwn(p, i) = c.props[i] /\ c.props[i] # NotFound
                         ELSE GetOwn(p, i) = NotFound
    <3> TAKE i \in Index
    <3>1. i \in Nat
      BY DEF Index
    <3> QED
      BY <1>5, <2>1, <2>3, <2>4, <3>1
  <2>6. DOMAIN c.props \subseteq Index
    BY <2>2, <2>3
  <2> QED
    BY <1>5, <2>3, <2>5, <2>6, SameView
<1>9. PICK z : EndsAs(EcmaIntegrity(a, off), o.length, u, z, props)
  <2>1. a = Shaped(o.length, o.writable, o.extensible, a.props)
    BY ViewOf DEF Shaped
  <2>2. u = Opening(o.writable, off)
    BY DEF Locked, Sound, Opening
  <2> HIDE DEF a, props, u, w, S, c
  <2>3. props = Cleared(a.props, off)
    BY DEF props, Cleared
  <2> QED
    BY <2>1, <2>2, <2>3, EcmaLimited, Zenon
<1> HIDE DEF u, props, a
<1>10. Integrity(o, off).result = "ok" /\ Integrity(o, off).object = PreventExtensions(p)
  BY <1>6, OutcomeFields
<1>11. /\ EcmaIntegrity(a, off).result = "ok"
       /\ EcmaIntegrity(a, off).array = Shaped(o.length, u, z, props)
  BY <1>9, EcmaFields DEF EndsAs
<1>12. View(PreventExtensions(p)) = Shaped(o.length, u, z, props)
  <2>1. View(PreventExtensions(p)) = [c EXCEPT !.extensible = FALSE]
    BY <1>7, <1>8
  <2>2. View(PreventExtensions(p)) = Barred(c, z)
    BY <1>9, <2>1, Zenon DEF Barred, EndsAs
  <2>3. Barred(c, z) = Shaped(o.length, u, z, props)
    <3> HIDE DEF u, props, w, S
    <3>1. c = Shaped(o.length, u, o.extensible, props)
      OBVIOUS
    <3> HIDE DEF c
    <3> QED
      BY <3>1, ReplaceFields
  <2> QED
    BY <2>2, <2>3
<1> HIDE DEF c
<1> QED
  BY <1>10, <1>11, <1>12 DEF Agree, a

LEMMA PreventAgrees ==
    ASSUME NEW o, Sound(o), Within(o)
    PROVE  Agree(Outcome(PreventExtensions(o), "ok"), EcmaIntegrity(View(o), {}))
<1> DEFINE a == View(o)
           u == o.writable
           p == PreventExtensions(o)
<1>1. a = Shaped(o.length, u, o.extensible, a.props)
  BY ViewOf DEF Shaped
<1>2. u = Opening(u, {})
  BY DEF Opening, Sound
<1>3. a.props = Cleared(a.props, {})
  <2>1. a.props = [i \in DOMAIN a.props |-> a.props[i]]
    <3>1. a.props = [i \in {j \in Index : GetOwn(o, j) # NotFound} |-> GetOwn(o, i)]
      BY DEF View
    <3> QED
      BY <3>1
  <2>2. \A i \in DOMAIN a.props : SoundSlot(a.props[i])
    BY ViewProps
  <2> HIDE DEF a
  <2>3. \A i \in DOMAIN a.props : WithoutFlags(a.props[i], {}) = a.props[i]
    BY <2>2, FlagsFields
  <2> QED
    BY <2>1, <2>3 DEF Cleared
<1> HIDE DEF a, u, p
<1>4. PICK z : EndsAs(EcmaIntegrity(a, {}), o.length, u, z, a.props)
  BY <1>1, <1>2, <1>3, EcmaLimited, Zenon
<1>5. /\ EcmaIntegrity(a, {}).result = "ok"
      /\ EcmaIntegrity(a, {}).array = Shaped(o.length, u, z, a.props)
  BY <1>4, EcmaFields DEF EndsAs
<1>6. View(p) = Barred(a, z)
  <2>1. View(p) = [a EXCEPT !.extensible = FALSE]
    BY PreventView DEF a, p
  <2> QED
    BY <1>4, <2>1, Zenon DEF Barred, EndsAs
<1>7. Barred(a, z) = Shaped(o.length, u, z, a.props)
  BY <1>1, ReplaceFields
<1>8. Outcome(p, "ok").result = "ok" /\ Outcome(p, "ok").object = p
  BY OutcomeFields
<1>9. Agree(Outcome(p, "ok"), EcmaIntegrity(a, {}))
  BY <1>5, <1>6, <1>7, <1>8 DEF Agree
<1> QED
  BY <1>9 DEF a, p

\* The values of the operations that PrimitivesAgree looks at.
LEMMA AssignmentValue ==
    ASSUME NEW I, NEW w \in Assignments(I)
    PROVE  w.v # Empty
<1>1. w.v \in {Undefined, StringOrder[1]}
  BY DEF Assignments
<1>2. StringOrder[1] \in Values
  BY OrderAssumption
<1> QED
  BY <1>1, <1>2, EmptyAssumption

LEMMA DefinitionValue ==
    ASSUME Sound(arr), NEW I, NEW D \in SUBSET Descriptor, NEW w \in Definitions(I, D)
    PROVE  /\ w.d.value # Empty /\ ("value" \notin w.d.has => w.d.value = Undefined)
           /\ w.i \in DOMAIN arr.map =>
                 ~(arr.map[w.i].kind = "accessor" /\ Kind(w.d) = "data" /\ "value" \notin w.d.has)
<1>1. w.d \in Descriptor
      /\ ("value" \in w.d.has \/ Kind(w.d) # "data" \/ w.i \notin DOMAIN arr.map \/ arr.map[w.i].kind = "data")
  BY DEF Definitions
<1>2. w.d.value \in Values \cup {Undefined} /\ ("value" \notin w.d.has => w.d.value = Undefined)
  BY <1>1 DEF Descriptor
<1> QED
  BY <1>1, <1>2, EmptyAssumption

LEMMA AboveTelling ==
    ASSUME above \in Prototypes
    PROVE  above \in Seq(Range(above)) /\ Telling(above)
BY PrototypesAssumption DEF Telling

\* Every primitive operation agrees with the reference, but where Departs says
\* that it does not.
LEMMA AssignmentAgrees ==
    ASSUME TypeOK, Within(arr), NEW w \in Assignments(AllIndices), ~Departs(arr, w)
    PROVE  Agree(Step(arr, above, w), EcmaStep(View(arr), Views(above), w))
<1>0. Sound(arr) /\ above \in Seq(Range(above)) /\ Telling(above) /\ AllIndices \in SUBSET Index
  BY AboveTelling, BoundsAssumption DEF TypeOK
<1>1. w.op \in {"put", "byval", "fraction"} /\ w.i \in Index /\ w.v # Empty
  BY <1>0, AssignmentLegal, AssignmentValue
<1>2. CASE w.op = "put"
  <2>1. w.i # MaxU32 /\ ~Unasked(arr, w)
    BY <1>2 DEF Departs
  <2>2. LET unseen == Lookup(above, w.i) IN
        ~(/\ w.i \notin DOMAIN View(arr).props
          /\ arr.dense /\ w.i < MaxVector /\ (above = <<>> \/ HasIndexed(above))
          /\ \/ ~arr.extensible \/ unseen.kind = "accessor" \/ (unseen.kind = "data" /\ "W" \notin unseen.on)
             \/ w.i >= arr.length /\ (~arr.writable \/ InVector(arr, w.i)))
    BY <1>2, <2>1 DEF Unasked
  <2>3. Agree(Put(arr, above, w.i, w.v, w.throwable), EcmaPut(View(arr), Views(above), w.i, w.v, w.throwable))
    BY <1>0, <1>1, <2>1, <2>2, PutAgrees
  <2> QED
    BY <1>2, <2>3 DEF Step, EcmaStep
<1>3. CASE w.op = "byval"
  <2>1. w.i # MaxU32 /\ ~Unasked(arr, w)
    BY <1>3 DEF Departs
  <2>2. LET unseen == Lookup(above, w.i) IN
        ~(/\ w.i \notin DOMAIN View(arr).props
          /\ InVector(arr, w.i) \/ (arr.dense /\ w.i < MaxVector /\ (above = <<>> \/ HasIndexed(above)))
          /\ \/ ~arr.extensible \/ unseen.kind = "accessor" \/ (unseen.kind = "data" /\ "W" \notin unseen.on)
             \/ w.i >= arr.length /\ (~arr.writable \/ InVector(arr, w.i)))
    BY <1>3, <2>1 DEF Unasked
  <2>3. Agree(PutByVal(arr, above, w.i, w.v, w.throwable), EcmaPut(View(arr), Views(above), w.i, w.v, w.throwable))
    BY <1>0, <1>1, <2>1, <2>2, PutByValAgrees
  <2> QED
    BY <1>3, <2>3 DEF Step, EcmaStep
<1>4. CASE w.op = "fraction"
  <2>1. ~InVector(arr, w.i)
    BY <1>4 DEF Departs
  <2>2. PutByFraction(arr, w.i, w.v) = Outcome(arr, "ok")
    BY <2>1 DEF PutByFraction
  <2>3. Step(arr, above, w) = Outcome(arr, "ok")
        /\ EcmaStep(View(arr), Views(above), w) = EcmaOutcome(View(arr), "ok")
    BY <1>4, <2>2 DEF Step, EcmaStep
  <2> QED
    BY <2>3, OutcomeFields, EcmaFields DEF Agree
<1> QED
  BY <1>1, <1>2, <1>3, <1>4

LEMMA DefinitionAgrees ==
    ASSUME TypeOK, Within(arr), NEW w \in Definitions(AllIndices, AllDescriptors), ~Departs(arr, w)
    PROVE  Agree(Step(arr, above, w), EcmaStep(View(arr), Views(above), w))
<1>0. Sound(arr) /\ AllIndices \in SUBSET Index /\ AllDescriptors \in SUBSET Descriptor
  BY BoundsAssumption DEF TypeOK
<1>1. w.op = "define" /\ w.i \in Index /\ w.d \in Descriptor
  BY <1>0, DefinitionLegal
<1>2. Asked(w.d)
  BY <1>1, DescriptorAsked
<1>3. /\ w.d.value # Empty /\ ("value" \notin w.d.has => w.d.value = Undefined)
      /\ w.i \in DOMAIN arr.map =>
            ~(arr.map[w.i].kind = "accessor" /\ Kind(w.d) = "data" /\ "value" \notin w.d.has)
  BY <1>0, DefinitionValue
<1>4. /\ w.i # MaxU32
      /\ arr.dense /\ IsDefault(w.d) /\ w.i < MaxVector =>
            IF w.i \in DOMAIN View(arr).props THEN "value" \in w.d.has ELSE arr.extensible
  BY <1>1 DEF Departs
<1>5. Agree(Define(arr, w.i, w.d, w.throwable), EcmaDefine(View(arr), w.i, w.d, w.throwable))
  BY <1>0, <1>1, <1>2, <1>3, <1>4, DefineAgrees
<1> QED
  BY <1>1, <1>5 DEF Step, EcmaStep

LEMMA DeletionAgrees ==
    ASSUME TypeOK, Within(arr), NEW w \in Deletions(AllIndices)
    PROVE  Agree(Step(arr, above, w), EcmaStep(View(arr), Views(above), w))
<1>1. Sound(arr) /\ AllIndices \in SUBSET Index
  BY BoundsAssumption DEF TypeOK
<1>2. w.op = "delete" /\ w.i \in Index
  BY <1>1, DeletionLegal
<1>3. Agree(Delete(arr, w.i, w.throwable), EcmaDelete(View(arr), w.i, w.throwable))
  BY <1>1, <1>2, DeleteAgrees
<1> QED
  BY <1>2, <1>3 DEF Step, EcmaStep

LEMMA LengthAgrees ==
    ASSUME TypeOK, Within(arr), NEW w \in Lengths(AllLengths), ~Departs(arr, w)
    PROVE  Agree(Step(arr, above, w), EcmaStep(View(arr), Views(above), w))
<1>0. Sound(arr) /\ AllLengths \in SUBSET (Index \cup {-1})
  BY BoundsAssumption DEF TypeOK
<1>1. CASE w.op = "assign length"
  <2>1. w.n \in Index \cup {-1}
    BY <1>0, <1>1, LengthShape
  <2>2. w.n \notin {-1, MaxU32} /\ ~DropsAny(arr, w.n)
    BY <1>1 DEF Departs
  <2>3. Agree(PutLength(arr, w.n, w.throwable, w.order),
              IF View(arr).writable THEN EcmaSetLength(View(arr), ToLength(w.n), w.throwable)
              ELSE EcmaRefused(View(arr), w.throwable))
    BY <1>0, <2>1, <2>2, PutLengthAgrees
  <2>4. Step(arr, above, w) = PutLength(arr, w.n, w.throwable, w.order)
    BY <1>1 DEF Step
  <2>5. EcmaStep(View(arr), Views(above), w) =
              IF View(arr).writable THEN EcmaSetLength(View(arr), ToLength(w.n), w.throwable)
              ELSE EcmaRefused(View(arr), w.throwable)
    BY <1>1 DEF EcmaStep
  <2> QED
    BY <2>3, <2>4, <2>5
<1>2. CASE w.op = "length"
  <2>1. /\ w.throwable = TRUE /\ "W" \in w.d.has /\ w.d.on \in {{}, {"W"}} /\ w.d.has \subseteq {"value", "W"}
        /\ "value" \in w.d.has => w.d.value = Max({arr.length - 1, 0}) /\ w.d.on = {}
    BY <1>0, <1>2, LengthShape
  <2>2. Ordered(arr, w.order)
    BY <1>0, <1>2, LengthLegal DEF Legal
  <2>3. Step(arr, above, w) = DefineLength(arr, w.d, w.throwable, w.order)
    BY <1>2 DEF Step
  <2>4. "value" \in w.d.has =>
            ~DropsAny(arr, w.d.value) /\ DefineLength(arr, w.d, w.throwable, w.order).result # "TypeError"
    BY <1>2, <2>3 DEF Departs
  <2>5. Max({arr.length - 1, 0}) \in Index /\ Max({arr.length - 1, 0}) # MaxU32
    <3>1. arr.length \in Nat /\ arr.length \in Index /\ MaxU32 \in Nat /\ MaxU32 # 0
      BY <1>0, LengthInt, WidthAssumption DEF Sound
    <3>2. Max({arr.length - 1, 0}) = IF arr.length - 1 >= 0 THEN arr.length - 1 ELSE 0
      BY <3>1, MaxOfTwo
    <3> QED
      BY <3>1, <3>2 DEF Index
  <2>6. (IF w.throwable THEN "TypeError" ELSE "refused") = "TypeError"
    BY <2>1
  <2>7. "value" \in w.d.has => w.d.on = {} /\ w.d.value \in Index /\ w.d.value # MaxU32 /\ ~DropsAny(arr, w.d.value)
    BY <2>1, <2>4, <2>5
  <2>8. Agree(DefineLength(arr, w.d, w.throwable, w.order), EcmaSetLength(View(arr), w.d, w.throwable))
    BY <1>0, <2>1, <2>2, <2>4, <2>6, <2>7, DefineLengthAgrees
  <2>9. EcmaStep(View(arr), Views(above), w) = EcmaSetLength(View(arr), w.d, w.throwable)
    BY <1>2 DEF EcmaStep
  <2> QED
    BY <2>3, <2>8, <2>9
<1> QED
  BY <1>0, <1>1, <1>2, LengthShape

LEMMA LimitAgrees ==
    ASSUME TypeOK, Within(arr), NEW w \in Limits
    PROVE  Agree(Step(arr, above, w), EcmaStep(View(arr), Views(above), w))
<1>0. Sound(arr) /\ w.op \in {"freeze", "seal", "prevent extensions"}
  BY LimitLegal DEF TypeOK
<1>1. CASE w.op = "freeze"
  <2>1. Step(arr, above, w) = Integrity(arr, {"W", "C"})
        /\ EcmaStep(View(arr), Views(above), w) = EcmaIntegrity(View(arr), {"W", "C"})
    BY <1>1 DEF Step, EcmaStep, Freeze
  <2> QED
    BY <1>0, <2>1, IntegrityAgrees
<1>2. CASE w.op = "seal"
  <2>1. Step(arr, above, w) = Integrity(arr, {"C"})
        /\ EcmaStep(View(arr), Views(above), w) = EcmaIntegrity(View(arr), {"C"})
    BY <1>2 DEF Step, EcmaStep, Seal
  <2> QED
    BY <1>0, <2>1, IntegrityAgrees
<1>3. CASE w.op = "prevent extensions"
  <2>1. w.op # "put" /\ w.op # "byval" /\ w.op # "fraction" /\ w.op # "define" /\ w.op # "delete"
        /\ w.op # "length" /\ w.op # "assign length" /\ w.op # "freeze" /\ w.op # "seal" /\ w.op # "throw"
    BY <1>3
  <2>2. Step(arr, above, w) = Outcome(PreventExtensions(arr), "ok")
        /\ EcmaStep(View(arr), Views(above), w) = EcmaIntegrity(View(arr), {})
    BY <2>1 DEF Step, EcmaStep
  <2> QED
    BY <1>0, <2>2, PreventAgrees
<1> QED
  BY <1>0, <1>1, <1>2, <1>3

\* Every primitive operation on an array without stray elements leaves the array
\* and gives the outcome that ECMAScript's does (put, define_own_property and
\* delete of vm/object.rs, the length of vm/array_storage.rs, freeze and seal),
\* but for the operations that Departs names.
THEOREM PrimitiveOperationsAgree == Spec => []PrimitivesAgree
<1>1. TypeOK => PrimitivesAgree
  <2> SUFFICES ASSUME TypeOK, Stray(arr) = {}, NEW w \in Primitives, ~Departs(arr, w)
               PROVE  Agree(Step(arr, above, w), EcmaStep(View(arr), Views(above), w))
    BY DEF PrimitivesAgree, Agree, Views
  <2>1. Within(arr)
    BY NoStray DEF TypeOK
  <2> QED
    BY <2>1, AssignmentAgrees, DefinitionAgrees, DeletionAgrees, LengthAgrees, LimitAgrees DEF Primitives
<1> QED
  BY <1>1, TypeCorrect, PTL
=============================================================================
