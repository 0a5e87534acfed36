---------------------------- MODULE Encoding_proofs ----------------------------
(***************************************************************************)
(* Theorems about the representation of cells and of values.               *)
(*                                                                         *)
(* The memory of the two spaces, for any granule, cutoff, payload,         *)
(* progression, block size and heap: every small request gets a cell that  *)
(* holds it, cells do not overlap and have bits of their own, exactly      *)
(* which addresses pass is_heap_pointer, and precise allocations find      *)
(* their way back to malloc's pointer.                                     *)
(*                                                                         *)
(* The words that stand for values, for any split of the word that         *)
(* EncodingAssumption allows, the one of the 64-bit build among them:      *)
(* every word has one kind, what is encoded is read back, exactly which    *)
(* bits can be encoded as a double without purify_nan, and exactly which   *)
(* numbers of the primitive types become another number.                   *)
(***************************************************************************)
EXTENDS CellLayout, ValueEncoding, WellFoundedInduction, TLAPS

-----------------------------------------------------------------------------
\* Integer division, as the proofs use it.

LEMMA Division ==
    ASSUME NEW n \in Nat, NEW d \in Nat \ {0}
    PROVE  /\ n \div d \in Nat
           /\ d * (n \div d) <= n
           /\ n < d * (n \div d) + d
<1>1. n = d * (n \div d) + (n % d) /\ n % d \in 0..(d - 1)
  OBVIOUS
<1>2. n \div d \in Nat
  OBVIOUS
<1> QED
  BY <1>1, <1>2

LEMMA Cancel ==
    ASSUME NEW d \in Nat \ {0}, NEW p \in Nat, NEW q \in Nat, d * p < d * q
    PROVE  p < q
<1>1. SUFFICES ASSUME q <= p PROVE FALSE
  OBVIOUS
<1>2. d * q <= d * p
  BY <1>1
<1> QED
  BY <1>2

\* The quotient is the largest number of times that d fits into n.
LEMMA DivisionLargest ==
    ASSUME NEW n \in Nat, NEW d \in Nat \ {0}, NEW q \in Nat, d * q <= n
    PROVE  q <= n \div d
<1> DEFINE p == n \div d
<1>1. p \in Nat /\ n < d * p + d
  BY Division
<1> HIDE DEF p
<1>2. d * q < d * (p + 1)
  BY <1>1
<1>3. q < p + 1
  BY <1>1, <1>2, Cancel
<1> QED
  BY <1>1, <1>3 DEF p

LEMMA DivisionExact ==
    ASSUME NEW d \in Nat \ {0}, NEW q \in Nat
    PROVE  (d * q) \div d = q
<1> DEFINE p == (d * q) \div d
<1>1. d * q \in Nat
  OBVIOUS
<1>2. p \in Nat /\ d * p <= d * q
  BY <1>1, Division
<1>3. q <= p
  BY <1>1, DivisionLargest
<1> HIDE DEF p
<1>4. d * p < d * (q + 1)
  BY <1>2
<1>5. p < q + 1
  BY <1>2, <1>4, Cancel
<1> QED
  BY <1>2, <1>3, <1>5 DEF p

-----------------------------------------------------------------------------
\* Multiples of the step.

Multiple(c) == \E q \in Nat : c = SizeStep * q

LEMMA MultipleOfStep ==
    ASSUME NEW c \in Nat
    PROVE  c % SizeStep = 0 <=> Multiple(c)
<1>0. SizeStep \in Nat \ {0}
  BY SizesAssumption
<1>1. ASSUME c % SizeStep = 0 PROVE Multiple(c)
  <2>1. c = SizeStep * (c \div SizeStep) + (c % SizeStep) /\ c \div SizeStep \in Nat
    BY <1>0
  <2>2. c = SizeStep * (c \div SizeStep)
    BY <1>1, <2>1, <1>0
  <2> QED
    BY <2>1, <2>2 DEF Multiple
<1>2. ASSUME Multiple(c) PROVE c % SizeStep = 0
  <2>1. PICK q \in Nat : c = SizeStep * q
    BY <1>2 DEF Multiple
  <2>2. c \div SizeStep = q
    BY <1>0, <2>1, DivisionExact
  <2>3. c = SizeStep * (c \div SizeStep) + (c % SizeStep) /\ c % SizeStep \in 0..(SizeStep - 1)
    BY <1>0
  <2> QED
    BY <1>0, <2>1, <2>2, <2>3
<1> QED
  BY <1>1, <1>2

\* RoundDown gives the largest multiple that is not above its argument.
LEMMA RoundedDown ==
    ASSUME NEW x \in Nat
    PROVE  /\ RoundDown(x) \in Nat /\ Multiple(RoundDown(x)) /\ RoundDown(x) <= x
           /\ \A m \in Nat : Multiple(m) /\ m <= x => m <= RoundDown(x)
<1>0. SizeStep \in Nat \ {0}
  BY SizesAssumption
<1> DEFINE p == x \div SizeStep
<1>1. p \in Nat /\ SizeStep * p <= x
  BY <1>0, Division
<1>2. ASSUME NEW m \in Nat, Multiple(m), m <= x
      PROVE  m <= SizeStep * p
  <2>1. PICK q \in Nat : m = SizeStep * q
    BY <1>2 DEF Multiple
  <2>2. q <= p
    BY <1>0, <1>2, <2>1, DivisionLargest
  <2> HIDE DEF p
  <2>3. SizeStep * q <= SizeStep * p
    BY <1>0, <1>1, <2>2
  <2> QED
    BY <2>1, <2>3
<1> HIDE DEF p
<1>3. SizeStep * p \in Nat /\ p * SizeStep = SizeStep * p
  BY <1>0, <1>1
<1>4. RoundDown(x) = SizeStep * p
  BY <1>3 DEF RoundDown, p
<1> QED
  BY <1>1, <1>2, <1>3, <1>4 DEF Multiple

\* RoundUp gives the smallest multiple that is not below its argument.
LEMMA RoundedUp ==
    ASSUME NEW x \in Nat
    PROVE  /\ size_class_to_index(x) \in Nat
           /\ RoundUp(x) = SizeStep * size_class_to_index(x)
           /\ RoundUp(x) \in Nat /\ Multiple(RoundUp(x)) /\ x <= RoundUp(x)
           /\ \A q \in Nat : x <= SizeStep * q <=> size_class_to_index(x) <= q
<1>0. SizeStep \in Nat \ {0} /\ x + SizeStep - 1 \in Nat
  BY SizesAssumption
<1> DEFINE p == (x + SizeStep - 1) \div SizeStep
<1>1. p \in Nat /\ SizeStep * p <= x + SizeStep - 1 /\ x + SizeStep - 1 < SizeStep * p + SizeStep
  BY <1>0, Division
<1>2. size_class_to_index(x) = p /\ RoundUp(x) = p * SizeStep
  BY DEF size_class_to_index, RoundUp
<1> HIDE DEF p
<1>3. p * SizeStep = SizeStep * p /\ SizeStep * p \in Nat
  BY <1>0, <1>1
<1>4. x <= SizeStep * p
  BY <1>0, <1>1, <1>3
<1>5. ASSUME NEW q \in Nat PROVE x <= SizeStep * q <=> p <= q
  <2>1. ASSUME p <= q PROVE x <= SizeStep * q
    <3>1. SizeStep * p <= SizeStep * q /\ SizeStep * q \in Nat
      BY <1>0, <1>1, <2>1
    <3> QED
      BY <1>3, <1>4, <3>1
  <2>2. ASSUME x <= SizeStep * q PROVE p <= q
    <3>1. SizeStep * q \in Nat /\ SizeStep * (q + 1) = SizeStep * q + SizeStep
      BY <1>0
    <3>2. SizeStep * p < SizeStep * (q + 1)
      BY <1>0, <1>1, <1>3, <2>2, <3>1
    <3>3. p < q + 1
      BY <1>0, <1>1, <3>2, Cancel
    <3> QED
      BY <1>1, <3>3
  <2> QED
    BY <2>1, <2>2
<1> QED
  BY <1>1, <1>2, <1>3, <1>4, <1>5 DEF Multiple

-----------------------------------------------------------------------------
\* Two cells of the largest class fit into a block.
LEMMA Cutoff ==
    /\ LargeCutoff \in Nat /\ Multiple(LargeCutoff) /\ 2 * LargeCutoff <= BlockPayload
    /\ \A m \in Nat : Multiple(m) /\ 2 * m <= BlockPayload => m <= LargeCutoff
<1> DEFINE half == BlockPayload \div 2
<1>1. BlockPayload \in Nat
  BY SizesAssumption
<1>2. half \in Nat /\ 2 * half <= BlockPayload /\ BlockPayload < 2 * half + 2
  BY <1>1
<1>3. LargeCutoff = RoundDown(half)
  BY DEF LargeCutoff, RoundDown
<1> HIDE DEF half
<1>4. RoundDown(half) \in Nat /\ Multiple(RoundDown(half)) /\ RoundDown(half) <= half
      /\ \A m \in Nat : Multiple(m) /\ m <= half => m <= RoundDown(half)
  BY <1>2, RoundedDown
<1>5. ASSUME NEW m \in Nat, 2 * m <= BlockPayload PROVE m <= half
  BY <1>1, <1>2, <1>5
<1> QED
  BY <1>1, <1>2, <1>3, <1>4, <1>5

\* Neither subtraction of the waste goes below zero, and a better class is
\* still small: the second way out of the loop of generate_size_classes, a
\* class above LARGE_CUTOFF, is never taken.
LEMMA BetterFits ==
    ASSUME NEW s \in Nat \ {0}, Multiple(s), s <= LargeCutoff
    PROVE  LET cells == BlockPayload \div s
           IN /\ cells >= 2 /\ cells * s <= BlockPayload
              /\ s <= RoundDown(BlockPayload \div cells)
              /\ BetterSizeClass(s) \in Nat /\ Multiple(BetterSizeClass(s))
              /\ s <= BetterSizeClass(s) /\ BetterSizeClass(s) <= LargeCutoff
<1> DEFINE cells == BlockPayload \div s
           share == BlockPayload \div cells
<1>0. BlockPayload \in Nat
  BY SizesAssumption
<1>1. cells \in Nat /\ s * cells <= BlockPayload
  BY <1>0, Division
<1>2. s * 2 <= BlockPayload
  BY Cutoff, <1>0
<1>3. 2 <= cells
  BY <1>0, <1>2, DivisionLargest
<1> HIDE DEF cells
<1>4. cells \in Nat \ {0} /\ cells * s = s * cells
  BY <1>1, <1>3
<1>5. share \in Nat /\ cells * share <= BlockPayload
  BY <1>0, <1>4, Division
<1>6. s <= share
  BY <1>0, <1>1, <1>4, DivisionLargest
<1> HIDE DEF share
<1>7. 2 * share <= BlockPayload
  <2>1. 2 * share <= cells * share
    BY <1>3, <1>4, <1>5
  <2> QED
    BY <2>1, <1>0, <1>4, <1>5
<1> DEFINE possibly_better == RoundDown(share)
<1>8. possibly_better \in Nat /\ Multiple(possibly_better) /\ possibly_better <= share
      /\ s <= possibly_better
  BY <1>5, <1>6, RoundedDown
<1> HIDE DEF possibly_better
<1>9. 2 * possibly_better <= BlockPayload
  BY <1>0, <1>5, <1>7, <1>8
<1>10. possibly_better <= LargeCutoff
  BY <1>8, <1>9, Cutoff
<1>11. BetterSizeClass(s) = s \/ BetterSizeClass(s) = possibly_better
  BY DEF BetterSizeClass, possibly_better, share, cells
<1>12. /\ cells >= 2 /\ cells * s <= BlockPayload
       /\ s <= possibly_better
       /\ BetterSizeClass(s) \in Nat /\ Multiple(BetterSizeClass(s))
       /\ s <= BetterSizeClass(s) /\ BetterSizeClass(s) <= LargeCutoff
  BY <1>1, <1>3, <1>4, <1>8, <1>10, <1>11
<1> QED
  BY <1>12 DEF cells, share, possibly_better

\* Every size class is a positive multiple of the step, and small.
LEMMA ClassesFit ==
    ASSUME NEW c \in SizeClasses
    PROVE  c \in Nat /\ 0 < c /\ Multiple(c) /\ c <= LargeCutoff
<1>1. LargeCutoff \in Nat /\ PreciseCutoff \in Nat /\ PreciseCutoff <= LargeCutoff /\ 0 < PreciseCutoff
  BY SizesAssumption, Cutoff
<1>2. CASE c \in 1..(PreciseCutoff - 1) /\ c % SizeStep = 0
  BY <1>1, <1>2, MultipleOfStep
<1>3. CASE \E a \in Approximate : c = BetterSizeClass(RoundUp(a))
  <2>1. PICK a \in Approximate : c = BetterSizeClass(RoundUp(a))
    BY <1>3
  <2>2. a \in Nat /\ 0 < a /\ a <= LargeCutoff
    BY <1>1, SizesAssumption
  <2> DEFINE s == RoundUp(a)
  <2>3. s \in Nat /\ Multiple(s) /\ a <= s
    BY <2>2, RoundedUp
  <2>4. s <= LargeCutoff
    <3>1. PICK q \in Nat : LargeCutoff = SizeStep * q
      BY Cutoff DEF Multiple
    <3>2. size_class_to_index(a) \in Nat /\ size_class_to_index(a) <= q /\ s = SizeStep * size_class_to_index(a)
      BY <2>2, <3>1, RoundedUp
    <3> HIDE DEF s
    <3>3. SizeStep * size_class_to_index(a) <= SizeStep * q
      BY <3>2, SizesAssumption
    <3> QED
      BY <3>1, <3>2, <3>3
  <2> HIDE DEF s
  <2>5. s \in Nat \ {0}
    BY <2>2, <2>3
  <2>6. BetterSizeClass(s) \in Nat /\ Multiple(BetterSizeClass(s))
        /\ s <= BetterSizeClass(s) /\ BetterSizeClass(s) <= LargeCutoff
    BY <2>3, <2>4, <2>5, BetterFits
  <2> QED
    BY <2>1, <2>5, <2>6 DEF s
<1>4. CASE c = HighVolume
  BY <1>4, SizesAssumption, MultipleOfStep
<1> QED
  BY <1>2, <1>3, <1>4 DEF SizeClasses

\* A set of classes has a smallest one.
LEMMA Smallest ==
    ASSUME NEW T \in SUBSET Nat, T # {}
    PROVE  \E c \in T : \A d \in T : c <= d
<1> DEFINE R == OpToRel(<, Nat)
<1>1. IsWellFoundedOn(R, Nat)
  BY NatLessThanWellFounded, Zenon
<1>2. \A c \in T, d \in T : d < c => <<d, c>> \in R
  BY SMT DEF OpToRel
<1> HIDE DEF R
<1>3. PICK c \in T : \A d \in T : ~ (<<d, c>> \in R)
  BY <1>1, WFMin
<1>4. \A d \in T : ~ (d < c)
  BY <1>2, <1>3
<1> QED
  BY <1>4

-----------------------------------------------------------------------------
\* The cell of a small request, as its two uses below need it.
LEMMA SmallCell ==
    ASSUME NEW size \in 0..LargeCutoff
    PROVE  LET cell == CellSizeFor(size)
           IN /\ cell \in Nat /\ size <= cell /\ 0 < cell /\ cell <= LargeCutoff /\ Multiple(cell)
              /\ \A d \in SizeClasses : size <= d => cell <= d
<1> DEFINE i == size_class_to_index(size)
           enough == {c \in SizeClasses : size_class_to_index(c) >= i}
           cell == CellSizeFor(size)
<1>1. size \in Nat /\ LargeCutoff \in Nat
  BY Cutoff
<1>2. /\ i \in Nat /\ size <= SizeStep * i
      /\ \A q \in Nat : size <= SizeStep * q <=> i <= q
  BY <1>1, RoundedUp
<1>3. SizeStep \in Nat \ {0} /\ BlockPayload \in Nat
  BY SizesAssumption
\* A class is long enough exactly when its index is.
<1>4. ASSUME NEW c \in SizeClasses PROVE size_class_to_index(c) >= i <=> size <= c
  <2>1. PICK q \in Nat : c = SizeStep * q
    BY ClassesFit DEF Multiple
  <2>2. c \in Nat /\ size_class_to_index(c) \in Nat /\ c <= SizeStep * size_class_to_index(c)
        /\ \A r \in Nat : c <= SizeStep * r <=> size_class_to_index(c) <= r
    BY ClassesFit, RoundedUp
  <2>3. size_class_to_index(c) <= q
    BY <2>1, <2>2
  <2>4. SizeStep * size_class_to_index(c) <= SizeStep * q
    BY <1>3, <2>2, <2>3
  <2>5. c = SizeStep * size_class_to_index(c)
    BY <1>3, <2>1, <2>2, <2>4
  <2>6. size <= SizeStep * size_class_to_index(c) <=> i <= size_class_to_index(c)
    BY <1>2, <2>2
  <2> HIDE DEF i
  <2> QED
    BY <1>2, <2>2, <2>5, <2>6
<1> HIDE DEF i
<1>5. enough \subseteq SizeClasses /\ SizeClasses \subseteq Nat
  BY ClassesFit
<1>6. /\ cell \in Nat /\ size <= cell /\ 0 < cell /\ cell <= LargeCutoff /\ Multiple(cell)
      /\ \A d \in SizeClasses : size <= d => cell <= d
  <2>1. CASE enough = {}
    <3>1. cell = SizeStep * i
      BY <2>1, <1>2, <1>3 DEF CellSizeFor, AllocatorFor, SizeClassForSizeStep, index_to_size_class, i
    <3>2. PICK q \in Nat : LargeCutoff = SizeStep * q
      BY Cutoff DEF Multiple
    <3>3. i <= q
      BY <1>1, <1>2, <3>2
    <3>4. SizeStep * i <= SizeStep * q
      BY <1>2, <1>3, <3>3
    <3>5. \A d \in SizeClasses : ~ (size <= d)
      BY <2>1, <1>4
    <3>6. HighVolume \in SizeClasses /\ HighVolume \in Nat
      BY SizesAssumption DEF SizeClasses
    <3>7. cell \in Nat /\ Multiple(cell)
      BY <1>2, <1>3, <3>1 DEF Multiple
    <3>8. 0 < size
      BY <1>1, <3>5, <3>6
    <3> QED
      BY <1>1, <1>2, <3>1, <3>2, <3>4, <3>5, <3>7, <3>8
  <2>2. CASE enough # {}
    <3>1. \E c \in enough : \A d \in enough : c <= d
      BY <2>2, <1>5, Smallest
    <3>2. cell = CHOOSE c \in enough : \A d \in enough : c <= d
      BY <2>2 DEF CellSizeFor, AllocatorFor, SizeClassForSizeStep, i
    <3>3. cell \in enough /\ \A d \in enough : cell <= d
      BY <3>1, <3>2
    <3> HIDE DEF cell
    <3>4. cell \in SizeClasses /\ size <= cell
      BY <1>4, <1>5, <3>3
    <3>5. \A d \in SizeClasses : size <= d => cell <= d
      BY <1>4, <3>3
    <3> QED
      BY <3>4, <3>5, ClassesFit
  <2> QED
    BY <2>1, <2>2
<1> QED
  BY <1>6 DEF cell

\* Every request up to LARGE_CUTOFF gets a cell that holds it, of the smallest
\* class that does (Space::allocate_small, build_size_class_table).
THEOREM SizeClassFits == \A size \in 0..LargeCutoff : Fits(size)
<1> SUFFICES ASSUME NEW size \in 0..LargeCutoff PROVE Fits(size)
  OBVIOUS
<1> DEFINE cell == CellSizeFor(size)
<1>1. /\ cell \in Nat /\ size <= cell /\ 0 < cell /\ cell <= LargeCutoff /\ Multiple(cell)
      /\ \A d \in SizeClasses : size <= d => cell <= d
  BY SmallCell
<1> HIDE DEF cell
<1>2. BlockPayload \in Nat /\ LargeCutoff \in Nat /\ 2 * LargeCutoff <= BlockPayload
  BY SizesAssumption, Cutoff
<1>3. cell * 2 <= BlockPayload
  BY <1>1, <1>2
<1>4. BlockPayload \div cell >= 2
  BY <1>1, <1>2, <1>3, DivisionLargest, Division
<1>5. cell % SizeStep = 0
  BY <1>1, MultipleOfStep
<1> QED
  BY <1>1, <1>4, <1>5 DEF Fits, cell

\* The cells of the segregated space, in granules of SIZE_STEP bytes, are at
\* least one granule and no larger than a block: what SegregatedSpace assumes
\* of CellSize.
THEOREM CellsInGranules ==
    \A size \in 0..LargeCutoff :
        CellSizeFor(size) \div SizeStep \in 1..(BlockPayload \div SizeStep)
<1> SUFFICES ASSUME NEW size \in 0..LargeCutoff
             PROVE  CellSizeFor(size) \div SizeStep \in 1..(BlockPayload \div SizeStep)
  OBVIOUS
<1> DEFINE cell == CellSizeFor(size)
<1>1. SizeStep \in Nat \ {0} /\ BlockPayload \in Nat /\ LargeCutoff \in Nat /\ 2 * LargeCutoff <= BlockPayload
  BY SizesAssumption, Cutoff
<1>2. cell \in Nat /\ 0 < cell /\ cell <= LargeCutoff /\ Multiple(cell)
  BY SmallCell
<1> HIDE DEF cell
<1>4. PICK q \in Nat : cell = SizeStep * q
  BY <1>2 DEF Multiple
<1>5. cell \div SizeStep = q
  BY <1>1, <1>4, DivisionExact
<1>6. 1 <= q
  BY <1>1, <1>2, <1>4
<1>7. SizeStep * q <= BlockPayload
  BY <1>1, <1>2, <1>4
<1>8. q <= BlockPayload \div SizeStep
  BY <1>1, <1>7, DivisionLargest
<1> QED
  BY <1>5, <1>6, <1>8, <1>1, Division DEF cell

-----------------------------------------------------------------------------
\* Precise allocations.

LEMMA Halves ==
    /\ Half \in Nat \ {0} /\ SizeStep = 2 * Half /\ SizeStep \in Nat \ {0}
    /\ StructSize \in Nat
BY SizesAssumption, LayoutAssumption

\* What Half divides, with the quotient.
LEMMA HalfDivides ==
    ASSUME NEW x \in Nat, x % Half = 0
    PROVE  x \div Half \in Nat /\ x = Half * (x \div Half)
<1>1. x = Half * (x \div Half) + (x % Half) /\ x \div Half \in Nat
  BY Halves
<1> QED
  BY <1>1, Halves

\* The header takes an odd number of halves and holds the struct.
LEMMA HeaderSize ==
    /\ header_size \in Nat /\ StructSize <= header_size
    /\ \E k \in Nat : header_size = Half * (2 * k + 1)
<1> DEFINE q == (StructSize + Half - 1) \div Half
           size == RoundUpTo(StructSize, Half)
<1>0. StructSize + Half - 1 \in Nat
  BY Halves
<1>1. q \in Nat /\ StructSize + Half - 1 < Half * q + Half
  BY <1>0, Halves, Division
<1>2. size = q * Half
  BY DEF RoundUpTo
<1> HIDE DEF q, size
<1>3. q * Half = Half * q /\ Half * q \in Nat
  BY <1>1, Halves
<1>4. size \in Nat /\ StructSize <= size
  BY <1>1, <1>2, <1>3, Halves
<1>5. size \div Half = q
  BY <1>1, <1>2, <1>3, Halves, DivisionExact
<1>6. header_size = IF q % 2 = 1 THEN size ELSE size + Half
  BY <1>5 DEF header_size, size
<1>7. CASE q % 2 = 1
  <2>1. q \div 2 \in Nat /\ q = 2 * (q \div 2) + 1
    BY <1>1, <1>7
  <2>2. header_size = Half * (2 * (q \div 2) + 1)
    BY <1>2, <1>3, <1>6, <1>7, <2>1
  <2> QED
    BY <1>4, <1>6, <1>7, <2>1, <2>2
<1>8. CASE q % 2 # 1
  <2>1. q \div 2 \in Nat /\ q = 2 * (q \div 2)
    BY <1>1, <1>8
  <2> DEFINE k == q \div 2
  <2>2. header_size = Half * q + Half
    BY <1>2, <1>3, <1>6, <1>8
  <2>3. k \in Nat /\ q = 2 * k
    BY <2>1
  <2> HIDE DEF k
  <2>4. Half * q + Half = Half * (2 * k + 1)
    BY <2>3, Halves
  <2> QED
    BY <1>4, <1>6, <1>8, <2>2, <2>3, <2>4, Halves
<1> QED
  BY <1>7, <1>8

\* The header of an allocation is aligned: the assertion of try_create.
LEMMA HeaderAligned ==
    ASSUME NEW base \in Nat, base % Half = 0
    PROVE  /\ HeaderAt(base) \in Nat /\ base <= HeaderAt(base) /\ HeaderAt(base) <= base + Half
           /\ Multiple(HeaderAt(base))
<1> DEFINE q == base \div Half
<1>1. q \in Nat /\ base = Half * q
  BY HalfDivides
<1> HIDE DEF q
<1>2. CASE is_aligned_for_precise_allocation(base)
  <2>1. HeaderAt(base) = base /\ base % SizeStep = 0
    BY <1>2 DEF HeaderAt, adjusted_alignment, is_aligned_for_precise_allocation
  <2> QED
    BY <2>1, MultipleOfStep, Halves
<1>3. CASE ~is_aligned_for_precise_allocation(base)
  <2>1. HeaderAt(base) = base + Half
    BY <1>3 DEF HeaderAt, adjusted_alignment
  <2>2. ~ Multiple(base)
    BY <1>3, MultipleOfStep DEF is_aligned_for_precise_allocation
  <2> DEFINE k == q \div 2
  <2>3. k \in Nat /\ (q = 2 * k \/ q = 2 * k + 1)
    BY <1>1
  <2> HIDE DEF k
  <2>4. q # 2 * k
    <3>1. SUFFICES ASSUME q = 2 * k PROVE FALSE
      OBVIOUS
    <3>2. base = SizeStep * k
      BY <1>1, <2>3, <3>1, Halves
    <3> QED
      BY <2>2, <2>3, <3>2 DEF Multiple
  <2>5. base + Half = SizeStep * (k + 1)
    BY <1>1, <2>3, <2>4, Halves
  <2>6. k + 1 \in Nat
    BY <2>3
  <2>7. Multiple(HeaderAt(base))
    BY <2>1, <2>5, <2>6 DEF Multiple
  <2> QED
    BY <2>1, <2>7, Halves
<1> QED
  BY <1>2, <1>3

\* PreciseAllocation::try_create, cell, from_cell and base_pointer: a large
\* cell leads back to its header and to the pointer that malloc gave, and both
\* fit into what was asked of malloc.
THEOREM PreciseAllocationFits ==
    \A base, size \in Nat : base % Half = 0 => PreciseFits(base, size)
<1> SUFFICES ASSUME NEW base \in Nat, NEW size \in Nat, base % Half = 0
             PROVE  PreciseFits(base, size)
  OBVIOUS
<1> DEFINE header == HeaderAt(base)
           cell == PreciseCell(header)
<1>1. header \in Nat /\ base <= header /\ header <= base + Half /\ Multiple(header)
  BY HeaderAligned
<1>2. header_size \in Nat /\ StructSize <= header_size
  BY HeaderSize
<1>3. is_aligned_for_precise_allocation(header)
  BY <1>1, MultipleOfStep DEF is_aligned_for_precise_allocation
<1>4. base_pointer(header, adjusted_alignment(base)) = base
  BY Halves DEF base_pointer, HeaderAt
<1>5. cell = header + header_size
  BY DEF PreciseCell
<1>6. cell % Half = 0
  <2>1. PICK k \in Nat : header_size = Half * (2 * k + 1)
    BY HeaderSize
  <2>2. PICK m \in Nat : header = SizeStep * m
    BY <1>1 DEF Multiple
  <2>3. cell = Half * (2 * m + 2 * k + 1)
    BY <1>5, <2>1, <2>2, Halves
  <2> DEFINE n == 2 * m + 2 * k + 1
  <2>4. n \in Nat /\ cell = Half * n
    BY <2>3
  <2> HIDE DEF n, cell
  <2>5. cell \in Nat /\ cell \div Half = n
    BY <2>4, Halves, DivisionExact
  <2>6. cell = Half * (cell \div Half) + (cell % Half) /\ cell % Half \in 0..(Half - 1)
    BY <2>5, Halves
  <2> QED
    BY <2>4, <2>5, <2>6, Halves
<1> HIDE DEF header, cell
<1>7. from_cell(cell) = header
  BY <1>1, <1>2, <1>5 DEF from_cell
<1>8. header + StructSize <= cell
  BY <1>1, <1>2, <1>5, Halves
<1>9. cell + size <= base + AllocationSize(size)
  BY <1>1, <1>2, <1>5, Halves DEF AllocationSize
<1> QED
  BY <1>1, <1>3, <1>4, <1>6, <1>7, <1>8, <1>9 DEF PreciseFits, header, cell

-----------------------------------------------------------------------------
\* Cells of the segregated space.

LEMMA Layout ==
    /\ {Word, BitsPerWord, BlockBytes, DataStart, HeapStart, HeapSize} \subseteq Nat
    /\ BitsPerWord > 0 /\ BlockBytes > 0 /\ DataStart <= BlockBytes
BY LayoutAssumption

LEMMA Distributes ==
    \A d, x, y \in Nat : d * x - d * y = d * (x - y)
OBVIOUS

LEMMA PerWordType == PerWord \in Nat \ {0}
<1>1. \A d, e \in Nat \ {0} : d * e \in Nat \ {0}
  OBVIOUS
<1> QED
  BY <1>1, Layout, Halves DEF PerWord

\* The part of n that is left over by d.
LEMMA Remainder ==
    ASSUME NEW n \in Nat, NEW d \in Nat \ {0}
    PROVE  n % d \in 0..(d - 1) /\ n - (n % d) = d * (n \div d) /\ n \div d \in Nat
OBVIOUS

\* The start of the heap is a multiple of a granule.
LEMMA HeapStartAligned == \E n \in Nat : HeapStart = SizeStep * n
<1> DEFINE w == 2 * BitsPerWord
           h == HeapStart \div (2 * PerWord)
<1>1. 2 * PerWord \in Nat \ {0} /\ w \in Nat /\ BitsPerWord \in Nat /\ HeapStart \in Nat
  BY Layout, PerWordType
<1>2. 2 * PerWord = SizeStep * w
  BY <1>1, Halves DEF PerWord
<1>3. HeapStart - 0 = (2 * PerWord) * h /\ h \in Nat
  BY <1>1, LayoutAssumption, Remainder
<1> HIDE DEF w, h
<1>4. HeapStart = SizeStep * (w * h) /\ w * h \in Nat
  BY <1>1, <1>2, <1>3, Halves
<1> QED
  BY <1>4

\* The first block starts at a multiple of BLOCK_SIZE, behind the start of the heap.
LEMMA Start ==
    /\ AlignedStart \in Nat /\ HeapStart <= AlignedStart
    /\ \E q \in Nat : AlignedStart = BlockBytes * q
    /\ Multiple(AlignedStart - HeapStart)
<1> DEFINE q == HeapStart \div BlockBytes
           r == HeapStart % BlockBytes
<1>1. HeapStart \in Nat /\ BlockBytes \in Nat \ {0}
  BY Layout
<1>2. r \in 0..(BlockBytes - 1) /\ HeapStart - r = BlockBytes * q /\ q \in Nat
  BY <1>1, Remainder
<1>3. AlignedStart = HeapStart + (BlockBytes - r)
  BY DEF AlignedStart
<1> HIDE DEF q, r
<1>4. AlignedStart = BlockBytes * q + BlockBytes
  BY <1>1, <1>2, <1>3
<1>5. AlignedStart = BlockBytes * (q + 1) /\ q + 1 \in Nat
  BY <1>1, <1>2, <1>4
<1>6. Multiple(AlignedStart - HeapStart)
  <2>1. PICK m \in Nat : BlockBytes = SizeStep * m
    BY <1>1, LayoutAssumption, MultipleOfStep DEF Multiple
  <2>2. PICK n \in Nat : HeapStart = SizeStep * n
    BY HeapStartAligned
  <2>3. AlignedStart - HeapStart \in Nat
    BY <1>1, <1>2, <1>3
  <2>4. AlignedStart = SizeStep * (m * (q + 1))
    BY <1>2, <1>5, <2>1, Halves
  <2> DEFINE k == m * (q + 1)
  <2>5. k \in Nat
    BY <1>2
  <2> HIDE DEF k
  <2>6. AlignedStart - HeapStart = SizeStep * (k - n)
    BY <2>2, <2>4, <2>5, Halves DEF k
  <2>7. k - n \in Nat
    <3>1. SizeStep * n <= SizeStep * k
      BY <2>2, <2>3, <2>4, <2>5, Halves, <1>1 DEF k
    <3>2. SizeStep * n < SizeStep * (k + 1)
      BY <3>1, <2>5, Halves
    <3>3. n < k + 1
      BY <3>2, <2>5, Halves, Cancel
    <3> QED
      BY <3>3, <2>5
  <2> QED
    BY <2>6, <2>7 DEF Multiple
<1> QED
  BY <1>1, <1>2, <1>3, <1>5, <1>6

\* The granules of a block, and how far the cell at a place lies in its block.
LEMMA InBlock ==
    ASSUME NEW a \in CellPlaces
    PROVE  /\ a[1] \in 1..TotalBlocks /\ a[2] \in Nat /\ TotalBlocks \in Nat
           /\ DataStart + a[2] * SizeStep \in Nat
           /\ DataStart + a[2] * SizeStep + SizeStep <= BlockBytes
<1> DEFINE room == BlockBytes - DataStart
           g == room \div SizeStep
<1>1. room \in Nat
  BY Layout
<1>2. g \in Nat /\ SizeStep * g <= room
  BY <1>1, Halves, Division
<1>3. a[1] \in 1..TotalBlocks /\ a[2] \in 0..(g - 1)
  BY DEF CellPlaces, BlockGranules
<1> HIDE DEF g
<1>4. SizeStep * (a[2] + 1) <= SizeStep * g
  BY <1>2, <1>3, Halves
<1>5. a[2] * SizeStep \in Nat /\ a[2] * SizeStep + SizeStep = SizeStep * (a[2] + 1)
  BY <1>2, <1>3, Halves
<1>6. a[2] * SizeStep + SizeStep <= room
  BY <1>1, <1>2, <1>3, <1>4, <1>5, Halves
<1>7. TotalBlocks \in Nat
  <2>1. HeapStart \in Nat /\ HeapSize \in Nat /\ AlignedStart \in Nat /\ BlockBytes \in Nat \ {0}
    BY Start, Layout
  <2>2. CASE AlignedStart > DataBound
    BY <2>2 DEF TotalBlocks
  <2>3. CASE ~(AlignedStart > DataBound)
    <3>1. DataBound - AlignedStart \in Nat
      BY <2>1, <2>3 DEF DataBound
    <3>2. (DataBound - AlignedStart) \div BlockBytes \in Nat
      BY <2>1, <3>1, Division
    <3> QED
      BY <2>3, <3>2 DEF TotalBlocks
  <2> QED
    BY <2>2, <2>3
<1>8. a[2] \in Nat
  BY <1>2, <1>3
<1> DEFINE n == a[2] * SizeStep
<1>9. n \in Nat /\ n + SizeStep <= room
  BY <1>5, <1>6
<1> HIDE DEF n
<1>10. DataStart + n \in Nat /\ DataStart + n + SizeStep <= BlockBytes
  BY <1>9, Layout, Halves
<1> QED
  BY <1>3, <1>7, <1>8, <1>10 DEF n

\* Blocks lie one behind the other, up to the bound of the heap.
LEMMA BlocksInHeap ==
    ASSUME NEW b \in 1..TotalBlocks, TotalBlocks \in Nat
    PROVE  /\ BlockAt(b) \in Nat /\ AlignedStart <= BlockAt(b)
           /\ BlockAt(b) + BlockBytes <= DataBound
           /\ \A c \in 1..TotalBlocks : b < c => BlockAt(b) + BlockBytes <= BlockAt(c)
<1> DEFINE room == DataBound - AlignedStart
           t == room \div BlockBytes
<1>1. HeapStart \in Nat /\ HeapSize \in Nat /\ AlignedStart \in Nat /\ BlockBytes \in Nat \ {0}
  BY Start, Layout
<1>2. AlignedStart <= DataBound /\ TotalBlocks = t
  <2>1. TotalBlocks # 0
    OBVIOUS
  <2> QED
    BY <1>1, <2>1 DEF TotalBlocks, DataBound
<1>3. room \in Nat
  BY <1>1, <1>2 DEF DataBound
<1>4. t \in Nat /\ BlockBytes * t <= room
  BY <1>1, <1>3, Division
<1>5. b \in 1..t
  BY <1>2
<1> HIDE DEF t
<1>6. BlockBytes * b <= BlockBytes * t
  BY <1>1, <1>4, <1>5
<1>7. (b - 1) * BlockBytes \in Nat /\ (b - 1) * BlockBytes + BlockBytes = BlockBytes * b
  BY <1>1, <1>4, <1>5
<1>8. BlockAt(b) = AlignedStart + (b - 1) * BlockBytes
  BY DEF BlockAt
<1>9. BlockBytes * b \in Nat /\ BlockBytes * t \in Nat
  BY <1>1, <1>4, <1>5
<1>10. BlockAt(b) + BlockBytes <= DataBound
  BY <1>1, <1>3, <1>4, <1>6, <1>7, <1>8, <1>9 DEF DataBound
<1>11. ASSUME NEW c \in 1..TotalBlocks, b < c
       PROVE  BlockAt(b) + BlockBytes <= BlockAt(c)
  <2>1. BlockBytes * b <= BlockBytes * (c - 1)
    BY <1>1, <1>5, <1>11
  <2>2. BlockAt(c) = AlignedStart + (c - 1) * BlockBytes
    BY DEF BlockAt
  <2>3. (c - 1) * BlockBytes = BlockBytes * (c - 1) /\ BlockBytes * (c - 1) \in Nat
    BY <1>1, <1>5, <1>11
  <2> QED
    BY <1>1, <1>7, <1>8, <1>9, <2>1, <2>2, <2>3
<1> QED
  BY <1>1, <1>7, <1>8, <1>10, <1>11

\* A cell starts in the middle of a granule of the heap.
LEMMA CellInGranule ==
    ASSUME NEW a \in CellPlaces
    PROVE  /\ AddressOf(a) \in Nat /\ HeapStart <= AddressOf(a)
           /\ BlockAt(a[1]) + DataStart <= AddressOf(a)
           /\ AddressOf(a) + SizeStep <= BlockAt(a[1]) + BlockBytes
           /\ AddressOf(a) + SizeStep <= DataBound
           /\ \E m \in Nat : AddressOf(a) - HeapStart = SizeStep * m + Half
<1> DEFINE b == a[1]
           n == a[2] * SizeStep
<1>1. b \in 1..TotalBlocks /\ a[2] \in Nat /\ TotalBlocks \in Nat
      /\ DataStart + n \in Nat /\ DataStart + n + SizeStep <= BlockBytes
  BY InBlock
<1>2. BlockAt(b) \in Nat /\ AlignedStart <= BlockAt(b) /\ BlockAt(b) + BlockBytes <= DataBound
  BY <1>1, BlocksInHeap
<1>3. AlignedStart \in Nat /\ HeapStart <= AlignedStart /\ HeapStart \in Nat
      /\ BlockBytes \in Nat /\ DataStart \in Nat /\ HeapSize \in Nat
  BY Start, Layout
<1>4. AddressOf(a) = BlockAt(b) + DataStart + n
  BY DEF AddressOf
<1>5. \E m \in Nat : AddressOf(a) - HeapStart = SizeStep * m + Half
  <2>1. PICK s \in Nat : AlignedStart - HeapStart = SizeStep * s
    BY Start DEF Multiple
  <2>2. PICK k \in Nat : BlockBytes = SizeStep * k
    BY <1>3, LayoutAssumption, MultipleOfStep DEF Multiple
  <2> DEFINE d == DataStart \div SizeStep
  <2>3. d \in Nat /\ DataStart - Half = SizeStep * d
    BY <1>3, LayoutAssumption, Halves, Remainder
  <2> HIDE DEF d
  <2>4. BlockAt(b) - AlignedStart = SizeStep * ((b - 1) * k)
    <3>1. BlockAt(b) - AlignedStart = (b - 1) * BlockBytes
      BY <1>1, <1>3 DEF BlockAt
    <3> QED
      BY <1>1, <2>2, <3>1, Halves
  <2> DEFINE j == (b - 1) * k
  <2>5. j \in Nat
    BY <1>1, <2>2
  <2> HIDE DEF j
  <2>6. n = SizeStep * a[2]
    BY <1>1, Halves
  <2>7. SizeStep * (s + j + d + a[2]) = SizeStep * s + SizeStep * j + SizeStep * d + SizeStep * a[2]
    BY <1>1, <2>1, <2>3, <2>5, Halves
  <2>8. {SizeStep * s, SizeStep * j, SizeStep * d, SizeStep * a[2]} \subseteq Nat
    BY <1>1, <2>1, <2>3, <2>5, Halves
  <2> HIDE DEF n
  <2>9. AddressOf(a) - HeapStart = SizeStep * (s + j + d + a[2]) + Half
    BY <1>2, <1>3, <1>4, <2>1, <2>3, <2>4, <2>6, <2>7, <2>8, Halves DEF j
  <2>10. s + j + d + a[2] \in Nat
    BY <1>1, <2>1, <2>3, <2>5
  <2> QED
    BY <2>9, <2>10
<1>6. n \in Nat
  BY <1>1, Halves
<1> HIDE DEF n
<1>7. AddressOf(a) \in Nat /\ HeapStart <= AddressOf(a) /\ BlockAt(b) + DataStart <= AddressOf(a)
  BY <1>1, <1>2, <1>3, <1>4, <1>6
<1>8. AddressOf(a) + SizeStep <= BlockAt(b) + BlockBytes
  BY <1>1, <1>2, <1>3, <1>4, <1>6, Halves
<1>9. AddressOf(a) + SizeStep <= DataBound
  BY <1>2, <1>3, <1>7, <1>8, Halves DEF DataBound
<1> QED
  BY <1>5, <1>7, <1>8, <1>9

\* Different places are different addresses.
LEMMA PlacesApart ==
    ASSUME NEW a \in CellPlaces, NEW b \in CellPlaces, AddressOf(a) = AddressOf(b)
    PROVE  a = b
<1>1. /\ a[1] \in 1..TotalBlocks /\ b[1] \in 1..TotalBlocks /\ TotalBlocks \in Nat
      /\ a[2] \in Nat /\ b[2] \in Nat
      /\ a = <<a[1], a[2]>> /\ b = <<b[1], b[2]>>
  BY InBlock DEF CellPlaces
<1>2. ASSUME NEW x \in CellPlaces, NEW y \in CellPlaces, x[1] < y[1] PROVE AddressOf(x) < AddressOf(y)
  <2>1. x[1] \in 1..TotalBlocks /\ y[1] \in 1..TotalBlocks
    BY InBlock
  <2>2. BlockAt(x[1]) + BlockBytes <= BlockAt(y[1]) /\ BlockAt(x[1]) \in Nat /\ BlockAt(y[1]) \in Nat
    BY <1>1, <1>2, <2>1, BlocksInHeap
  <2>3. AddressOf(x) + SizeStep <= BlockAt(x[1]) + BlockBytes /\ BlockAt(y[1]) + DataStart <= AddressOf(y)
        /\ AddressOf(x) \in Nat /\ AddressOf(y) \in Nat
    BY CellInGranule
  <2> QED
    BY <2>2, <2>3, Halves, Layout
<1>3. a[1] = b[1]
  <2>1. AddressOf(a) \in Nat /\ AddressOf(b) \in Nat
    BY CellInGranule
  <2>2. ~(a[1] < b[1]) /\ ~(b[1] < a[1])
    BY <1>2, <2>1
  <2> QED
    BY <1>1, <2>2
<1>4. a[2] = b[2]
  <2> DEFINE base == BlockAt(a[1]) + DataStart
             x == a[2] * SizeStep
             y == b[2] * SizeStep
  <2>1. base \in Nat
    BY <1>1, BlocksInHeap, Layout
  <2>2. AddressOf(a) = base + x /\ AddressOf(b) = base + y
    BY <1>3 DEF AddressOf
  <2>3. x = SizeStep * a[2] /\ y = SizeStep * b[2] /\ x \in Nat /\ y \in Nat
    BY <1>1, Halves
  <2> HIDE DEF base, x, y
  <2>4. SizeStep * a[2] = SizeStep * b[2]
    <3>1. base + x = base + y
      BY <2>2
    <3>2. x \in Int /\ y \in Int /\ base \in Int
      BY <2>1, <2>3
    <3>3. x = y
      BY <3>1, <3>2
    <3> QED
      BY <2>3, <3>3
  <2>5. (SizeStep * a[2]) \div SizeStep = a[2] /\ (SizeStep * b[2]) \div SizeStep = b[2]
    BY <1>1, Halves, DivisionExact
  <2> QED
    BY <2>4, <2>5
<1> QED
  BY <1>1, <1>3, <1>4

-----------------------------------------------------------------------------
\* The bits of the bitmaps.

\* A quotient from its bounds.
LEMMA QuotientOf ==
    ASSUME NEW x \in Nat, NEW u \in Nat \ {0}, NEW m \in Nat, u * m <= x, x < u * m + u
    PROVE  x \div u = m
<1> DEFINE n == x \div u
<1>1. n \in Nat /\ u * n <= x /\ x < u * n + u
  BY Division
<1>2. m <= n
  BY DivisionLargest
<1> HIDE DEF n
<1>3. u * n < u * (m + 1)
  <2>1. u * (m + 1) = u * m + u /\ u * m \in Nat /\ u * n \in Nat
    BY <1>1
  <2> QED
    BY <1>1, <2>1
<1>4. n < m + 1
  BY <1>1, <1>3, Cancel
<1> QED
  BY <1>1, <1>2, <1>4 DEF n

\* The words of a bitmap: as many as cover the heap when that number is even,
\* else one less.
LEMMA BitmapSize ==
    \E q \in Nat : /\ HeapSize <= PerWord * q
                   /\ BitmapWords = q - (q % 2)
<1> DEFINE u == PerWord
           x == HeapSize + u - 1
           q == x \div u
<1>1. HeapSize \in Nat /\ BitsPerWord \in Nat \ {0}
  BY Layout
<1>2. u \in Nat \ {0}
  BY PerWordType
<1>3. BitmapWords = round_down(x, u) \div u
  BY DEF BitmapWords, round_up
<1> HIDE DEF u
<1>4. x \in Nat
  BY <1>1, <1>2
<1> DEFINE top == u * q
<1>5. q \in Nat /\ top <= x /\ x < top + u /\ top \in Nat
  <2>1. q \in Nat /\ u * q <= x /\ x < u * q + u
    BY <1>2, <1>4, Division
  <2> HIDE DEF q, x
  <2>2. u * q \in Nat
    BY <1>2, <2>1
  <2> QED
    BY <2>1, <2>2
<1>6. HeapSize <= top
  BY <1>1, <1>2, <1>5
<1>7. round_down(x, u) = IF q % 2 = 1 THEN x - u ELSE x
  BY DEF round_down
<1> HIDE DEF q, x
<1>8. q % 2 \in {0, 1}
  BY <1>5
<1>9. CASE q % 2 = 0
  <2>1. BitmapWords = x \div u
    BY <1>3, <1>7, <1>9
  <2> QED
    BY <1>5, <1>6, <1>9, <2>1 DEF q, u
<1>10. CASE q % 2 = 1
  <2>1. q # 0 /\ q - 1 \in Nat
    BY <1>5, <1>10
  <2>2. top = u * (q - 1) + u /\ u * (q - 1) \in Nat
    BY <1>2, <1>5, <2>1
  <2>3. x - u \in Nat /\ u * (q - 1) <= x - u /\ x - u < u * (q - 1) + u
    BY <1>2, <1>4, <1>5, <2>2
  <2>4. (x - u) \div u = q - 1
    BY <1>2, <2>1, <2>3, QuotientOf
  <2>5. BitmapWords = q - 1
    BY <1>3, <1>7, <1>10, <2>4
  <2> QED
    BY <1>5, <1>6, <1>10, <2>5 DEF u
<1> QED
  BY <1>8, <1>9, <1>10

\* The bytes that the bitmap covers.
LEMMA Coverage ==
    /\ BitmapWords \in Nat /\ Covered \in Nat
    /\ Covered = (SizeStep * BitsPerWord) * BitmapWords
<1>1. PICK q \in Nat : HeapSize <= PerWord * q /\ BitmapWords = q - (q % 2)
  BY BitmapSize
<1>2. q % 2 \in {0, 1} /\ q % 2 <= q
  OBVIOUS
<1>3. BitmapWords \in Nat
  BY <1>1, <1>2
<1>4. PerWord \in Nat /\ PerWord = SizeStep * BitsPerWord
  BY Layout, Halves DEF PerWord
<1>5. Covered = PerWord * BitmapWords /\ PerWord * BitmapWords \in Nat
  BY <1>3, <1>4 DEF Covered
<1> QED
  BY <1>3, <1>4, <1>5

\* No block is touched by the missing word: blocks start and end at an even
\* number of words, counted from the start of the heap.
LEMMA BlocksCovered ==
    ASSUME NEW b \in 1..TotalBlocks, TotalBlocks \in Nat
    PROVE  BlockAt(b) + BlockBytes <= HeapStart + Covered
<1> DEFINE u == PerWord
           v == 2 * u
           e == (BlockAt(b) + BlockBytes) - HeapStart
<1>1. HeapStart \in Nat /\ HeapSize \in Nat /\ BlockBytes \in Nat \ {0} /\ BitsPerWord \in Nat \ {0}
  BY Layout
<1>2. u \in Nat \ {0}
  BY PerWordType
<1>3. HeapStart % v = 0 /\ BlockBytes % v = 0
  BY LayoutAssumption
<1> HIDE DEF u
<1>4. v \in Nat \ {0}
  BY <1>2
<1> HIDE DEF v
<1>5. PICK h \in Nat : HeapStart = v * h
  <2>1. HeapStart - 0 = v * (HeapStart \div v) /\ HeapStart \div v \in Nat
    BY <1>1, <1>3, <1>4, Remainder
  <2> QED
    BY <1>1, <2>1
<1>6. PICK k \in Nat : BlockBytes = v * k
  <2>1. BlockBytes - 0 = v * (BlockBytes \div v) /\ BlockBytes \div v \in Nat
    BY <1>1, <1>3, <1>4, Remainder
  <2> QED
    BY <1>1, <2>1
<1>7. PICK s \in Nat : AlignedStart = BlockBytes * s
  BY Start
<1> DEFINE n == k * (s + b)
<1>8. b \in Nat /\ n \in Nat
  BY <1>6, <1>7
<1>9. BlockAt(b) + BlockBytes = v * n
  <2>1. BlockAt(b) = BlockBytes * s + (b - 1) * BlockBytes
    BY <1>7 DEF BlockAt
  <2>2. BlockAt(b) + BlockBytes = BlockBytes * (s + b)
    BY <1>1, <1>7, <1>8, <2>1
  <2>3. (v * k) * (s + b) = v * (k * (s + b))
    BY <1>4, <1>6, <1>7, <1>8
  <2> QED
    BY <1>6, <2>2, <2>3
<1> HIDE DEF n
<1>10. BlockAt(b) \in Nat /\ AlignedStart <= BlockAt(b) /\ BlockAt(b) + BlockBytes <= DataBound
  BY BlocksInHeap
<1>11. HeapStart <= AlignedStart /\ AlignedStart \in Nat
  BY Start
<1>12. v * h <= v * n /\ v * n \in Nat /\ v * h \in Nat
  BY <1>1, <1>5, <1>9, <1>10, <1>11
<1>13. n - h \in Nat
  <2>1. v * h < v * (n + 1)
    BY <1>4, <1>8, <1>12
  <2>2. h < n + 1
    BY <1>4, <1>5, <1>8, <2>1, Cancel
  <2> QED
    BY <1>5, <1>8, <2>2
<1> DEFINE j == n - h
<1>14. e = v * j /\ e \in Nat /\ e <= HeapSize
  <2>1. e = v * n - v * h
    BY <1>5, <1>9, Zenon
  <2>2. v * n - v * h = v * (n - h)
    <3>1. \A x, y \in Nat : v * x - v * y = v * (x - y)
      BY <1>4, Distributes
    <3> QED
      BY <1>5, <1>8, <3>1, Zenon
  <2>3. e \in Nat /\ e <= HeapSize
    BY <1>1, <1>10, <1>11 DEF DataBound
  <2> QED
    BY <2>1, <2>2, <2>3
<1>15. j \in Nat
  BY <1>13
<1> HIDE DEF e, j
<1>16. e = u * (2 * j)
  BY <1>2, <1>14, <1>15 DEF v
<1>17. PICK q \in Nat : HeapSize <= u * q /\ BitmapWords = q - (q % 2)
  BY BitmapSize DEF u
<1>18. 2 * j <= q
  <2>1. u * (2 * j) <= u * q
    BY <1>1, <1>2, <1>14, <1>16, <1>17
  <2>2. u * (2 * j) < u * (q + 1)
    BY <1>2, <1>15, <1>17, <2>1
  <2>3. 2 * j < q + 1
    BY <1>2, <1>15, <1>17, <2>2, Cancel
  <2> QED
    BY <1>15, <1>17, <2>3
<1>19. 2 * j <= BitmapWords /\ BitmapWords \in Nat
  BY <1>15, <1>17, <1>18
<1>20. u * (2 * j) <= u * BitmapWords
  BY <1>2, <1>15, <1>19
<1>21. e <= Covered /\ Covered \in Nat
  BY <1>16, <1>20, Coverage DEF Covered, u
<1> QED
  BY <1>1, <1>10, <1>14, <1>21 DEF e

\* So every cell has its bit, though not every byte of the heap.
LEMMA CellCovered ==
    ASSUME NEW a \in CellPlaces
    PROVE  AddressOf(a) + SizeStep <= HeapStart + Covered
<1>1. AddressOf(a) + SizeStep <= BlockAt(a[1]) + BlockBytes /\ AddressOf(a) \in Nat
  BY CellInGranule
<1>2. a[1] \in 1..TotalBlocks /\ TotalBlocks \in Nat
  BY InBlock
<1>3. BlockAt(a[1]) + BlockBytes <= HeapStart + Covered /\ BlockAt(a[1]) \in Nat
  BY <1>2, BlocksCovered, BlocksInHeap
<1> QED
  BY <1>1, <1>3, Halves, Layout, Coverage

\* The granule of an offset.
LEMMA GranuleNumber ==
    ASSUME NEW o \in Nat, NEW m \in Nat
    PROVE  o \div SizeStep = m <=> SizeStep * m <= o /\ o < SizeStep * m + SizeStep
<1> DEFINE n == o \div SizeStep
<1>1. n \in Nat /\ SizeStep * n <= o /\ o < SizeStep * n + SizeStep
  BY Halves, Division
<1>2. SizeStep * m <= o => m <= n
  BY Halves, DivisionLargest
<1> HIDE DEF n
<1>3. ASSUME o < SizeStep * m + SizeStep PROVE n <= m
  <2>1. SizeStep * n \in Nat /\ SizeStep * (m + 1) = SizeStep * m + SizeStep
    BY <1>1, Halves
  <2>2. SizeStep * n < SizeStep * (m + 1)
    BY <1>1, <1>3, <2>1, Halves
  <2>3. n < m + 1
    BY <1>1, <2>2, Halves, Cancel
  <2> QED
    BY <1>1, <2>3
<1>4. n = m <=> SizeStep * m <= o /\ o < SizeStep * m + SizeStep
  BY <1>1, <1>2, <1>3
<1> QED
  BY <1>4 DEF n

\* has_address: the addresses that the bitmap covers, although the subtraction
\* wraps for those before the heap.
THEOREM HeapAddresses ==
    \A p \in 0..(Word - 1) :
        /\ has_address(p) <=> HeapStart <= p /\ p < HeapStart + Covered
        /\ HeapStart <= p => OffsetOf(p) = p - HeapStart
<1> SUFFICES ASSUME NEW p \in 0..(Word - 1)
             PROVE  /\ has_address(p) <=> HeapStart <= p /\ p < HeapStart + Covered
                    /\ HeapStart <= p => OffsetOf(p) = p - HeapStart
  OBVIOUS
<1> DEFINE u == SizeStep * BitsPerWord
           o == OffsetOf(p)
<1>1. Word \in Nat /\ HeapStart \in Nat /\ BitsPerWord \in Nat \ {0} /\ p \in Nat /\ p < Word
      /\ HeapStart + Covered <= Word /\ Covered \in Nat
  BY Layout, LayoutAssumption, Coverage
<1>2. CASE HeapStart <= p
  <2>1. p - HeapStart \in 0..(Word - 1)
    BY <1>1, <1>2
  <2>2. OffsetOf(p) = p - HeapStart
    BY <1>1, <2>1 DEF OffsetOf
  <2> QED
    <3>1. o \in Nat
      BY <1>1, <2>1, <2>2
    <3>2. has_address(p) <=> o < Covered
      <4> DEFINE g == o \div SizeStep
                 w == g \div BitsPerWord
      <4>1. g \in Nat /\ SizeStep * g <= o /\ o < SizeStep * g + SizeStep
        BY <3>1, Halves, Division
      <4>2. w \in Nat /\ BitsPerWord * w <= g /\ g < BitsPerWord * w + BitsPerWord
        BY <1>1, <4>1, Division
      <4>3. has_address(p) <=> w < BitmapWords
        BY DEF has_address, offset_to_index
      <4> HIDE DEF g, w, o
      <4>4. ASSUME w < BitmapWords PROVE o < Covered
        <5>1. BitsPerWord * (w + 1) <= BitsPerWord * BitmapWords
          BY <1>1, <4>2, <4>4, Coverage
        <5>2. BitsPerWord * (w + 1) = BitsPerWord * w + BitsPerWord /\ BitsPerWord * w \in Nat
              /\ BitsPerWord * BitmapWords \in Nat
          BY <1>1, <4>2, Coverage
        <5>3. g + 1 <= BitsPerWord * BitmapWords
          BY <1>1, <4>1, <4>2, <5>1, <5>2
        <5> DEFINE all == BitsPerWord * BitmapWords
        <5>4. all \in Nat /\ g + 1 <= all
          BY <5>2, <5>3
        <5>5. Covered = SizeStep * all
          BY <1>1, Coverage, Halves
        <5> HIDE DEF all
        <5>6. SizeStep * (g + 1) <= SizeStep * all
          BY <4>1, <5>4, Halves
        <5>7. SizeStep * (g + 1) = SizeStep * g + SizeStep /\ SizeStep * g \in Nat
          BY <4>1, Halves
        <5> QED
          BY <3>1, <4>1, <5>5, <5>6, <5>7, <1>1, Halves
      <4>5. ASSUME o < Covered PROVE w < BitmapWords
        <5> DEFINE all == BitsPerWord * BitmapWords
        <5>1. all \in Nat /\ Covered = SizeStep * all
          BY <1>1, Coverage, Halves
        <5> HIDE DEF all
        <5>2. SizeStep * g \in Nat /\ SizeStep * g < SizeStep * all
          BY <3>1, <4>1, <4>5, <5>1, <1>1, Halves
        <5>3. g < all
          BY <4>1, <5>1, <5>2, Halves, Cancel
        <5>4. BitsPerWord * w \in Nat /\ BitsPerWord * w < BitsPerWord * BitmapWords
          BY <1>1, <4>1, <4>2, <5>1, <5>3, Coverage DEF all
        <5> QED
          BY <1>1, <4>2, <5>4, Coverage, Cancel
      <4> QED
        BY <4>3, <4>4, <4>5
    <3> QED
      BY <1>1, <1>2, <2>2, <3>2
<1>3. CASE ~(HeapStart <= p)
  <2>1. OffsetOf(p) = Word + p - HeapStart
    <3> DEFINE d == p - HeapStart
    <3>1. d + Word \in 0..(Word - 1) /\ d \in Int
      BY <1>1, <1>3
    <3> HIDE DEF d
    <3>2. d % Word = d + Word
      BY <1>1, <3>1
    <3> QED
      BY <1>1, <3>2 DEF OffsetOf, d
  <2>2. o \in Nat /\ Covered <= o
    BY <1>1, <1>3, <2>1
  <2>3. ~ has_address(p)
    <3> DEFINE all == BitsPerWord * BitmapWords
               g == o \div SizeStep
    <3>1. all \in Nat /\ SizeStep * all <= o
      BY <1>1, <2>2, Coverage, Halves
    <3>2. all <= g /\ g \in Nat
      BY <2>2, <3>1, Halves, DivisionLargest, Division
    <3> HIDE DEF g
    <3>3. BitmapWords <= g \div BitsPerWord /\ g \div BitsPerWord \in Nat
      BY <1>1, <3>2, Coverage, DivisionLargest, Division
    <3> QED
      BY <3>3, Coverage DEF has_address, offset_to_index, g
  <2> QED
    BY <1>3, <2>3
<1> QED
  BY <1>2, <1>3

\* Two offsets have one bit exactly when they lie in one granule.
LEMMA SameBit ==
    ASSUME NEW o \in Nat, NEW r \in Nat
    PROVE  <<offset_to_index(o), offset_bit_index(o)>> = <<offset_to_index(r), offset_bit_index(r)>>
              <=> o \div SizeStep = r \div SizeStep
<1> DEFINE g == o \div SizeStep
           h == r \div SizeStep
<1>1. g \in Nat /\ h \in Nat /\ BitsPerWord \in Nat \ {0}
  BY Halves, Division, Layout
<1> HIDE DEF g, h
<1>2. g - (g % BitsPerWord) = BitsPerWord * (g \div BitsPerWord) /\ h - (h % BitsPerWord) = BitsPerWord * (h \div BitsPerWord)
      /\ g % BitsPerWord \in Nat /\ h % BitsPerWord \in Nat
  BY <1>1, Remainder
<1>3. ASSUME g \div BitsPerWord = h \div BitsPerWord, g % BitsPerWord = h % BitsPerWord
      PROVE  g = h
  <2>1. g - (g % BitsPerWord) = h - (g % BitsPerWord)
    BY <1>2, <1>3
  <2> QED
    BY <1>1, <1>2, <2>1
<1>4. offset_to_index(o) = g \div BitsPerWord /\ offset_bit_index(o) = g % BitsPerWord
      /\ offset_to_index(r) = h \div BitsPerWord /\ offset_bit_index(r) = h % BitsPerWord
  BY DEF offset_to_index, offset_bit_index, g, h
<1>5. <<offset_to_index(o), offset_bit_index(o)>> = <<offset_to_index(r), offset_bit_index(r)>> <=> g = h
  BY <1>3, <1>4
<1> QED
  BY <1>5 DEF g, h

\* The bit of an address is the bit of a cell when it lies in the granule that
\* the cell starts in the middle of.
LEMMA BitOfCell ==
    ASSUME NEW a \in CellPlaces, NEW p \in Nat, HeapStart <= p, p < HeapStart + Covered
    PROVE  Bit(p) = Bit(AddressOf(a)) <=> PassesFor(p, AddressOf(a))
<1> DEFINE c == AddressOf(a)
           o == p - HeapStart
           r == c - HeapStart
<1>1. Word \in Nat /\ HeapStart \in Nat /\ HeapStart + Covered <= Word /\ Covered \in Nat
  BY Layout, LayoutAssumption, Coverage
<1>2. c \in Nat /\ HeapStart <= c /\ c + SizeStep <= HeapStart + Covered
  BY CellInGranule, CellCovered
<1>3. PICK m \in Nat : r = SizeStep * m + Half
  BY CellInGranule
<1> HIDE DEF c
<1>4. c < HeapStart + Covered /\ c \in 0..(Word - 1) /\ p \in 0..(Word - 1)
  BY <1>1, <1>2, Halves
<1>5. OffsetOf(p) = o /\ OffsetOf(c) = r /\ o \in Nat /\ r \in Nat
  BY <1>1, <1>2, <1>4, HeapAddresses
<1> HIDE DEF o, r
<1>6. Bit(p) = Bit(c) <=> o \div SizeStep = r \div SizeStep
  BY <1>5, SameBit DEF Bit
<1>7. SizeStep * m \in Nat
  BY Halves
<1>8. r \div SizeStep = m
  <2>1. SizeStep * m <= r /\ r < SizeStep * m + SizeStep
    BY <1>3, <1>7, Halves
  <2> QED
    BY <1>5, <2>1, GranuleNumber
<1>9. o \div SizeStep = m <=> SizeStep * m <= o /\ o < SizeStep * m + SizeStep
  BY <1>5, GranuleNumber
<1> DEFINE n == SizeStep * m
<1>10. n \in Nat /\ r = n + Half /\ (Bit(p) = Bit(c) <=> n <= o /\ o < n + SizeStep)
  BY <1>3, <1>6, <1>7, <1>8, <1>9
<1> HIDE DEF n
<1>11. Bit(p) = Bit(c) <=> c - Half <= p /\ p < c + Half
  BY <1>1, <1>2, <1>10, Halves DEF o, r
<1> QED
  BY <1>11 DEF PassesFor, c

\* Block::cell and SpaceBitmap: cells lie in their blocks and in the heap, and
\* no two share an address or a bit, so a bit stands for one cell: what
\* SegregatedSpace assumes when its bitmaps are sets of cells.
THEOREM CellsAreApart == CellsApart(CellPlaces)
<1> SUFFICES ASSUME NEW a \in CellPlaces
             PROVE  /\ BlockAt(a[1]) + DataStart <= AddressOf(a)
                    /\ AddressOf(a) + SizeStep <= BlockAt(a[1]) + BlockBytes
                    /\ HeapStart <= AddressOf(a) /\ AddressOf(a) + SizeStep <= DataBound
                    /\ has_address(AddressOf(a))
                    /\ \A b \in CellPlaces : a # b => Bit(AddressOf(a)) # Bit(AddressOf(b))
  BY DEF CellsApart
<1>1. /\ AddressOf(a) \in Nat /\ HeapStart <= AddressOf(a)
      /\ BlockAt(a[1]) + DataStart <= AddressOf(a)
      /\ AddressOf(a) + SizeStep <= BlockAt(a[1]) + BlockBytes
      /\ AddressOf(a) + SizeStep <= DataBound
  BY CellInGranule
<1>2. AddressOf(a) < HeapStart + Covered /\ AddressOf(a) \in 0..(Word - 1)
  BY <1>1, Halves, Layout, LayoutAssumption, Coverage, CellCovered
<1>3. has_address(AddressOf(a))
  BY <1>1, <1>2, HeapAddresses
<1>4. ASSUME NEW b \in CellPlaces, Bit(AddressOf(a)) = Bit(AddressOf(b))
      PROVE  a = b
  <2>1. AddressOf(a) < AddressOf(b) + Half /\ AddressOf(b) - Half <= AddressOf(a)
    BY <1>1, <1>2, <1>4, BitOfCell DEF PassesFor
  <2>2. PICK m \in Nat : AddressOf(a) - HeapStart = SizeStep * m + Half
    BY CellInGranule
  <2>3. PICK n \in Nat : AddressOf(b) - HeapStart = SizeStep * n + Half
    BY CellInGranule
  <2>4. SizeStep * m \in Nat /\ SizeStep * n \in Nat /\ SizeStep * (m + 1) = SizeStep * m + SizeStep
        /\ SizeStep * (n + 1) = SizeStep * n + SizeStep
    BY Halves
  <2>5. AddressOf(b) \in Nat /\ HeapStart \in Nat
    BY CellInGranule, Layout
  <2>6. SizeStep * m < SizeStep * (n + 1) /\ SizeStep * n < SizeStep * (m + 1)
    BY <1>1, <2>1, <2>2, <2>3, <2>4, <2>5, Halves
  <2>7. m < n + 1 /\ n < m + 1
    BY <2>6, Halves, Cancel
  <2>8. AddressOf(a) = AddressOf(b)
    BY <1>1, <2>2, <2>3, <2>5, <2>7
  <2> QED
    BY <2>8, PlacesApart
<1> QED
  BY <1>1, <1>3, <1>4

\* Space::is_heap_pointer: with the bits of some live cells and no large ones, an
\* address passes exactly when it is less than half a granule behind the start of
\* one of them or at most half a granule before it.  A cell's own address
\* passes, and so does the last word before it, which belongs to another cell;
\* addresses before, behind and in the uncovered end of the heap do not.
THEOREM HeapPointersExplained ==
    \A cells \in SUBSET CellPlaces, p \in 0..(Word - 1) : PointersExplained(cells, p)
<1> SUFFICES ASSUME NEW cells \in SUBSET CellPlaces, NEW p \in 0..(Word - 1)
             PROVE  is_heap_pointer(p, {Bit(AddressOf(a)) : a \in cells}, {})
                        <=> \E a \in cells : PassesFor(p, AddressOf(a))
  BY DEF PointersExplained
<1>1. p \in Nat /\ (has_address(p) <=> HeapStart <= p /\ p < HeapStart + Covered)
  BY HeapAddresses, Layout
<1>2. CASE HeapStart <= p /\ p < HeapStart + Covered
  <2>1. \A a \in cells : Bit(p) = Bit(AddressOf(a)) <=> PassesFor(p, AddressOf(a))
    BY <1>1, <1>2, BitOfCell
  <2>2. is_heap_pointer(p, {Bit(AddressOf(a)) : a \in cells}, {}) <=> \E a \in cells : Bit(p) = Bit(AddressOf(a))
    BY <1>1, <1>2 DEF is_heap_pointer
  <2> QED
    BY <2>1, <2>2
<1>3. CASE ~(HeapStart <= p /\ p < HeapStart + Covered)
  <2>1. ~is_heap_pointer(p, {Bit(AddressOf(a)) : a \in cells}, {})
    BY <1>1, <1>3 DEF is_heap_pointer
  <2>2. ASSUME NEW a \in cells, PassesFor(p, AddressOf(a)) PROVE FALSE
    <3>1. AddressOf(a) \in Nat /\ AddressOf(a) + SizeStep <= HeapStart + Covered
      BY CellInGranule, CellCovered
    <3>2. HeapStart + Half <= AddressOf(a)
      <4>1. PICK m \in Nat : AddressOf(a) - HeapStart = SizeStep * m + Half
        BY CellInGranule
      <4>2. SizeStep * m \in Nat
        BY Halves
      <4> QED
        BY <3>1, <4>1, <4>2, Layout, Halves
    <3>3. AddressOf(a) - Half <= p /\ p < AddressOf(a) + Half
      BY <2>2 DEF PassesFor
    <3> QED
      BY <1>1, <1>3, <3>1, <3>2, <3>3, Layout, Halves, Coverage
  <2> QED
    BY <2>1, <2>2
<1> QED
  BY <1>2, <1>3

\* Dividing by a product.
LEMMA DivisionTwice ==
    ASSUME NEW n \in Nat, NEW d \in Nat \ {0}, NEW e \in Nat \ {0}
    PROVE  n \div (d * e) = (n \div d) \div e
<1> DEFINE f == d * e
           q == n \div f
           p == n \div d
           r == p \div e
<1>1. f \in Nat \ {0}
  OBVIOUS
<1>2. p \in Nat /\ d * p <= n /\ n < d * p + d
  BY Division
<1> HIDE DEF f, p
<1>3. q \in Nat /\ f * q <= n /\ n < f * q + f
  BY <1>1, Division
<1>4. r \in Nat /\ e * r <= p /\ p < e * r + e
  BY <1>2, Division
<1>5. q <= r
  <2>1. d * (e * q) <= n /\ e * q \in Nat
    BY <1>3 DEF f
  <2>2. e * q <= p
    BY <2>1, DivisionLargest DEF p
  <2> QED
    BY <1>2, <1>3, <2>2, DivisionLargest
<1>6. r <= q
  <2>1. d * (e * r) <= d * p
    BY <1>2, <1>4
  <2>2. f * r = d * (e * r) /\ f * r \in Nat /\ d * p \in Nat
    BY <1>2, <1>4 DEF f
  <2>3. f * r <= n
    BY <1>2, <2>1, <2>2
  <2> QED
    BY <1>1, <1>4, <2>3, DivisionLargest
<1>7. q = r
  BY <1>3, <1>4, <1>5, <1>6
<1> QED
  BY <1>7 DEF q, r, p, f

\* Block::walk visits the cells that SegregatedSpace!CellsOf(b, s) names, for
\* cells of s granules.
THEOREM WalkVisitsCells ==
    \A b \in 1..TotalBlocks, s \in Nat \ {0} :
        /\ cell_count(SizeStep * s) = BlockGranules \div s
        /\ \A i \in Nat : Cell(b, SizeStep * s, i) = AddressOf(<<b, i * s>>)
<1> SUFFICES ASSUME NEW b \in 1..TotalBlocks, NEW s \in Nat \ {0}
             PROVE  /\ cell_count(SizeStep * s) = BlockGranules \div s
                    /\ \A i \in Nat : Cell(b, SizeStep * s, i) = AddressOf(<<b, i * s>>)
  OBVIOUS
<1>1. BlockBytes - DataStart \in Nat
  BY Layout
<1>2. cell_count(SizeStep * s) = BlockGranules \div s
  BY <1>1, Halves, DivisionTwice DEF cell_count, BlockGranules
<1>3. ASSUME NEW i \in Nat PROVE Cell(b, SizeStep * s, i) = AddressOf(<<b, i * s>>)
  <2>1. i * (SizeStep * s) = (i * s) * SizeStep
    BY Halves
  <2>2. Cell(b, SizeStep * s, i) = BlockAt(b) + DataStart + i * (SizeStep * s)
    BY DEF Cell
  <2>3. AddressOf(<<b, i * s>>) = BlockAt(b) + DataStart + (i * s) * SizeStep
    BY DEF AddressOf
  <2> QED
    BY <2>1, <2>2, <2>3
<1> QED
  BY <1>2, <1>3

\* PreciseAllocation::is_precise, which the documentation says tells large cells
\* from others, holds of the cells of blocks too.
THEOREM EveryCellIsPrecise ==
    /\ \A a \in CellPlaces : is_precise(AddressOf(a))
    /\ \A base \in Nat : base % Half = 0 => is_precise(PreciseCell(HeaderAt(base)))
<1>1. ASSUME NEW p \in Nat, NEW k \in Nat, p = Half * (2 * k + 1)
      PROVE  is_precise(p)
  <2> DEFINE n == 2 * k + 1
  <2>1. n \in Nat /\ n % 2 = 1 /\ p = Half * n
    BY <1>1
  <2> HIDE DEF n
  <2>2. p \div Half = n
    BY <2>1, Halves, DivisionExact
  <2> QED
    BY <2>1, <2>2 DEF is_precise
<1>2. ASSUME NEW a \in CellPlaces PROVE is_precise(AddressOf(a))
  <2>1. PICK m \in Nat : AddressOf(a) - HeapStart = SizeStep * m + Half
    BY CellInGranule
  <2>2. PICK n \in Nat : HeapStart = SizeStep * n
    BY HeapStartAligned
  <2>3. AddressOf(a) \in Nat
    BY CellInGranule
  <2>4. AddressOf(a) = SizeStep * n + SizeStep * m + Half
    BY <2>1, <2>2, <2>3, Halves
  <2>5. AddressOf(a) = Half * (2 * (n + m) + 1)
    BY <2>4, Halves
  <2>6. n + m \in Nat
    OBVIOUS
  <2> QED
    BY <1>1, <2>3, <2>5, <2>6
<1>3. ASSUME NEW base \in Nat, base % Half = 0 PROVE is_precise(PreciseCell(HeaderAt(base)))
  <2>1. PICK k \in Nat : header_size = Half * (2 * k + 1)
    BY HeaderSize
  <2>2. PICK m \in Nat : HeaderAt(base) = SizeStep * m
    BY <1>3, HeaderAligned DEF Multiple
  <2>3. PreciseCell(HeaderAt(base)) = SizeStep * m + Half * (2 * k + 1)
    BY <2>1, <2>2 DEF PreciseCell
  <2>4. PreciseCell(HeaderAt(base)) = Half * (2 * (m + k) + 1)
    BY <2>3, Halves
  <2>5. m + k \in Nat /\ Half * (2 * (m + k) + 1) \in Nat
    BY Halves
  <2> QED
    BY <1>1, <2>4, <2>5
<1> QED
  BY <1>2, <1>3

-----------------------------------------------------------------------------
\* Integer division.

\* Quotient and remainder are the only ones.
LEMMA QuotientUnique ==
    ASSUME NEW d \in Nat \ {0}, NEW n \in Int, NEW q \in Int, NEW r \in 0..(d - 1), n = d * q + r
    PROVE  n \div d = q /\ n % d = r
<1> DEFINE p == n \div d
           s == n % d
<1>1. p \in Int /\ s \in 0..(d - 1) /\ n = d * p + s
  OBVIOUS
<1> HIDE DEF p, s
<1>2. p = q
  <2>1. CASE p < q
    <3>1. p + 1 <= q
      BY <1>1, <2>1
    <3>2. d * (p + 1) <= d * q
      BY <1>1, <3>1
    <3>3. d * (p + 1) = d * p + d
      BY <1>1
    <3> QED
      BY <1>1, <3>2, <3>3
  <2>2. CASE q < p
    <3>1. q + 1 <= p
      BY <1>1, <2>2
    <3>2. d * (q + 1) <= d * p
      BY <1>1, <3>1
    <3>3. d * (q + 1) = d * q + d
      BY <1>1
    <3> QED
      BY <1>1, <3>2, <3>3
  <2> QED
    BY <1>1, <2>1, <2>2
<1> QED
  BY <1>1, <1>2 DEF p, s

LEMMA QuotientRemainder ==
    ASSUME NEW d \in Nat \ {0}, NEW n \in Int
    PROVE  n \div d \in Int /\ n % d \in 0..(d - 1) /\ n = d * (n \div d) + (n % d)
OBVIOUS

\* The remainder forgets multiples.
LEMMA RemainderShifts ==
    ASSUME NEW d \in Nat \ {0}, NEW n \in Int, NEW k \in Int
    PROVE  (n + d * k) % d = n % d
<1> DEFINE q == n \div d
           r == n % d
<1>1. q \in Int /\ r \in 0..(d - 1) /\ n = d * q + r
  BY QuotientRemainder
<1> HIDE DEF q, r
<1>2. d * (q + k) = d * q + d * k /\ q + k \in Int /\ d * k \in Int
  BY <1>1
<1>3. n + d * k = d * (q + k) + r /\ n + d * k \in Int
  BY <1>1, <1>2
<1>4. (n + d * k) % d = r
  BY <1>1, <1>2, <1>3, QuotientUnique
<1> QED
  BY <1>4 DEF r

LEMMA SmallRemainder ==
    ASSUME NEW d \in Nat \ {0}, NEW n \in 0..(d - 1)
    PROVE  n % d = n /\ n \div d = 0
<1>1. n = d * 0 + n
  OBVIOUS
<1> QED
  BY <1>1, QuotientUnique

\* One divisor more or less than a remainder leaves that remainder.
LEMMA OneTurn ==
    ASSUME NEW d \in Nat \ {0}, NEW r \in 0..(d - 1)
    PROVE  (d + r) % d = r /\ (r - d) % d = r
<1>1. PICK n \in Int : n = d + r
  OBVIOUS
<1>2. PICK m \in Int : m = r - d
  OBVIOUS
<1>3. n = d * 1 + r /\ m = d * (-1) + r
  BY <1>1, <1>2
<1>4. n % d = r
  BY ONLY <1>3, d \in Nat \ {0}, n \in Int, 1 \in Int, r \in 0..(d - 1), QuotientUnique
<1>5. m % d = r
  BY ONLY <1>3, d \in Nat \ {0}, m \in Int, -1 \in Int, r \in 0..(d - 1), QuotientUnique
<1> QED
  BY <1>1, <1>2, <1>4, <1>5

-----------------------------------------------------------------------------
\* The sizes of the words.

LEMMA Sizes ==
    /\ Offset \in Nat /\ Offset >= 64 /\ Tags \in Nat /\ Tags >= 4
    /\ TwoTo32 \in Nat /\ TwoTo32 >= 2 /\ TwoTo32 <= Offset
    /\ TwoTo64 \in Nat /\ TwoTo64 >= 4 * Offset
    /\ NUMBER_TAG \in Nat /\ NUMBER_TAG = TwoTo64 - Offset
<1>1. /\ Offset \in Nat /\ Tags \in Nat /\ Tags >= 4 /\ TwoTo32 \in Nat /\ TwoTo32 > 0 /\ TwoTo32 % 2 = 0
      /\ NativeShift \in Nat /\ NativeShift > 0 /\ NativeShift % 32 = 0
      /\ TwoTo32 * NativeShift <= Offset
  BY EncodingAssumption
<1>2. TwoTo32 >= 2 /\ NativeShift >= 32
  BY <1>1
<1>3. TwoTo32 * NativeShift >= TwoTo32 * 32
  BY <1>1, <1>2
<1>4. Offset >= 64 /\ TwoTo32 <= Offset
  BY <1>1, <1>2, <1>3
<1>5. Tags * Offset \in Nat /\ Tags * Offset >= 4 * Offset
  BY <1>1
<1> QED
  BY <1>1, <1>2, <1>4, <1>5 DEF TwoTo64, NUMBER_TAG

\* The halves and the whole of 2^32.
LEMMA HalvesOfI32 ==
    \E half \in Nat \ {0} :
        /\ TwoTo32 = 2 * half /\ TwoTo32 \div 2 = half
        /\ I32 = (-half)..(half - 1)
<1>1. TwoTo32 \in Nat /\ TwoTo32 >= 2 /\ TwoTo32 % 2 = 0
  BY Sizes, EncodingAssumption
<1>2. TwoTo32 \div 2 \in Nat \ {0} /\ TwoTo32 = 2 * (TwoTo32 \div 2)
  BY <1>1
<1> QED
  BY <1>2 DEF I32

-----------------------------------------------------------------------------
\* The kinds of words.

\* The tags of a word say in which range it is.
LEMMA KindByRange ==
    ASSUME NEW v \in Words
    PROVE  /\ HighBits(v) = 0 <=> v < Offset
           /\ is_number(v) <=> v >= Offset
           /\ is_int32(v) <=> v >= TwoTo64 - Offset
           /\ is_double(v) <=> v >= Offset /\ v < TwoTo64 - Offset
<1>0. v \in Nat /\ v < TwoTo64
  BY Sizes DEF Words
<1>1. Offset \in Nat \ {0} /\ Offset >= 64 /\ Tags \in Nat /\ Tags >= 4 /\ TwoTo64 = Offset * Tags
      /\ TwoTo64 \in Nat /\ TwoTo64 >= 4 * Offset /\ NUMBER_TAG = TwoTo64 - Offset
  BY Sizes DEF TwoTo64
<1> DEFINE q == v \div Offset
<1>2. q \in Int /\ v >= Offset * q /\ v < Offset * q + Offset
  BY <1>0, <1>1, QuotientRemainder
<1>3. HighBits(v) = Offset * q
  <2>1. Offset * q = q * Offset
    BY <1>1, <1>2
  <2> QED
    BY <2>1 DEF HighBits
<1> HIDE DEF q
<1>4. q >= 0 /\ q <= Tags - 1
  <2>1. CASE q < 0
    <3>1. q + 1 <= 0
      BY <1>2, <2>1
    <3>2. Offset * (q + 1) <= 0
      BY <1>1, <1>2, <3>1
    <3>3. Offset * (q + 1) = Offset * q + Offset
      BY <1>1, <1>2
    <3> QED
      BY <1>0, <1>1, <1>2, <3>2, <3>3
  <2>2. CASE q >= Tags
    <3>1. Offset * q >= Offset * Tags
      BY <1>1, <1>2, <2>2
    <3> QED
      BY <1>0, <1>1, <1>2, <3>1
  <2> QED
    BY <1>1, <1>2, <2>1, <2>2
<1>5. q = 0 <=> v < Offset
  <2>1. q = 0 => Offset * q = 0
    BY <1>1
  <2>2. q >= 1 => Offset * q >= Offset
    BY <1>1, <1>2
  <2> QED
    BY <1>0, <1>1, <1>2, <1>4, <2>1, <2>2
<1>6. q = 0 <=> Offset * q = 0
  BY <1>1, <1>2, <1>4
<1>7. Offset * q = TwoTo64 - Offset <=> v >= TwoTo64 - Offset
  <2>1. Offset * (Tags - 1) = TwoTo64 - Offset
    BY <1>1
  <2>2. q = Tags - 1 => Offset * q = TwoTo64 - Offset
    BY <2>1
  <2>3. q <= Tags - 2 => Offset * q + Offset <= TwoTo64 - Offset
    <3>1. Offset * (q + 1) = Offset * q + Offset
      BY <1>1, <1>2
    <3>2. q <= Tags - 2 => Offset * (q + 1) <= Offset * (Tags - 1)
      BY <1>1, <1>2
    <3> QED
      BY <2>1, <3>1, <3>2
  <2>4. q = Tags - 1 \/ q <= Tags - 2
    BY <1>1, <1>2, <1>4
  <2>5. Offset * q \in Int
    BY <1>1, <1>2
  <2> QED
    BY <1>0, <1>1, <1>2, <2>2, <2>3, <2>4, <2>5
<1>8. is_int32(v) <=> v >= TwoTo64 - Offset
  BY <1>1, <1>3, <1>7 DEF is_int32
<1>9. (HighBits(v) = 0 <=> v < Offset) /\ (is_number(v) <=> v >= Offset)
  BY <1>0, <1>1, <1>3, <1>5, <1>6 DEF is_number
<1> QED
  BY <1>0, <1>1, <1>8, <1>9 DEF is_double

\* A pointer has neither tag, so that it is none of the immediates.
LEMMA ImmediatesAreNotPointers ==
    /\ ~is_pointer(VALUE_NULL) /\ ~is_pointer(VALUE_UNDEFINED)
    /\ ~is_pointer(VALUE_FALSE) /\ ~is_pointer(VALUE_TRUE)
  BY DEF is_pointer, HasBit, OTHER_TAG, VALUE_NULL, VALUE_UNDEFINED, VALUE_FALSE, VALUE_TRUE

LEMMA BooleanWords ==
    ASSUME NEW v \in Nat, is_bool(v)
    PROVE  v = VALUE_FALSE \/ v = VALUE_TRUE
<1>1. v % 2 \in {0, 1} /\ v - (v % 2) = 6
  BY DEF is_bool, VALUE_FALSE
<1> QED
  BY <1>1 DEF VALUE_FALSE, VALUE_TRUE

LEMMA NativesAreLarge ==
    ASSUME NEW v \in Nat, is_native_value(v)
    PROVE  v >= 16 /\ ~is_pointer(v)
<1>1. v >= 16
  BY DEF is_native_value, HasBit
<1>2. ~is_pointer(v)
  BY DEF is_native_value, is_pointer, OTHER_TAG
<1> QED
  BY <1>1, <1>2

\* Every word is of at most one kind: the order in which the interpreter, the
\* collector and from_primitive test a value does not matter.
THEOREM KindsExclude == \A v \in Words : OneKind(v)
<1> SUFFICES ASSUME NEW v \in Words PROVE OneKind(v)
  OBVIOUS
<1>0. v \in Nat /\ Offset \in Nat /\ Offset >= 64 /\ TwoTo64 \in Nat /\ TwoTo64 >= 4 * Offset
  BY Sizes DEF Words
<1> DEFINE small == v < Offset
           int == is_int32(v)
           double == is_double(v)
           object == is_object(v)
           native == is_native_value(v)
           immediate == v \in {0, 2, 6, 7, 10}
<1>1. int => ~small /\ ~double
  BY <1>0, KindByRange
<1>2. double => ~small
  BY <1>0, KindByRange
<1>3. object => small /\ ~immediate
  <2>1. object => HighBits(v) = 0 /\ is_pointer(v) /\ v # 0
    BY DEF is_object, is_pointer, is_empty, VALUE_EMPTY
  <2> QED
    BY <2>1, KindByRange, ImmediatesAreNotPointers
       DEF VALUE_NULL, VALUE_UNDEFINED, VALUE_FALSE, VALUE_TRUE
<1>4. native => small /\ ~immediate /\ ~object
  <2>1. native => HighBits(v) = 0 /\ v >= 16 /\ ~is_pointer(v)
    BY <1>0, NativesAreLarge DEF is_native_value
  <2> QED
    BY <2>1, KindByRange DEF is_object
<1>5. immediate => small
  BY <1>0
<1>6. /\ is_empty(v) <=> v = 0
      /\ is_undefined(v) <=> v = 10
      /\ is_null(v) <=> v = 2
      /\ is_bool(v) => v \in {6, 7}
  BY <1>0, BooleanWords
     DEF is_empty, is_undefined, is_null, VALUE_EMPTY, VALUE_UNDEFINED, VALUE_NULL, VALUE_FALSE, VALUE_TRUE
<1> HIDE DEF small, int, double, object, native
<1> DEFINE is == <<is_empty(v), is_undefined(v), is_null(v), is_bool(v), int, double, object, native>>
<1>7. ASSUME NEW k \in 1..8, NEW l \in 1..8, is[k], is[l], k < l
      PROVE  FALSE
  <2>1. /\ is[1] => v = 0
        /\ is[2] => v = 10
        /\ is[3] => v = 2
        /\ is[4] => v \in {6, 7}
        /\ is[5] => int
        /\ is[6] => double
        /\ is[7] => object
        /\ is[8] => native
    BY <1>6
  <2> HIDE DEF is
  <2>2. k <= 4 => immediate
    BY <1>7, <2>1
  <2>3. l <= 4 => FALSE
    BY <1>7, <2>1
  <2>4. CASE k <= 4
    <3>1. l = 5 \/ l = 6 \/ l = 7 \/ l = 8
      BY <2>3
    <3> QED
      BY <1>1, <1>2, <1>3, <1>4, <1>5, <1>7, <2>1, <2>2, <2>4, <3>1
  <2>5. CASE k = 5 /\ l = 6
    BY <1>1, <1>7, <2>1, <2>5
  <2>6. CASE k = 5 /\ l \in {7, 8}
    BY <1>1, <1>3, <1>4, <1>7, <2>1, <2>6
  <2>7. CASE k = 6 /\ l \in {7, 8}
    BY <1>2, <1>3, <1>4, <1>7, <2>1, <2>7
  <2>8. CASE k = 7 /\ l = 8
    BY <1>4, <1>7, <2>1, <2>8
  <2> QED
    BY <1>7, <2>4, <2>5, <2>6, <2>7, <2>8
<1>8. \A k, l \in 1..8 : is[k] /\ is[l] => k = l
  <2> HIDE DEF is
  <2> SUFFICES ASSUME NEW k \in 1..8, NEW l \in 1..8, is[k], is[l] PROVE k = l
    OBVIOUS
  <2>1. ~(k < l) /\ ~(l < k)
    BY <1>7
  <2> QED
    BY <2>1
<1> QED
  BY <1>8 DEF OneKind, int, double, object, native

-----------------------------------------------------------------------------
\* Integers.

LEMMA TruncatedInRange ==
    ASSUME NEW n \in Int
    PROVE  TruncatedToI32(n) \in I32
<1>1. PICK half \in Nat \ {0} : TwoTo32 = 2 * half /\ TwoTo32 \div 2 = half /\ I32 = (-half)..(half - 1)
  BY HalvesOfI32
<1>2. n % TwoTo32 \in 0..(TwoTo32 - 1)
  BY <1>1
<1> QED
  BY <1>1, <1>2 DEF TruncatedToI32

\* Truncation gives the only number of an i32 that differs by a multiple of 2^32.
LEMMA TruncatedUnique ==
    ASSUME NEW x \in I32, NEW k \in Int
    PROVE  TruncatedToI32(x + TwoTo32 * k) = x
<1>1. PICK half \in Nat \ {0} : TwoTo32 = 2 * half /\ TwoTo32 \div 2 = half /\ I32 = (-half)..(half - 1)
  BY HalvesOfI32
<1>2. TwoTo32 \in Nat \ {0} /\ x \in Int /\ x >= -half /\ x < half
  BY <1>1
<1> DEFINE n == x + TwoTo32 * k
<1>3. n % TwoTo32 = x % TwoTo32
  BY <1>2, RemainderShifts
<1>4. x % TwoTo32 = IF x >= 0 THEN x ELSE x + TwoTo32
  <2>1. CASE x >= 0
    BY <1>1, <1>2, <2>1, SmallRemainder
  <2>2. CASE x < 0
    <3>1. x + TwoTo32 \in 0..(TwoTo32 - 1)
      BY <1>1, <1>2, <2>2
    <3>2. x = TwoTo32 * (-1) + (x + TwoTo32)
      BY <1>2
    <3>3. x % TwoTo32 = x + TwoTo32
      BY <1>2, <3>1, <3>2, QuotientUnique
    <3> QED
      BY <2>2, <3>3, <1>2
  <2> QED
    BY <1>2, <2>1, <2>2
<1> HIDE DEF n
<1>5. TruncatedToI32(n) = x
  BY <1>1, <1>2, <1>3, <1>4 DEF TruncatedToI32
<1> QED
  BY <1>5 DEF n

\* An integer that is encoded is an int32 and is read back.
THEOREM IntegersRoundTrip == \A x \in I32 : IntRoundTrips(x)
<1> SUFFICES ASSUME NEW x \in I32 PROVE IntRoundTrips(x)
  OBVIOUS
<1>0. /\ TwoTo32 \in Nat \ {0} /\ Offset \in Nat /\ TwoTo64 \in Nat /\ TwoTo32 <= Offset /\ TwoTo64 >= 4 * Offset
      /\ NUMBER_TAG = TwoTo64 - Offset
  BY Sizes
<1>1. x \in Int
  BY <1>0, HalvesOfI32
<1> DEFINE q == x \div TwoTo32
           r == x % TwoTo32
           v == NUMBER_TAG + r
<1>2. q \in Int /\ r \in 0..(TwoTo32 - 1) /\ x = TwoTo32 * q + r
  BY <1>0, <1>1, QuotientRemainder
<1>3. PICK t \in Int : NUMBER_TAG = TwoTo32 * t
  <2>1. Offset = TwoTo32 * (Offset \div TwoTo32) /\ Offset \div TwoTo32 \in Int
    <3>1. Offset % TwoTo32 = 0
      BY EncodingAssumption
    <3>2. /\ Offset = TwoTo32 * (Offset \div TwoTo32) + (Offset % TwoTo32)
          /\ Offset \div TwoTo32 \in Int
      BY <1>0, QuotientRemainder
    <3> QED
      BY <1>0, <3>1, <3>2
  <2> DEFINE o == Offset \div TwoTo32
  <2>2. o \in Int /\ Offset = TwoTo32 * o
    BY <2>1
  <2> HIDE DEF o
  <2>3. Tags \in Int /\ NUMBER_TAG = (Tags - 1) * Offset
    BY Sizes DEF TwoTo64
  <2>4. (Tags - 1) * (TwoTo32 * o) = TwoTo32 * ((Tags - 1) * o) /\ (Tags - 1) * o \in Int
    BY <1>0, <2>2, <2>3
  <2> QED
    BY <2>2, <2>3, <2>4
<1> HIDE DEF q, r
<1>4. v \in Words /\ v >= TwoTo64 - Offset
  BY <1>0, <1>2 DEF Words
<1>5. is_int32(v)
  BY <1>4, KindByRange
<1>6. v = x + TwoTo32 * (t - q)
  <2>1. TwoTo32 * (t - q) = TwoTo32 * t - TwoTo32 * q /\ TwoTo32 * t \in Int /\ TwoTo32 * q \in Int
    BY <1>0, <1>2
  <2> QED
    BY <1>1, <1>2, <1>3, <2>1
<1>7. TruncatedToI32(v) = x
  BY <1>2, <1>6, TruncatedUnique
<1>8. encode_int32(x) = v
  BY DEF encode_int32, r
<1> HIDE DEF v
<1> QED
  BY <1>5, <1>7, <1>8 DEF IntRoundTrips, get_int32

-----------------------------------------------------------------------------
\* Native values.

\* A native value has its own tag and is read back.
THEOREM NativesRoundTrip == \A x \in 0..(TwoTo32 - 1) : NativeRoundTrips(x)
<1> SUFFICES ASSUME NEW x \in 0..(TwoTo32 - 1) PROVE NativeRoundTrips(x)
  OBVIOUS
<1>0. /\ TwoTo32 \in Nat \ {0} /\ Offset \in Nat /\ Offset >= 64 /\ TwoTo64 \in Nat /\ TwoTo64 >= 4 * Offset
      /\ NativeShift \in Nat /\ NativeShift > 0 /\ NativeShift % 32 = 0
      /\ TwoTo32 * NativeShift <= Offset
  BY Sizes, EncodingAssumption
<1>1. PICK k \in Nat \ {0} : NativeShift = 32 * k
  <2>1. NativeShift \div 32 \in Nat \ {0} /\ NativeShift = 32 * (NativeShift \div 32)
    BY <1>0
  <2> QED
    BY <2>1
<1> DEFINE m == x * k
           v == x * NativeShift + 18
<1>2. m \in Nat /\ x * NativeShift = 32 * m
  <2>1. x * (32 * k) = 32 * (x * k) /\ x * k \in Nat
    BY <1>0
  <2> QED
    BY <1>1, <2>1
<1>3. v \in Nat /\ v < Offset
  <2>1. x <= TwoTo32 - 1 /\ x \in Nat
    BY <1>0
  <2>2. x * NativeShift <= (TwoTo32 - 1) * NativeShift
    BY <1>0, <2>1
  <2>3. (TwoTo32 - 1) * NativeShift = TwoTo32 * NativeShift - NativeShift
    BY <1>0
  <2>4. TwoTo32 * NativeShift \in Nat /\ NativeShift >= 32 /\ x * NativeShift \in Nat
    BY <1>0, <1>1, <2>1
  <2> DEFINE a == x * NativeShift
             b == TwoTo32 * NativeShift
  <2> HIDE DEF a, b
  <2>5. a <= b - NativeShift /\ a \in Nat /\ b \in Nat /\ b <= Offset
    BY <1>0, <2>2, <2>3, <2>4 DEF a, b
  <2>6. a + 18 \in Nat /\ a + 18 < Offset
    BY <1>0, <2>4, <2>5
  <2> QED
    BY <2>6 DEF a
<1>4. HighBits(v) = 0
  <2>1. v \in Words
    BY <1>0, <1>3 DEF Words
  <2> HIDE DEF v
  <2> QED
    BY <2>1, <1>3, KindByRange
<1>5. HasBit(v, 16) /\ HasBit(v, 2)
  <2> DEFINE u == 32 * m + 18
  <2>1. u \div 16 = 2 * m + 1 /\ u \div 2 = 16 * m + 9
    BY <1>2
  <2>2. (2 * m + 1) % 2 = 1 /\ (16 * m + 9) % 2 = 1
    BY <1>2
  <2>3. v = u
    BY <1>2
  <2> HIDE DEF u, v
  <2> QED
    BY <2>1, <2>2, <2>3 DEF HasBit
<1>6. v \div NativeShift = x
  <2>1. 18 \in 0..(NativeShift - 1)
    BY <1>0, <1>1
  <2>2. v = NativeShift * x + 18 /\ v \in Int /\ x \in Int
    BY <1>0, <1>3
  <2> HIDE DEF v
  <2> QED
    BY <1>0, <2>1, <2>2, QuotientUnique
<1>7. encode_native_u32(x) = v
  BY DEF encode_native_u32, NATIVE32_TAG
<1> HIDE DEF v
<1>8. get_native_u32(v) = x
  BY <1>0, <1>6, SmallRemainder DEF get_native_u32
<1> QED
  BY <1>4, <1>5, <1>7, <1>8 DEF NativeRoundTrips, is_native_value

-----------------------------------------------------------------------------
\* Doubles.

\* The wrapping addition of the offset, on the bits that need no wrapping and
\* on those that do.
LEMMA EncodedDouble ==
    ASSUME NEW bits \in Words
    PROVE  encode_f64_value(bits) =
               IF bits < TwoTo64 - Offset THEN bits + Offset ELSE bits + Offset - TwoTo64
<1>0. bits \in Nat /\ bits < TwoTo64 /\ Offset \in Nat /\ TwoTo64 \in Nat \ {0} /\ TwoTo64 >= 4 * Offset
  BY Sizes DEF Words
<1>1. CASE bits < TwoTo64 - Offset
  <2>1. bits + Offset \in 0..(TwoTo64 - 1)
    BY <1>0, <1>1
  <2> QED
    BY <1>0, <1>1, <2>1, SmallRemainder DEF encode_f64_value
<1>2. CASE bits >= TwoTo64 - Offset
  <2>1. PICK r \in 0..(TwoTo64 - 1) : r = bits + Offset - TwoTo64
    BY <1>0, <1>2
  <2>2. bits + Offset = TwoTo64 + r
    BY <1>0, <2>1
  <2>3. (bits + Offset) % TwoTo64 = bits + Offset - TwoTo64
    <3>1. (TwoTo64 + r) % TwoTo64 = r
      BY <1>0, OneTurn
    <3> QED
      BY <2>1, <2>2, <3>1, Zenon
  <2> QED
    BY <1>0, <1>2, <2>3 DEF encode_f64_value
<1> QED
  BY <1>0, <1>1, <1>2

\* Exactly the bits below 2^64 - 2^50 become a double.
THEOREM DoublesExactly == \A bits \in Words : DoubleExactly(bits)
<1> SUFFICES ASSUME NEW bits \in Words PROVE DoubleExactly(bits)
  OBVIOUS
<1>0. /\ bits \in Nat /\ bits < TwoTo64 /\ Offset \in Nat /\ Offset >= 64 /\ TwoTo64 \in Nat
      /\ TwoTo64 >= 4 * Offset
  BY Sizes DEF Words
<1> DEFINE v == encode_f64_value(bits)
<1>1. v = IF bits < TwoTo64 - Offset THEN bits + Offset ELSE bits + Offset - TwoTo64
  BY EncodedDouble
<1> HIDE DEF v
<1>2. v \in Words
  BY <1>0, <1>1 DEF Words
<1>3. is_double(v) <=> v >= Offset /\ v < TwoTo64 - Offset
  BY <1>2, KindByRange
<1>4. is_double(v) <=> bits < TwoTo64 - 2 * Offset
  BY <1>0, <1>1, <1>3
<1> QED
  BY <1>4 DEF DoubleExactly, v

\* A purified double is encoded as one and is read back: NaN is the only
\* payload that is lost, negative infinity the largest bits that are left.
THEOREM DoublesRoundTrip == \A bits \in Words : DoubleRoundTrips(bits)
<1> SUFFICES ASSUME NEW bits \in Words PROVE DoubleRoundTrips(bits)
  OBVIOUS
<1>0. /\ bits \in Nat /\ bits < TwoTo64 /\ Offset \in Nat /\ Offset >= 64 /\ TwoTo64 \in Nat \ {0}
      /\ TwoTo64 >= 4 * Offset
  BY Sizes DEF Words
<1>1. /\ TwoTo64 % 2 = 0 /\ Infinity \in Nat /\ PureNan \in Nat /\ Infinity < PureNan
      /\ PureNan < TwoTo64 - 2 * Offset /\ TwoTo64 \div 2 + Infinity < TwoTo64 - 2 * Offset
  BY EncodingAssumption
<1> DEFINE half == TwoTo64 \div 2
           p == purify_nan(bits)
<1>2. half \in Nat \ {0} /\ TwoTo64 = 2 * half
  BY <1>0, <1>1
<1> HIDE DEF half
<1>3. p \in Nat /\ p < TwoTo64 - 2 * Offset
  <2>1. CASE IsNan(bits)
    BY <1>0, <1>1, <2>1 DEF purify_nan
  <2>2. CASE ~IsNan(bits)
    <3>1. bits % half <= Infinity
      BY <1>0, <1>1, <1>2, <2>2 DEF IsNan, half
    <3>2. bits % half = IF bits < half THEN bits ELSE bits - half
      <4>1. CASE bits < half
        <5>1. bits \in 0..(half - 1)
          BY <1>0, <1>2, <4>1
        <5> QED
          BY <1>2, <4>1, <5>1, SmallRemainder
      <4>2. CASE bits >= half
        <5>1. bits - half \in 0..(half - 1) /\ bits = half * 1 + (bits - half)
          BY <1>0, <1>2, <4>2
        <5>2. bits % half = bits - half
          BY <1>0, <1>2, <5>1, QuotientUnique
        <5> QED
          BY <1>0, <1>2, <4>2, <5>2
      <4> QED
        BY <1>0, <1>2, <4>1, <4>2
    <3>3. half + Infinity < TwoTo64 - 2 * Offset
      BY <1>1 DEF half
    <3>4. bits < TwoTo64 - 2 * Offset
      BY <1>0, <1>1, <1>2, <3>1, <3>2, <3>3
    <3> QED
      BY <1>0, <2>2, <3>4 DEF purify_nan
  <2> QED
    BY <2>1, <2>2
<1> DEFINE v == encode_f64_value(p)
<1> HIDE DEF p
<1>4. p \in Words
  BY <1>0, <1>3 DEF Words
<1>5. v = p + Offset
  BY <1>0, <1>3, <1>4, EncodedDouble
<1>6. is_double(v)
  BY <1>3, <1>4, DoublesExactly DEF DoubleExactly
<1>7. v \in Words
  BY <1>0, <1>3, <1>5 DEF Words
<1>8. get_double(v) = p
  <2>1. v - Offset = p /\ p \in 0..(TwoTo64 - 1)
    BY <1>0, <1>3, <1>5
  <2> QED
    BY <1>0, <2>1, SmallRemainder DEF get_double
<1>9. encode_untrusted_f64_value(bits) = v
  BY DEF encode_untrusted_f64_value, p
<1> QED
  BY <1>6, <1>7, <1>8, <1>9 DEF DoubleRoundTrips, p

\* TryFrom<JsValue> for i32 gives the low 32 bits of a double, whatever its
\* number is: the offset has none of them.
THEOREM LowBitsOfDoubles == \A bits \in Words : TryReadsLowBits(bits)
<1> SUFFICES ASSUME NEW bits \in Words PROVE TryReadsLowBits(bits)
  OBVIOUS
<1>0. /\ bits \in Int /\ TwoTo32 \in Nat \ {0} /\ Offset \in Nat /\ Tags \in Nat /\ TwoTo64 = Tags * Offset
  BY Sizes DEF Words, TwoTo64
<1> DEFINE o == Offset \div TwoTo32
<1>1. o \in Int /\ Offset = TwoTo32 * o
  <2>1. Offset % TwoTo32 = 0
    BY EncodingAssumption
  <2>2. Offset = TwoTo32 * (Offset \div TwoTo32) + (Offset % TwoTo32) /\ Offset \div TwoTo32 \in Int
    BY <1>0, QuotientRemainder
  <2> QED
    BY <1>0, <2>1, <2>2
<1> HIDE DEF o
<1>2. PICK j \in Int : encode_f64_value(bits) = bits + TwoTo32 * j
  <2>1. encode_f64_value(bits) \in {bits + Offset, bits + Offset - TwoTo64}
    BY EncodedDouble
  <2>2. bits + Offset = bits + TwoTo32 * o
    BY <1>1
  <2>3. bits + Offset - TwoTo64 = bits + TwoTo32 * (o - Tags * o)
    <3>1. Tags * (TwoTo32 * o) = TwoTo32 * (Tags * o) /\ Tags * o \in Int /\ TwoTo32 * (Tags * o) \in Int
      BY <1>0, <1>1
    <3>2. TwoTo32 * (o - Tags * o) = TwoTo32 * o - TwoTo32 * (Tags * o)
      BY <1>0, <1>1, <3>1
    <3>3. TwoTo32 * o \in Int
      BY <1>0, <1>1
    <3> QED
      BY <1>0, <1>1, <3>1, <3>2, <3>3
  <2>4. o - Tags * o \in Int
    BY <1>0, <1>1
  <2> QED
    BY <1>1, <2>1, <2>2, <2>3, <2>4
<1>3. encode_f64_value(bits) % TwoTo32 = bits % TwoTo32
  BY <1>0, <1>2, RemainderShifts
<1> QED
  BY <1>3 DEF TryReadsLowBits, TryI32, get_int32, TruncatedToI32

-----------------------------------------------------------------------------
\* The primitive types.

LEMMA IntegersStay ==
    ASSUME NEW x \in I32
    PROVE  TruncatedToI32(x) = x
<1>1. x \in Int /\ TwoTo32 \in Nat
  BY HalvesOfI32
<1>2. TruncatedToI32(x + TwoTo32 * 0) = x
  BY TruncatedUnique
<1>3. x + TwoTo32 * 0 = x
  BY <1>1
<1> QED
  BY <1>2, <1>3

\* There is a distance of doubles at every number of at most 64 bits, and it is
\* 1 up to the precision.
LEMMA Spaced ==
    ASSUME NEW x \in Int, Magnitude(x) < TwoTo64
    PROVE  /\ Spacing(x) \in Nat \ {0}
           /\ Magnitude(x) < Precision => Spacing(x) = 1
<1> DEFINE m == Magnitude(x)
           S == {1, 2, 4, 8, 16, 32, 64, 128, 256, 512, 1024, 2048}
           Right(s) == m < Precision * s /\ (s = 1 \/ Precision * s <= 2 * m)
<1>1. m \in Nat /\ Precision \in Nat /\ TwoTo64 \in Nat
  BY Sizes, EncodingAssumption DEF Magnitude
<1>2. m < 2048 * Precision
  BY <1>1, EncodingAssumption
<1> HIDE DEF m
<1>3. \E s \in S : Right(s)
  <2>1. CASE m < 8 * Precision
    <3>1. Right(1) \/ Right(2) \/ Right(4) \/ Right(8)
      BY <1>1, <2>1
    <3> QED
      BY <3>1
  <2>2. CASE m >= 8 * Precision /\ m < 128 * Precision
    <3>1. Right(16) \/ Right(32) \/ Right(64) \/ Right(128)
      BY <1>1, <2>2
    <3> QED
      BY <3>1
  <2>3. CASE m >= 128 * Precision
    <3>1. Right(256) \/ Right(512) \/ Right(1024) \/ Right(2048)
      BY <1>1, <1>2, <2>3
    <3> QED
      BY <3>1
  <2> QED
    BY <1>1, <2>1, <2>2, <2>3
<1>4. Spacing(x) = CHOOSE s \in S : Right(s)
  BY DEF Spacing, m
<1>5. Spacing(x) \in S /\ Right(Spacing(x))
  BY <1>3, <1>4
<1>6. ASSUME m < Precision PROVE Spacing(x) = 1
  <2>1. \A s \in S : Right(s) => s = 1
    BY <1>1, <1>6
  <2> QED
    BY <1>5, <2>1
<1> QED
  BY <1>5, <1>6 DEF m

\* Every i32 is a double.
LEMMA SmallFits ==
    ASSUME NEW x \in I32
    PROVE  FitsF64(x) /\ Magnitude(x) < TwoTo64
<1>1. PICK half \in Nat \ {0} : TwoTo32 = 2 * half /\ I32 = (-half)..(half - 1)
  BY HalvesOfI32
<1>2. x \in Int /\ Magnitude(x) \in Nat /\ Magnitude(x) <= half
  BY <1>1 DEF Magnitude
<1>3. Magnitude(x) < TwoTo64 /\ Magnitude(x) < Precision
  <2>1. TwoTo32 <= Precision /\ Precision \in Nat
    BY EncodingAssumption
  <2> QED
    BY <1>1, <1>2, <2>1, Sizes
<1>4. Spacing(x) = 1
  BY <1>2, <1>3, Spaced
<1>5. \A m \in Nat : m % 1 = 0
  OBVIOUS
<1> QED
  BY <1>2, <1>3, <1>4, <1>5 DEF FitsF64

\* The number of "x as f64" is x exactly when a double is.
LEMMA Nearest ==
    ASSUME NEW x \in Int, Magnitude(x) < TwoTo64
    PROVE  AsF64(x) = x <=> FitsF64(x)
<1> DEFINE m == Magnitude(x)
           s == Spacing(x)
           q == m \div s
           r == m % s
           near == IF 2 * r < s \/ (2 * r = s /\ q % 2 = 0) THEN q ELSE q + 1
<1>1. m \in Nat /\ (x < 0 => m = -x) /\ (x >= 0 => m = x)
  BY DEF Magnitude
<1>2. s \in Nat \ {0}
  BY Spaced
<1>3. AsF64(x) = IF x < 0 THEN -(s * near) ELSE s * near
  BY DEF AsF64
<1>4. FitsF64(x) <=> r = 0
  BY DEF FitsF64
<1> HIDE DEF m, s
<1>5. r \in 0..(s - 1) /\ m - r = s * q /\ q \in Nat
  BY <1>1, <1>2, Remainder
<1> HIDE DEF r, q
<1>6. s * (q + 1) = m - r + s
  BY <1>2, <1>5
<1>7. s * near = m <=> r = 0
  <2>1. CASE r = 0
    <3>1. near = q
      BY <1>2, <2>1
    <3> QED
      BY <1>1, <1>5, <2>1, <3>1
  <2>2. CASE r # 0
    <3>1. near = q \/ near = q + 1
      OBVIOUS
    <3>2. s * q # m /\ s * (q + 1) # m
      BY <1>1, <1>2, <1>5, <1>6, <2>2
    <3> QED
      BY <2>2, <3>1, <3>2
  <2> QED
    BY <2>1, <2>2
<1>8. s * near \in Int
  BY <1>2, <1>5
<1> HIDE DEF near
<1>9. PICK p \in Int : p = s * near
  BY <1>8
<1>10. AsF64(x) = x <=> p = m
  BY <1>1, <1>3, <1>9
<1> QED
  BY <1>4, <1>7, <1>9, <1>10

\* What from_primitive makes of x is x if a double is, unless x differs from the
\* i32 it is truncated to and is what that i32 is extended to.
LEMMA KeptWhen ==
    ASSUME NEW x \in Int, NEW t, Magnitude(x) < TwoTo64
    PROVE  FromPrimitive(x, t) = x
               <=> /\ AsType(TruncatedToI32(x), t) = x => TruncatedToI32(x) = x
                   /\ FitsF64(x)
<1> DEFINE y == TruncatedToI32(x)
<1>1. y \in I32
  BY TruncatedInRange
<1>2. get_int32(encode_int32(y)) = y
  <2> HIDE DEF y
  <2> QED
    BY <1>1, IntegersRoundTrip DEF IntRoundTrips
<1>3. FromPrimitive(x, t) = IF AsType(y, t) = x THEN y ELSE AsF64(x)
  BY <1>2 DEF FromPrimitive, FromAsInt
<1>4. AsF64(x) = x <=> FitsF64(x)
  BY Nearest
<1>5. y = x => FitsF64(x)
  BY <1>1, SmallFits
<1> QED
  BY <1>3, <1>4, <1>5, Zenon

\* The types that have no number outside of i32 keep every number.
LEMMA KeptInRange ==
    ASSUME NEW t, NumbersOf(t) \subseteq I32, NEW x \in NumbersOf(t)
    PROVE  FromPrimitive(x, t) = x
<1>1. x \in I32 /\ x \in Int
  BY HalvesOfI32
<1>2. TruncatedToI32(x) = x
  BY <1>1, IntegersStay
<1>3. FitsF64(x) /\ Magnitude(x) < TwoTo64
  BY <1>1, SmallFits
<1> QED
  BY <1>1, <1>2, <1>3, KeptWhen

\* The one number of an unsigned type that a negative i32 is extended to.
LEMMA Extended ==
    ASSUME NEW size \in Nat, size >= TwoTo32, NEW y \in I32
    PROVE  /\ y >= 0 => AsType(y, UnsignedType(size)) = y
           /\ y < 0 => AsType(y, UnsignedType(size)) = y + size
<1>1. PICK half \in Nat \ {0} : TwoTo32 = 2 * half /\ I32 = (-half)..(half - 1)
  BY HalvesOfI32
<1>2. y \in Int /\ y >= -half /\ y < half /\ size \in Nat \ {0} /\ half < size
  BY <1>1
<1>3. AsType(y, UnsignedType(size)) = y % size
  <2>1. y - 0 = y /\ y % size \in Int
    BY <1>2
  <2> QED
    BY <2>1 DEF AsType, UnsignedType
<1>4. CASE y >= 0
  <2>1. y \in 0..(size - 1)
    BY <1>2, <1>4
  <2> QED
    BY <1>2, <1>3, <1>4, <2>1, SmallRemainder
<1>5. CASE y < 0
  <2>1. PICK r \in 0..(size - 1) : r = y + size
    BY <1>2, <1>5
  <2>2. y % size = y + size
    <3>1. (r - size) % size = r
      BY <1>2, OneTurn
    <3>2. r - size = y
      BY <1>2, <2>1
    <3> QED
      BY <2>1, <3>1, <3>2, Zenon
  <2> QED
    BY <1>2, <1>3, <1>5, <2>2
<1> QED
  BY <1>2, <1>4, <1>5

\* An unsigned type of a multiple of 2^32 numbers loses its last 2^31, and those
\* that no double is.
LEMMA LostWhenHigh ==
    ASSUME NEW size \in Nat, NEW k \in Nat \ {0}, size = TwoTo32 * k, size <= TwoTo64,
           NEW x \in 0..(size - 1)
    PROVE  FromPrimitive(x, UnsignedType(size)) = x
               <=> x < size - (TwoTo32 \div 2) /\ FitsF64(x)
<1>1. PICK half \in Nat \ {0} : TwoTo32 = 2 * half /\ TwoTo32 \div 2 = half /\ I32 = (-half)..(half - 1)
  BY HalvesOfI32
<1> DEFINE t == UnsignedType(size)
           y == TruncatedToI32(x)
<1>2. size >= TwoTo32
  BY <1>1
<1>3. y \in I32 /\ x \in Int /\ x >= 0
  BY TruncatedInRange
<1>4. ASSUME x >= size - half PROVE y = x - size
  <2>1. x - size \in I32
    BY <1>1, <1>4
  <2>2. x = (x - size) + TwoTo32 * k
    BY <1>3
  <2> QED
    BY <2>1, <2>2, TruncatedUnique
<1> HIDE DEF y
<1>5. (y >= 0 => AsType(y, t) = y) /\ (y < 0 => AsType(y, t) = y + size)
  BY <1>2, <1>3, Extended
<1>6. FromPrimitive(x, t) = x <=> (AsType(y, t) = x => y = x) /\ FitsF64(x)
  <2>1. Magnitude(x) < TwoTo64
    BY <1>3, Sizes DEF Magnitude
  <2> QED
    BY <1>3, <2>1, KeptWhen DEF y
<1> HIDE DEF t
<1>7. y \in Int /\ y >= -half /\ y < half
  BY <1>1, <1>3
<1>8. CASE x >= size - half
  <2>1. y = x - size /\ y < 0
    BY <1>4, <1>8
  <2>2. AsType(y, t) = x /\ y # x
    BY <1>3, <1>5, <1>7, <2>1
  <2> QED
    BY <1>1, <1>3, <1>6, <1>8, <2>2 DEF t
<1>9. CASE x < size - half
  <2>1. AsType(y, t) = x => y = x
    BY <1>3, <1>5, <1>7, <1>9
  <2> QED
    BY <1>1, <1>6, <1>9, <2>1 DEF t
<1> QED
  BY <1>1, <1>3, <1>8, <1>9 DEF t

\* A signed type that is wider than i32 keeps every number that is a double: the
\* i32 is one of its numbers, and extended to itself.
LEMMA SignedWide ==
    ASSUME NEW size \in Nat, size % 2 = 0, size >= TwoTo32, size <= TwoTo64,
           NEW x \in NumbersOf(SignedType(size))
    PROVE  FromPrimitive(x, SignedType(size)) = x <=> FitsF64(x)
<1>1. PICK half \in Nat \ {0} : TwoTo32 = 2 * half /\ I32 = (-half)..(half - 1)
  BY HalvesOfI32
<1> DEFINE h == size \div 2
           t == SignedType(size)
           y == TruncatedToI32(x)
<1>2. h \in Nat /\ size = 2 * h /\ h >= half
  BY <1>1
<1>3. t.low = -h /\ t.size = size
  BY DEF SignedType
<1> HIDE DEF h
<1>4. x \in Int /\ Magnitude(x) < TwoTo64
  <2>1. x \in (-h)..(-h + size - 1)
    BY <1>3 DEF NumbersOf
  <2> QED
    BY <1>1, <1>2, <2>1, Sizes DEF Magnitude
<1>5. y \in Int /\ y >= -half /\ y < half
  BY <1>1, <1>4, TruncatedInRange
<1>6. AsType(y, t) = y
  <2> HIDE DEF y, t
  <2>1. y - (-h) \in 0..(size - 1) /\ size \in Nat \ {0}
    BY <1>1, <1>2, <1>5
  <2>2. (y - (-h)) % size = y - (-h)
    BY <2>1, SmallRemainder
  <2>3. AsType(y, t) = -h + (y - (-h))
    BY <1>3, <2>2 DEF AsType
  <2> QED
    BY <1>2, <1>5, <2>3
<1> QED
  BY <1>4, <1>6, KeptWhen

\* From<u8> .. From<i64> for JsValue: exactly the numbers from 2^32 - 2^31 of
\* u32 and from 2^64 - 2^31 of u64, and those of u64 and i64 that no double is,
\* become another number.  A length that a script reads is such a u32.
THEOREM KeptExactly ==
    \A t \in WideTypes \cup NarrowTypes : \A x \in NumbersOf(t) : KeptUnlessHigh(x, t)
<1> SUFFICES ASSUME NEW t \in WideTypes \cup NarrowTypes, NEW x \in NumbersOf(t)
             PROVE  KeptUnlessHigh(x, t)
  OBVIOUS
<1>0. PICK half \in Nat \ {0} : TwoTo32 = 2 * half /\ TwoTo32 \div 2 = half /\ I32 = (-half)..(half - 1)
  BY HalvesOfI32
<1>1. /\ TwoTo64 \in Nat /\ TwoTo64 >= TwoTo32 /\ TwoTo64 % 2 = 0 /\ Offset \in Nat /\ Tags \in Nat
      /\ Tags >= 4 /\ Offset >= 64
  BY Sizes, EncodingAssumption
<1>2. PICK size \in {TwoTo32, TwoTo64} \cup NarrowSizes : t \in {UnsignedType(size), SignedType(size)}
  BY DEF WideTypes, NarrowTypes
<1>3. /\ UnsignedType(size).low = 0 /\ UnsignedType(size).size = size
      /\ SignedType(size).low = -(size \div 2) /\ SignedType(size).size = size
  BY DEF UnsignedType, SignedType
<1>4. PICK k \in Nat \ {0} : TwoTo64 = TwoTo32 * k
  <2> DEFINE o == Offset \div TwoTo32
  <2>1. Offset % TwoTo32 = 0
    BY EncodingAssumption
  <2>2. Offset = TwoTo32 * o + (Offset % TwoTo32) /\ o \in Int
    <3>1. TwoTo32 \in Nat \ {0} /\ Offset \in Int
      BY <1>1, Sizes
    <3> QED
      BY <3>1, QuotientRemainder
  <2> HIDE DEF o
  <2>3. Offset = TwoTo32 * o
    BY <1>0, <2>1, <2>2
  <2>4. o > 0
    BY <1>0, <1>1, <2>2, <2>3
  <2>5. Tags * (TwoTo32 * o) = TwoTo32 * (Tags * o)
    BY <1>0, <1>1, <2>2
  <2>6. Tags * o \in Nat \ {0}
    BY <1>1, <2>2, <2>4
  <2> QED
    BY <2>3, <2>5, <2>6 DEF TwoTo64
<1>5. CASE size \in NarrowSizes
  <2>1. size \in Nat \ {0} /\ size % 2 = 0 /\ 2 * size <= TwoTo32
    BY <1>5, EncodingAssumption
  <2>2. size < TwoTo32 /\ size <= half /\ size \div 2 \in Nat /\ size = 2 * (size \div 2)
    BY <1>0, <2>1
  <2> DEFINE h == size \div 2
  <2>3. h \in Nat /\ size = 2 * h
    BY <2>2
  <2>4. NumbersOf(UnsignedType(size)) \subseteq I32
    <3>1. NumbersOf(UnsignedType(size)) = 0..(0 + size - 1)
      BY <1>3 DEF NumbersOf
    <3> QED
      BY <1>0, <2>1, <2>2, <3>1
  <2>5. NumbersOf(SignedType(size)) \subseteq I32
    <3>1. NumbersOf(SignedType(size)) = (-h)..(-h + size - 1)
      BY <1>3 DEF NumbersOf
    <3> HIDE DEF h
    <3> QED
      BY <1>0, <2>1, <2>2, <2>3, <3>1
  <2>6. FromPrimitive(x, t) = x
    BY <1>2, <2>4, <2>5, KeptInRange
  <2>7. ~(t.size >= TwoTo32)
    BY <1>0, <1>2, <1>3, <2>1, <2>2
  <2>8. FitsF64(x)
    <3>1. NumbersOf(t) \subseteq I32
      BY <1>2, <2>4, <2>5
    <3> QED
      BY <3>1, SmallFits
  <2> QED
    BY <2>6, <2>7, <2>8 DEF KeptUnlessHigh, HighUnsigned
<1>6. CASE size \in {TwoTo32, TwoTo64} /\ t = UnsignedType(size)
  <2>1. PICK j \in Nat \ {0} : size = TwoTo32 * j
    <3>1. TwoTo32 = TwoTo32 * 1
      BY <1>0
    <3> QED
      BY <1>4, <1>6, <3>1
  <2>2. size \in Nat /\ size >= TwoTo32
    BY <1>0, <1>1, <1>6
  <2>3. x \in 0..(size - 1)
    BY <1>3, <1>6, <2>2 DEF NumbersOf
  <2>4. FromPrimitive(x, t) = x <=> x < size - (TwoTo32 \div 2) /\ FitsF64(x)
    <3>1. size <= TwoTo64
      BY <1>0, <1>1, <1>6
    <3> QED
      BY <1>6, <2>1, <2>2, <2>3, <3>1, LostWhenHigh
  <2>5. t.low = 0 /\ t.size = size
    BY <1>3, <1>6
  <2>6. x \in Int /\ TwoTo32 \div 2 \in Int
    BY <1>0, <2>3
  <2> QED
    BY <2>2, <2>4, <2>5, <2>6 DEF KeptUnlessHigh, HighUnsigned
<1>7. CASE size \in {TwoTo32, TwoTo64} /\ t = SignedType(size)
  <2>1. size \in Nat /\ size >= TwoTo32 /\ size % 2 = 0 /\ size <= TwoTo64
    <3>1. TwoTo32 % 2 = 0 /\ TwoTo32 \in Nat
      BY EncodingAssumption
    <3> QED
      BY <1>1, <1>7, <3>1
  <2>2. FromPrimitive(x, t) = x <=> FitsF64(x)
    BY <1>7, <2>1, SignedWide
  <2>3. t.low # 0
    BY <1>0, <1>3, <1>7, <2>1
  <2> QED
    BY <2>2, <2>3 DEF KeptUnlessHigh, HighUnsigned
<1> QED
  BY <1>2, <1>5, <1>6, <1>7
=============================================================================
