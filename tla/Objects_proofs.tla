---------------------------- MODULE Objects_proofs ----------------------------
(***************************************************************************)
(* Proofs about Objects and EcmaObjects, for any objects, names, values    *)
(* and descriptors.                                                        *)
(***************************************************************************)
EXTENDS EcmaObjects, TLAPS

-----------------------------------------------------------------------------
\* Merging a descriptor into a stored property leaves a stored property.
LEMMA AppliedType ==
    ASSUME NEW s \in StoredSlot, NEW d \in Descriptor
    PROVE  Applied(s, d) \in StoredSlot
<1>1. CASE Kind(d) = "generic"
  BY <1>1 DEF Applied, Merge, Replaced, StoredSlot, Descriptor, Flags
<1>2. CASE Kind(d) = "data"
  BY <1>2 DEF Applied, Merge, Replaced, StoredSlot, Descriptor, Flags
<1>3. CASE Kind(d) = "accessor"
  <2>1. s.kind = "accessor" => s.value \in Accessor
    BY DEF StoredSlot
  <2>2. Merge(s, d).value \in Accessor
    BY <1>3, <2>1 DEF Merge, Descriptor, Accessor
  <2>3. Merge(s, d) \in StoredSlot
    BY <1>3, <2>2 DEF Merge, Replaced, StoredSlot, Descriptor, Flags
  <2> QED
    BY <2>3 DEF Applied
<1> QED
  BY <1>1, <1>2, <1>3 DEF Kind

\* So does creating a property.
LEMMA NewSlotType ==
    ASSUME NEW d \in Descriptor
    PROVE  NewSlot(d) \in StoredSlot
<1>1. CASE Kind(d) = "accessor"
  <2>1. d.has \cap DataFields = {}
    BY <1>1 DEF Kind
  <2>2. "W" \notin d.on
    BY <2>1 DEF Descriptor, DataFields
  <2> QED
    BY <1>1, <2>2 DEF NewSlot, StoredSlot, Descriptor, Accessor
<1>2. CASE Kind(d) # "accessor"
  BY <1>2 DEF NewSlot, StoredSlot, Descriptor
<1> QED
  BY <1>1, <1>2

LEMMA DefinedType ==
    ASSUME NEW x \in ObjectRecord, NEW n \in Names, NEW d \in Descriptor
    PROVE  Defined(x, n, d) \in ObjectRecord
<1>1. PICK N \in SUBSET Names : x.props \in [N -> StoredSlot]
  BY DEF ObjectRecord, Properties
<1>2. CASE n \in DOMAIN x.props
  <2>1. Applied(x.props[n], d) \in StoredSlot
    BY <1>1, <1>2, AppliedType
  <2>2. [x.props EXCEPT ![n] = Applied(@, d)] \in [N -> StoredSlot]
    BY <1>1, <1>2, <2>1
  <2>3. [x.props EXCEPT ![n] = Applied(@, d)] \in Properties
    BY <2>2 DEF Properties
  <2> QED
    BY <1>2, <2>3 DEF Defined, ObjectRecord
<1>3. CASE n \notin DOMAIN x.props
  <2>1. NewSlot(d) \in StoredSlot
    BY NewSlotType
  <2>2. Bind(x.props, n, NewSlot(d)) \in [N \cup {n} -> StoredSlot]
    BY <1>1, <2>1 DEF Bind
  <2>3. Bind(x.props, n, NewSlot(d)) \in Properties
    BY <2>2 DEF Properties
  <2> QED
    BY <1>3, <2>3 DEF Defined, ObjectRecord
<1> QED
  BY <1>2, <1>3

LEMMA PutDescriptorTypes ==
    ASSUME NEW v \in Values
    PROVE  /\ ValueDescriptor(v) \in Descriptor
           /\ \A on \in SUBSET Flags : DataDescriptor(v, on) \in Descriptor
BY DEF ValueDescriptor, DataDescriptor, Descriptor, Flags, DataFields, AccessorFields

-----------------------------------------------------------------------------
\* What is_defined_property_accepted lets through leaves a locked property
\* locked.
LEMMA AppliedLocked ==
    ASSUME NEW s \in StoredSlot, NEW d \in Descriptor, "C" \notin s.on
    PROVE  StaysLocked(s, Applied(s, d))
<1>1. CASE Verdict(s, d) # "merge"
  BY <1>1 DEF Applied, StaysLocked
<1>2. CASE Verdict(s, d) = "merge"
  <2>1. Applied(s, d) = Merge(s, d) /\ ~Rejected(s, d)
    BY <1>2 DEF Applied, Verdict
  <2>2. "C" \notin d.on /\ Agrees(s, d, {"E"}) /\ Kind(d) \in {"generic", s.kind}
    BY <2>1 DEF Rejected
  <2>3. "E" \in d.has => ("E" \in s.on <=> "E" \in d.on)
    BY <2>2 DEF Agrees
  <2>4. d.on \subseteq d.has /\ d.on \subseteq Flags /\ s.on \subseteq Flags
    BY DEF Descriptor, StoredSlot
  <2>5. Replaced(s, d, {"E", "C"}) = s.on
    BY <2>2, <2>3, <2>4 DEF Replaced, Flags
  <2>6. CASE Kind(d) = "generic"
    <3>1. Merge(s, d) = s
      BY <2>5, <2>6 DEF Merge, StoredSlot
    <3> QED
      BY <2>1, <3>1 DEF StaysLocked
  <2>7. CASE Kind(d) = "data"
    <3>1. s.kind = "data"
      BY <2>2, <2>7
    <3>2. "W" \notin s.on => "W" \notin d.on /\ d.value = s.value
      BY <2>1, <2>7, <3>1 DEF Rejected
    <3>3. "W" \notin s.on => Replaced(s, d, Flags) = s.on
      BY <2>2, <2>3, <2>4, <3>2 DEF Replaced, Flags
    <3>4. "W" \notin s.on => Merge(s, d) = s
      BY <2>7, <3>1, <3>2, <3>3 DEF Merge, StoredSlot
    <3>5. /\ "C" \notin Replaced(s, d, Flags)
          /\ "E" \in Replaced(s, d, Flags) <=> "E" \in s.on
      BY <2>2, <2>3, <2>4 DEF Replaced, Flags
    <3> QED
      BY <2>1, <2>7, <3>1, <3>4, <3>5 DEF StaysLocked, Merge
  <2>8. CASE Kind(d) = "accessor"
    <3>1. s.kind = "accessor"
      BY <2>2, <2>8
    <3>2. s.value \in Accessor /\ "W" \notin s.on
      BY <3>1 DEF StoredSlot
    <3>3. /\ "set" \in d.has => d.set = s.value.set
          /\ "get" \in d.has => d.get = s.value.get
      BY <2>1, <2>8, <3>1 DEF Rejected
    <3>4. Merge(s, d).value = s.value
      BY <2>8, <3>1, <3>2, <3>3 DEF Merge, Accessor
    <3>5. Merge(s, d).on = s.on /\ Merge(s, d).kind = s.kind
      BY <2>5, <2>8, <3>1, <3>2 DEF Merge
    <3>6. DOMAIN Merge(s, d) = DOMAIN s /\ DOMAIN s = {"kind", "on", "value"}
      BY <2>8 DEF Merge, StoredSlot
    <3>7. Merge(s, d) = s
      <4>1. Merge(s, d) = [kind |-> "accessor", on |-> Merge(s, d).on, value |-> Merge(s, d).value]
        BY <2>8 DEF Merge
      <4>2. s = [kind |-> s.kind, on |-> s.on, value |-> s.value]
        BY DEF StoredSlot
      <4> QED
        BY <3>1, <3>4, <3>5, <4>1, <4>2
    <3> QED
      BY <2>1, <3>1, <3>7 DEF StaysLocked
  <2> QED
    BY <2>6, <2>7, <2>8 DEF Kind
<1> QED
  BY <1>1, <1>2

\* x may become y: its locked properties stay locked, and it gets no property
\* once it is not extensible.
Locked(x, y) ==
    /\ \A n \in DOMAIN x.props : "C" \notin x.props[n].on =>
            n \in DOMAIN y.props /\ StaysLocked(x.props[n], y.props[n])
    /\ ~x.extensible => ~y.extensible /\ DOMAIN y.props \subseteq DOMAIN x.props

LEMMA SameLocked == ASSUME NEW x PROVE Locked(x, x)
BY DEF Locked, StaysLocked

LEMMA DefinedLocked ==
    ASSUME NEW x \in ObjectRecord, NEW n \in Names, NEW d \in Descriptor
    PROVE  Locked(x, Defined(x, n, d))
<1>1. PICK N \in SUBSET Names : x.props \in [N -> StoredSlot]
  BY DEF ObjectRecord, Properties
<1>2. CASE n \in DOMAIN x.props
  <2> DEFINE y == Defined(x, n, d)
  <2>1. y.extensible = x.extensible /\ y.props = [x.props EXCEPT ![n] = Applied(@, d)]
    BY <1>2 DEF Defined, ObjectRecord
  <2>2. ASSUME NEW m \in DOMAIN x.props, "C" \notin x.props[m].on
        PROVE  StaysLocked(x.props[m], y.props[m])
    <3>1. CASE m = n
      <4>1. y.props[m] = Applied(x.props[m], d)
        BY <1>1, <1>2, <2>1, <3>1
      <4>2. x.props[m] \in StoredSlot
        BY <1>1
      <4> QED
        BY <2>2, <4>1, <4>2, AppliedLocked
    <3>2. CASE m # n
      BY <1>1, <2>1, <2>2, <3>2 DEF StaysLocked
    <3> QED
      BY <3>1, <3>2
  <2>3. DOMAIN y.props = DOMAIN x.props
    BY <2>1
  <2> QED
    BY <2>1, <2>2, <2>3 DEF Locked
<1>3. CASE n \notin DOMAIN x.props /\ x.extensible
  <2>1. Defined(x, n, d).props = Bind(x.props, n, NewSlot(d))
    BY <1>3 DEF Defined, ObjectRecord
  <2> QED
    BY <1>1, <1>3, <2>1 DEF Locked, StaysLocked, Bind
<1>4. CASE n \notin DOMAIN x.props /\ ~x.extensible
  BY <1>4, SameLocked DEF Defined
<1> QED
  BY <1>2, <1>3, <1>4 DEF ObjectRecord

-----------------------------------------------------------------------------
LEMMA EmptyType ==
    ASSUME NEW p \in Objects \cup {NoObject}
    PROVE  Empty(p) \in ObjectRecord
<1>1. [n \in {} |-> Undefined] \in [{} -> StoredSlot]
  OBVIOUS
<1>2. [n \in {} |-> Undefined] \in Properties
  BY <1>1 DEF Properties
<1> QED
  BY <1>2 DEF Empty, ObjectRecord

\* What a step makes of the objects: every one that existed keeps what is
\* locked.
LEMMA StepObjects ==
    ASSUME TypeOK, [Next]_object
    PROVE  /\ TypeOK'
           /\ \A o \in Objects : Exists(o) => Locked(object[o], object'[o])
<1> DEFINE Goal == TypeOK' /\ \A o \in Objects : Exists(o) => Locked(object[o], object'[o])
<1>1. ASSUME NEW o \in Objects, NEW x \in ObjectRecord \cup {NoObject},
             Exists(o) => Locked(object[o], x),
             object' = [object EXCEPT ![o] = x]
      PROVE  Goal
  BY <1>1, SameLocked DEF TypeOK, Exists
<1>2. ASSUME NEW o \in Objects, NEW p \in Objects \cup {NoObject}, Create(o, Empty(p))
      PROVE  Goal
  BY <1>1, <1>2, EmptyType DEF Create
<1>3. ASSUME NEW o \in Objects, NewObject(o) PROVE Goal
  BY <1>2, <1>3 DEF NewObject
<1>4. ASSUME NEW o \in Objects, NEW p \in Objects, ObjectCreate(o, p) PROVE Goal
  BY <1>2, <1>4 DEF ObjectCreate
<1>5. ASSUME NEW f \in Objects, NEW p \in Objects, NewFunction(f, p) PROVE Goal
  <2> DEFINE x == Defined(Empty(NoObject), Prototype, DataDescriptor(p, {"W"}))
  <2>1. p \in Values /\ Prototype \in Names /\ f # p
    BY <1>5, ObjectsAssumption DEF NewFunction
  <2>2. DataDescriptor(p, {"W"}) \in Descriptor
    BY <2>1, PutDescriptorTypes DEF Flags
  <2>3. x \in ObjectRecord /\ Empty(NoObject) \in ObjectRecord
    BY <2>1, <2>2, EmptyType, DefinedType
  <2>4. object' = [object EXCEPT ![p] = Empty(NoObject), ![f] = x]
    BY <1>5 DEF NewFunction
  <2>5. ~Exists(p) /\ ~Exists(f)
    BY <1>5 DEF NewFunction
  <2> HIDE DEF x
  <2>6. TypeOK'
    BY <2>3, <2>4 DEF TypeOK
  <2>7. ASSUME NEW o \in Objects, Exists(o) PROVE Locked(object[o], object'[o])
    <3>1. object'[o] = object[o]
      BY <2>4, <2>5, <2>7 DEF TypeOK
    <3> QED
      BY <3>1, SameLocked
  <2> QED
    BY <2>6, <2>7
<1>6. ASSUME NEW o \in Objects, NEW f \in Objects, Construct(o, f) PROVE Goal
  BY <1>2, <1>6 DEF Construct
<1>7. ASSUME NEW o \in Objects, NEW n \in Names, NEW d \in Descriptor, Exists(o),
             object' = [object EXCEPT ![o] = Defined(@, n, d)]
      PROVE  Goal
  <2>1. object[o] \in ObjectRecord
    BY <1>7 DEF TypeOK, Exists
  <2>2. Defined(object[o], n, d) \in ObjectRecord /\ Locked(object[o], Defined(object[o], n, d))
    BY <2>1, DefinedType, DefinedLocked
  <2> QED
    BY <1>1, <1>7, <2>2
<1>8. ASSUME NEW o \in Objects, NEW n \in Names, NEW d \in Descriptors, DefineOwn(o, n, d)
      PROVE  Goal
  BY <1>7, <1>8, DescriptorsAssumption DEF DefineOwn
<1>9. ASSUME NEW o \in Objects, NEW n \in Names, NEW v \in Values, Put(o, n, v) PROVE Goal
  <2>1. PutDescriptor(o, n, v) \in Descriptor
    BY PutDescriptorTypes DEF PutDescriptor
  <2> QED
    BY <1>7, <1>9, <2>1 DEF Put
<1>10. ASSUME NEW o \in Objects, NEW n \in Names, Delete(o, n) PROVE Goal
  <2> DEFINE props == [m \in DOMAIN object[o].props \ {n} |-> object[o].props[m]]
             x == [object[o] EXCEPT !.props = props]
  <2>1. object[o] \in ObjectRecord
    BY <1>10 DEF TypeOK, Exists, Delete
  <2>2. PICK N \in SUBSET Names : object[o].props \in [N -> StoredSlot]
    BY <2>1 DEF ObjectRecord, Properties
  <2>3. props \in [N \ {n} -> StoredSlot]
    BY <2>2
  <2>4. props \in Properties
    BY <2>3 DEF Properties
  <2>5. x \in ObjectRecord /\ x.props = props /\ x.extensible = object[o].extensible
    BY <2>1, <2>4 DEF ObjectRecord
  <2>6. object' = [object EXCEPT ![o] = x]
    BY <1>10 DEF Delete
  <2>7. Locked(object[o], x)
    BY <1>10, <2>5 DEF Delete, Locked, StaysLocked
  <2> HIDE DEF x
  <2> QED
    BY <1>1, <2>5, <2>6, <2>7
<1>11. ASSUME NEW o \in Objects, PreventExtensions(o) PROVE Goal
  <2>1. object[o] \in ObjectRecord
    BY <1>11 DEF TypeOK, Exists, PreventExtensions
  <2>2. [object[o] EXCEPT !.extensible = FALSE] \in ObjectRecord
    BY <2>1 DEF ObjectRecord
  <2>3. Locked(object[o], [object[o] EXCEPT !.extensible = FALSE])
    BY <2>1 DEF Locked, StaysLocked, ObjectRecord
  <2>4. object' = [object EXCEPT ![o] = [object[o] EXCEPT !.extensible = FALSE]]
    BY <1>11 DEF PreventExtensions
  <2> QED
    BY <1>1, <2>2, <2>3, <2>4
<1>12. ASSUME NEW o \in Objects, NEW fs \in {Seal, Freeze}, SetIntegrity(o, fs) PROVE Goal
  <2> DEFINE props == Unset(object[o].props, fs)
             x == [object[o] EXCEPT !.extensible = FALSE, !.props = props]
  <2>1. object[o] \in ObjectRecord
    BY <1>12 DEF TypeOK, Exists, SetIntegrity
  <2>2. PICK N \in SUBSET Names : object[o].props \in [N -> StoredSlot]
    BY <2>1 DEF ObjectRecord, Properties
  <2>3. ASSUME NEW s \in StoredSlot
        PROVE  /\ [s EXCEPT !.on = @ \ fs] \in StoredSlot
               /\ "C" \notin s.on => StaysLocked(s, [s EXCEPT !.on = @ \ fs])
    BY DEF StoredSlot, StaysLocked, Seal, Freeze, Flags
  <2>4. props \in [N -> StoredSlot]
    BY <2>2, <2>3 DEF Unset
  <2>5. props \in Properties
    BY <2>4 DEF Properties
  <2>6. x \in ObjectRecord /\ x.props = props /\ ~x.extensible
    BY <2>1, <2>5 DEF ObjectRecord
  <2>7. object' = [object EXCEPT ![o] = x]
    BY <1>12, <2>1 DEF SetIntegrity, TypeOK, ObjectRecord
  <2>8. Locked(object[o], x)
    BY <2>2, <2>3, <2>6 DEF Locked, Unset
  <2> HIDE DEF x
  <2> QED
    BY <1>1, <2>6, <2>7, <2>8
<1>13. CASE UNCHANGED object
  BY <1>13, SameLocked DEF TypeOK
<1> QED
  BY <1>3, <1>4, <1>5, <1>6, <1>8, <1>9, <1>10, <1>11, <1>12, <1>13 DEF Next

LEMMA InitTypes == Init => TypeOK
BY DEF Init, TypeOK

\* Every object is a record of stored properties, whatever descriptors, puts and
\* deletions made of it.
THEOREM TypeCorrect == Spec => []TypeOK
<1>1. TypeOK /\ [Next]_object => TypeOK'
  BY StepObjects
<1> QED
  BY <1>1, InitTypes, PTL DEF Spec

\* The essential invariants hold over any sequence of definitions, assignments,
\* deletions and integrity calls: what is locked stays locked.
THEOREM EssentialInvariantsHold == Spec => EssentialInvariants
<1> DEFINE Step == \A o \in Objects : Exists(o) =>
                LET x == object[o]
                    y == object'[o]
                IN  /\ \A n \in DOMAIN x.props : "C" \notin x.props[n].on =>
                        n \in DOMAIN y.props /\ StaysLocked(x.props[n], y.props[n])
                    /\ ~x.extensible => ~y.extensible /\ DOMAIN y.props \subseteq DOMAIN x.props
<1>1. TypeOK /\ [Next]_object => [Step]_object
  BY StepObjects DEF Locked
<1>2. Spec => [][Step]_object
  BY <1>1, TypeCorrect, PTL DEF Spec
<1> QED
  BY <1>2 DEF EssentialInvariants

\* can_put_non_indexed asks the whole chain: an own property that is not there
\* yet is added only by a definition when the chain makes it read-only.
THEOREM ReadOnlyIsInheritedHolds == Spec => ReadOnlyIsInherited
<1> DEFINE Step == \A o \in Objects, n \in Names :
                /\ Shadows(o, n)
                /\ Holder(o, n) # NoObject
                /\ "W" \notin object[Holder(o, n)].props[n].on
                => \E d \in Descriptors : DefineOwn(o, n, d)
<1>1. TypeOK /\ [Next]_object => [Step]_object
  <2> SUFFICES ASSUME TypeOK, Next, NEW o \in Objects, NEW n \in Names,
                      Shadows(o, n), Holder(o, n) # NoObject,
                      "W" \notin object[Holder(o, n)].props[n].on
               PROVE  \E d \in Descriptors : DefineOwn(o, n, d)
    OBVIOUS
  <2>1. Exists(o) /\ object[o] \in ObjectRecord /\ object'[o] # object[o]
    BY DEF Shadows, TypeOK, Exists
  <2>2. ASSUME NEW q \in Objects, NEW x, Create(q, x) PROVE FALSE
    BY <2>1, <2>2 DEF Create, TypeOK
  <2>3. ASSUME NEW q \in Objects, NEW p \in Objects, NewFunction(q, p) PROVE FALSE
    BY <2>1, <2>3 DEF NewFunction, TypeOK
  <2>4. ASSUME NEW q \in Objects, NEW m \in Names, NEW d \in Descriptor,
               object' = [object EXCEPT ![q] = Defined(@, m, d)]
        PROVE  q = o /\ m = n
    <3>1. q = o
      BY <2>1, <2>4 DEF TypeOK
    <3>2. object'[o] = Defined(object[o], m, d)
      BY <2>4, <3>1 DEF TypeOK
    <3>3. DOMAIN object'[o].props \subseteq DOMAIN object[o].props \cup {m}
      BY <2>1, <3>2 DEF Defined, Bind, ObjectRecord
    <3> QED
      BY <3>1, <3>3 DEF Shadows
  <2>5. ASSUME NEW q \in Objects, NEW m \in Names, NEW d \in Descriptors, DefineOwn(q, m, d)
        PROVE  \E e \in Descriptors : DefineOwn(o, n, e)
    <3>1. q = o /\ m = n
      BY <2>4, <2>5, DescriptorsAssumption DEF DefineOwn
    <3> QED
      BY <2>5, <3>1
  <2>6. ASSUME NEW q \in Objects, NEW m \in Names, NEW v \in Values, Put(q, m, v) PROVE FALSE
    <3>1. PutDescriptor(q, m, v) \in Descriptor
      BY PutDescriptorTypes DEF PutDescriptor
    <3>2. q = o /\ m = n
      BY <2>4, <2>6, <3>1 DEF Put
    <3>3. CanPut(o, n) /\ ~FindsAccessor(o, n)
      BY <2>6, <3>2 DEF Put
    <3> QED
      BY <3>3 DEF CanPut, FindsAccessor
  <2>7. ASSUME NEW q \in Objects,
               \/ \E m \in Names : Delete(q, m)
               \/ PreventExtensions(q)
               \/ \E fs \in {Seal, Freeze} : SetIntegrity(q, fs)
        PROVE  FALSE
    <3>1. q = o
      BY <2>1, <2>7 DEF Delete, PreventExtensions, SetIntegrity, TypeOK
    <3>2. DOMAIN object'[o].props \subseteq DOMAIN object[o].props
      <4>1. ASSUME NEW m \in Names, Delete(o, m)
            PROVE  DOMAIN object'[o].props \subseteq DOMAIN object[o].props
        BY <2>1, <4>1 DEF Delete, TypeOK, ObjectRecord
      <4>2. CASE PreventExtensions(o)
        BY <2>1, <4>2 DEF PreventExtensions, TypeOK, ObjectRecord
      <4>3. ASSUME NEW fs, SetIntegrity(o, fs)
            PROVE  DOMAIN object'[o].props \subseteq DOMAIN object[o].props
        BY <2>1, <4>3 DEF SetIntegrity, Unset, TypeOK, ObjectRecord
      <4> QED
        BY <2>7, <3>1, <4>1, <4>2, <4>3
    <3> QED
      BY <3>2 DEF Shadows
  <2> QED
    BY <2>2, <2>3, <2>5, <2>6, <2>7 DEF Next, NewObject, ObjectCreate, Construct
<1>2. Spec => [][Step]_object
  BY <1>1, TypeCorrect, PTL DEF Spec
<1> QED
  BY <1>2 DEF ReadOnlyIsInherited

-----------------------------------------------------------------------------
\* The rejections agree where the definition would have an effect.
LEMMA SameRejections ==
    ASSUME NEW s \in StoredSlot, NEW d \in Descriptor, ~EcmaSame(s, d)
    PROVE  Rejected(s, d) <=> EcmaRejects(s, d)
<1>1. d.on \subseteq d.has /\ Kind(d) = "data" => d.has \cap AccessorFields = {}
  BY DEF Descriptor, Kind
<1>2. EcmaRejects(s, d) => Rejected(s, d)
  BY DEF EcmaRejects, Rejected
<1>3. ASSUME Rejected(s, d), ~EcmaRejects(s, d) PROVE FALSE
  <2>1. /\ "C" \notin s.on /\ "C" \notin d.on /\ Agrees(s, d, {"E"})
        /\ Kind(d) = "data" /\ s.kind = "data" /\ "W" \notin s.on
        /\ "W" \notin d.on /\ "value" \notin d.has
    BY <1>3 DEF EcmaRejects, Rejected
  <2>2. Agrees(s, d, Flags)
    BY <2>1 DEF Agrees, Flags
  <2>3. d.has \cap AccessorFields = {}
    BY <1>1, <2>1 DEF Descriptor
  <2> QED
    BY <2>1, <2>2, <2>3 DEF EcmaSame, AccessorFields
<1> QED
  BY <1>2, <1>3

\* The code keeps a property only where the standard does.
LEMMA KeptAsEcma ==
    ASSUME NEW s \in StoredSlot, NEW d \in Descriptor, Verdict(s, d) = "keep"
    PROVE  EcmaSame(s, d)
<1>1. CASE d.has \cap {"E", "C"} = {} /\ Kind(d) = "generic"
  <2>1. d.has = {}
    BY <1>1 DEF Kind, Descriptor, DataFields, AccessorFields, Flags
  <2> QED
    BY <2>1 DEF EcmaSame, Agrees
<1>2. CASE NoEffect(s, d)
  <2>1. Agrees(s, d, {"C", "E"}) /\ Kind(d) = s.kind
    BY <1>2 DEF NoEffect
  <2>2. CASE Kind(d) = "data"
    <3>1. Agrees(s, d, {"W"}) /\ ("value" \in d.has => d.value = s.value)
      BY <1>2, <2>2 DEF NoEffect
    <3>2. d.has \cap AccessorFields = {}
      BY <2>2 DEF Kind, Descriptor
    <3>3. Agrees(s, d, Flags)
      BY <2>1, <3>1 DEF Agrees, Flags
    <3> QED
      BY <2>1, <2>2, <3>1, <3>2, <3>3 DEF EcmaSame, AccessorFields
  <2>3. CASE Kind(d) = "accessor"
    <3>1. d.get = s.value.get /\ d.set = s.value.set
      BY <1>2, <2>3 DEF NoEffect
    <3>2. d.has \cap DataFields = {}
      BY <2>3 DEF Kind
    <3>3. Agrees(s, d, Flags)
      BY <2>1, <3>2 DEF Agrees, Flags, DataFields
    <3> QED
      BY <2>1, <2>3, <3>1, <3>2, <3>3 DEF EcmaSame, DataFields
  <2> QED
    BY <2>1, <2>2, <2>3 DEF StoredSlot
<1> QED
  BY <1>1, <1>2 DEF Verdict

\* A definition that changes nothing is not refused, and merging it changes
\* nothing.
LEMMA MergeOfSame ==
    ASSUME NEW s \in StoredSlot, NEW d \in Descriptor, EcmaSame(s, d),
           Verdict(s, d) # "keep"
    PROVE  ~Rejected(s, d) /\ Merge(s, d) = s
<1>0. d.on \subseteq d.has /\ d.on \subseteq Flags /\ s.on \subseteq Flags
      /\ s.kind \in {"data", "accessor"}
      /\ (s.kind = "accessor" => s.value \in Accessor /\ "W" \notin s.on)
      /\ s = [kind |-> s.kind, on |-> s.on, value |-> s.value]
      /\ (Kind(d) = "data" => d.has \cap AccessorFields = {})
  BY DEF Descriptor, StoredSlot, Kind
<1>1. /\ Agrees(s, d, Flags) /\ Agrees(s, d, {"C", "E"})
      /\ Agrees(s, d, {"W"}) /\ Agrees(s, d, {"E"})
  BY DEF EcmaSame, Agrees, Flags
<1>2. Replaced(s, d, Flags) = s.on /\ Replaced(s, d, {"E", "C"}) = s.on
  BY <1>0, <1>1 DEF Agrees, Replaced, Flags
<1>3. d.on \subseteq s.on
  BY <1>0, <1>1 DEF Agrees
<1>4. Kind(d) \in {"generic", s.kind}
  BY DEF EcmaSame, Kind
<1>5. Kind(d) # "data"
  <2>1. Kind(d) = "data" => NoEffect(s, d)
    BY <1>1, <1>4 DEF NoEffect, EcmaSame
  <2> QED
    BY <2>1 DEF Verdict
<1>6. CASE Kind(d) = "generic"
  BY <1>0, <1>1, <1>2, <1>3, <1>6 DEF Rejected, Merge
<1>7. CASE Kind(d) = "accessor"
  <2>1. s.kind = "accessor" /\ s.value \in Accessor /\ "W" \notin s.on
    BY <1>0, <1>4, <1>7
  <2>2. /\ "get" \in d.has => d.get = s.value.get
        /\ "set" \in d.has => d.set = s.value.set
    BY DEF EcmaSame
  <2>3. ~Rejected(s, d)
    BY <1>1, <1>3, <1>4, <1>7, <2>1, <2>2 DEF Rejected
  <2>4. s.value = [get |-> s.value.get, set |-> s.value.set]
    BY <2>1 DEF Accessor
  <2>5. Merge(s, d) = [kind |-> "accessor", on |-> s.on, value |-> s.value]
    BY <1>2, <1>7, <2>1, <2>2, <2>4 DEF Merge
  <2> QED
    BY <1>0, <2>1, <2>3, <2>5
<1> QED
  BY <1>5, <1>6, <1>7 DEF Kind

\* What the code leaves is what 8.12.9 leaves, except for an accessor that
\* becomes a data property without a value.
LEMMA MergeAsEcma ==
    ASSUME NEW s \in StoredSlot, NEW d \in Descriptor,
           ~(s.kind = "accessor" /\ Kind(d) = "data" /\ "value" \notin d.has)
    PROVE  Merge(s, d) = EcmaMerge(s, d)
<1>0. d.on \subseteq d.has /\ d.on \subseteq Flags /\ s.on \subseteq Flags
      /\ s.kind \in {"data", "accessor"}
      /\ (s.kind = "accessor" => s.value \in Accessor /\ "W" \notin s.on)
      /\ s = [kind |-> s.kind, on |-> s.on, value |-> s.value]
  BY DEF Descriptor, StoredSlot
<1>1. CASE Kind(d) = "generic"
  <2>1. d.has \cap DataFields = {} /\ d.has \cap AccessorFields = {}
    BY <1>1 DEF Kind
  <2>2. Replaced(s, d, Flags) = Replaced(s, d, {"E", "C"})
    BY <1>0, <2>1 DEF Replaced, Flags, DataFields
  <2>3. EcmaConverted(s, Kind(d)) = s
    BY <1>1 DEF EcmaConverted
  <2>4. CASE s.kind = "data"
    BY <1>0, <1>1, <2>1, <2>2, <2>3, <2>4 DEF Merge, EcmaMerge, DataFields
  <2>5. CASE s.kind = "accessor"
    <3>1. [get |-> s.value.get, set |-> s.value.set] = s.value
      BY <1>0, <2>5 DEF Accessor
    <3> QED
      BY <1>0, <1>1, <2>1, <2>2, <2>3, <2>5, <3>1 DEF Merge, EcmaMerge, AccessorFields
  <2> QED
    BY <1>0, <2>4, <2>5
<1>2. CASE Kind(d) = "data"
  <2>1. CASE s.kind = "data"
    BY <1>0, <1>2, <2>1 DEF Merge, EcmaMerge, EcmaConverted
  <2>2. CASE s.kind = "accessor"
    <3>1. "value" \in d.has
      BY <1>2, <2>2
    <3>2. s.on \ {"W"} = s.on
      BY <1>0, <2>2
    <3> QED
      BY <1>0, <1>2, <2>2, <3>1, <3>2 DEF Merge, EcmaMerge, EcmaConverted, Replaced
  <2> QED
    BY <1>0, <2>1, <2>2
<1>3. CASE Kind(d) = "accessor"
  <2>1. d.has \cap DataFields = {}
    BY <1>3 DEF Kind
  <2>2. "W" \notin d.has
    BY <2>1 DEF DataFields
  <2>3. CASE s.kind = "accessor"
    <3>1. Replaced(s, d, Flags) = Replaced(s, d, {"E", "C"}) \ {"W"}
      BY <1>0, <2>2, <2>3 DEF Replaced, Flags
    <3> QED
      BY <1>3, <2>3, <3>1 DEF Merge, EcmaMerge, EcmaConverted
  <2>4. CASE s.kind = "data"
    <3> DEFINE c == EcmaConverted(s, "accessor")
    <3>1. c.on = s.on \ {"W"} /\ c.kind = "accessor"
          /\ c.value.get = Undefined /\ c.value.set = Undefined
      BY <2>4 DEF EcmaConverted
    <3>2. Replaced(c, d, Flags) = Replaced(s, d, {"E", "C"}) \ {"W"}
      BY <1>0, <2>2, <3>1 DEF Replaced, Flags
    <3> HIDE DEF c
    <3> QED
      BY <1>3, <2>4, <3>1, <3>2 DEF Merge, EcmaMerge, c
  <2> QED
    BY <1>0, <2>3, <2>4
<1> QED
  BY <1>1, <1>2, <1>3 DEF Kind

LEMMA SlotAsEcma ==
    ASSUME NEW s \in StoredSlot, NEW d \in Descriptor,
           ~(s.kind = "accessor" /\ Kind(d) = "data" /\ "value" \notin d.has)
    PROVE  /\ Verdict(s, d) = "reject" <=> EcmaVerdict(s, d) = "reject"
           /\ Applied(s, d) = IF EcmaVerdict(s, d) = "merge" THEN EcmaMerge(s, d) ELSE s
<1>1. CASE EcmaSame(s, d)
  <2>1. EcmaVerdict(s, d) = "keep"
    BY <1>1 DEF EcmaVerdict
  <2>2. Verdict(s, d) # "keep" => ~Rejected(s, d) /\ Merge(s, d) = s
    BY <1>1, MergeOfSame
  <2> QED
    BY <2>1, <2>2 DEF Verdict, Applied
<1>2. CASE ~EcmaSame(s, d)
  <2>1. Verdict(s, d) # "keep" /\ (Rejected(s, d) <=> EcmaRejects(s, d))
    BY <1>2, KeptAsEcma, SameRejections
  <2>2. Merge(s, d) = EcmaMerge(s, d)
    BY MergeAsEcma
  <2>3. Verdict(s, d) = IF Rejected(s, d) THEN "reject" ELSE "merge"
    BY <2>1 DEF Verdict
  <2>4. EcmaVerdict(s, d) = IF EcmaRejects(s, d) THEN "reject" ELSE "merge"
    BY <1>2 DEF EcmaVerdict
  <2> QED
    BY <2>1, <2>2, <2>3, <2>4 DEF Applied
<1> QED
  BY <1>1, <1>2

\* Definitions follow ECMA-262 8.12.9 for every value, every descriptor and
\* every object a program can make, but in one case: a data descriptor without
\* a value leaves the Accessor cell of an accessor property in its place.
THEOREM FollowsEcmaOtherwiseHolds == Spec => []FollowsEcmaOtherwise
<1>1. TypeOK => FollowsEcmaOtherwise
  <2> SUFFICES ASSUME TypeOK, NEW o \in Objects, NEW n \in Names, NEW d \in Descriptors,
                      Exists(o), ~KeepsAccessorAsValue(object[o], n, d)
               PROVE  AsEcma(object[o], n, d)
    BY DEF FollowsEcmaOtherwise
  <2> DEFINE x == object[o]
  <2>1. x \in ObjectRecord /\ d \in Descriptor
    BY DescriptorsAssumption DEF TypeOK, Exists
  <2>2. PICK N \in SUBSET Names : x.props \in [N -> StoredSlot]
    BY <2>1 DEF ObjectRecord, Properties
  <2>3. CASE n \in DOMAIN x.props
    <3>1. x.props[n] \in StoredSlot
      BY <2>2, <2>3
    <3>2. ~(x.props[n].kind = "accessor" /\ Kind(d) = "data" /\ "value" \notin d.has)
      BY <2>3 DEF KeepsAccessorAsValue
    <3>3. /\ Verdict(x.props[n], d) = "reject" <=> EcmaVerdict(x.props[n], d) = "reject"
          /\ Applied(x.props[n], d) = IF EcmaVerdict(x.props[n], d) = "merge"
                                      THEN EcmaMerge(x.props[n], d) ELSE x.props[n]
      BY <2>1, <3>1, <3>2, SlotAsEcma
    <3> QED
      BY <2>3, <3>3 DEF AsEcma, Defined, EcmaDefined
  <2>4. CASE n \notin DOMAIN x.props
    BY <2>4 DEF AsEcma, Defined, EcmaDefined
  <2> QED
    BY <2>3, <2>4
<1> QED
  BY <1>1, TypeCorrect, PTL
=============================================================================
