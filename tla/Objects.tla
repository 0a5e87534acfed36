------------------------------- MODULE Objects -------------------------------
(***************************************************************************)
(* What the object system (vm/object.rs, vm/function.rs) promises to a     *)
(* program: objects are maps from names to properties, with a prototype    *)
(* and an extensible flag.  How properties are laid out, and the caches    *)
(* that find them, are the business of Structures, which implements this   *)
(* specification.                                                          *)
(*                                                                         *)
(* Indexed properties, arrays and the other exotic objects are left out.   *)
(* Prototypes never change: the engine has no setPrototypeOf.  NoObject    *)
(* also stands for the built-in Object.prototype, at which chains end.     *)
(***************************************************************************)
EXTENDS PropertyDescriptor

CONSTANTS
    Objects,
    Names,          \* property names
    Descriptors,    \* the descriptors Object.defineProperty is called with
    Constructors,   \* the objects that are functions
    Prototype,      \* the name "prototype"
    NoObject

ASSUME ObjectsAssumption ==
    /\ Constructors \subseteq Objects
    /\ Constructors # {} => Objects \subseteq Values /\ Prototype \in Names
    /\ NoObject \notin Values \cup {Undefined}
ASSUME DescriptorsAssumption == Descriptors \subseteq Descriptor

VARIABLE object

Properties == UNION {[N -> StoredSlot] : N \in SUBSET Names}

ObjectRecord ==
    [proto : Objects \cup {NoObject}, extensible : BOOLEAN, props : Properties]

\* Every object is an object record or not created yet.
TypeOK == object \in [Objects -> ObjectRecord \cup {NoObject}]

Exists(o) == object[o] # NoObject

\* A program can use v as a value: it is not an object yet to be created.
Available(v) == v \in Objects => Exists(v)

Init == object = [o \in Objects |-> NoObject]

-----------------------------------------------------------------------------
\* A property map with n bound to s.
Bind(props, n, s) ==
    [m \in DOMAIN props \cup {n} |-> IF m = n THEN s ELSE props[m]]

\* What DefineOwnNonIndexedPropertySlotMethod leaves in an existing property.
Applied(s, d) == IF Verdict(s, d) = "merge" THEN Merge(s, d) ELSE s

\* JsObject::DefineOwnNonIndexedPropertySlotMethod.
Defined(x, n, d) ==
    IF n \in DOMAIN x.props
    THEN [x EXCEPT !.props[n] = Applied(@, d)]
    ELSE IF x.extensible THEN [x EXCEPT !.props = Bind(@, n, NewSlot(d))] ELSE x

\* The first object with an own property n on the chain that starts at o:
\* JsObject::GetNonIndexedPropertySlotMethod.
Holder(o, n) ==
    LET H[q \in Objects] ==
            IF ~Exists(q) THEN NoObject
            ELSE IF n \in DOMAIN object[q].props THEN q
            ELSE IF object[q].proto = NoObject THEN NoObject ELSE H[object[q].proto]
    IN  H[o]

\* JsObject::can_put_non_indexed.
CanPut(o, n) ==
    IF Holder(o, n) = NoObject THEN object[o].extensible
    ELSE LET s == object[Holder(o, n)].props[n] IN
         IF s.kind = "accessor" THEN s.value.set # Undefined ELSE "W" \in s.on

\* The property that an assignment to n finds, if any, is an accessor.
FindsAccessor(o, n) ==
    Holder(o, n) # NoObject /\ object[Holder(o, n)].props[n].kind = "accessor"

\* The descriptor that PutNonIndexedSlotMethod defines.
PutDescriptor(o, n, v) ==
    IF n \in DOMAIN object[o].props THEN ValueDescriptor(v)
    ELSE DataDescriptor(v, Flags)

Empty(proto) ==
    [proto |-> proto, extensible |-> TRUE, props |-> [n \in {} |-> Undefined]]

Create(o, x) == ~Exists(o) /\ object' = [object EXCEPT ![o] = x]

\* Object literals (JsObject::new_empty).
NewObject(o) == o \notin Constructors /\ Create(o, Empty(NoObject))

\* Object.create.
ObjectCreate(o, p) == o \notin Constructors /\ Exists(p) /\ Create(o, Empty(p))

\* JsVMFunction::new: a function with a fresh object as its prototype property.
NewFunction(f, p) ==
    /\ f \in Constructors /\ ~Exists(f)
    /\ p \notin Constructors /\ ~Exists(p)
    /\ object' = [object EXCEPT
         ![p] = Empty(NoObject),
         ![f] = Defined(Empty(NoObject), Prototype, DataDescriptor(p, {"W"}))]

\* OP_NEW: the prototype of the new object is the function's prototype
\* property now (func_construct_map).
Construct(o, f) ==
    /\ f \in Constructors /\ Exists(f)
    /\ o \notin Constructors
    /\ LET v == object[f].props[Prototype].value IN
       Create(o, Empty(IF v \in Objects THEN v ELSE NoObject))

\* Object.defineProperty.
DefineOwn(o, n, d) ==
    /\ Exists(o) /\ Available(d.value)
    /\ object' = [object EXCEPT ![o] = Defined(@, n, d)]

\* JsObject::PutNonIndexedSlotMethod.  A setter is called and does what it
\* does in later steps.
Put(o, n, v) ==
    /\ Exists(o) /\ Available(v)
    /\ CanPut(o, n)
    /\ ~FindsAccessor(o, n)
    /\ object' = [object EXCEPT ![o] = Defined(@, n, PutDescriptor(o, n, v))]

\* Mutant of Delete: the test of configurable is dropped.
Delete_Always(o, n) ==
    /\ Exists(o)
    /\ n \in DOMAIN object[o].props
    /\ object' = [object EXCEPT ![o].props =
                    [m \in DOMAIN @ \ {n} |-> @[m]]]

\* JsObject::DeleteNonIndexedMethod, when it deletes.
Delete(o, n) ==
    /\ Exists(o)
    /\ n \in DOMAIN object[o].props
    /\ "C" \in object[o].props[n].on
    /\ object' = [object EXCEPT ![o].props =
                    [m \in DOMAIN @ \ {n} |-> @[m]]]

\* Object.preventExtensions (JsObject::change_extensible).
PreventExtensions(o) ==
    /\ Exists(o)
    /\ object' = [object EXCEPT ![o].extensible = FALSE]

Unset(props, fs) == [n \in DOMAIN props |-> [props[n] EXCEPT !.on = @ \ fs]]

\* JsObject::seal and freeze: every property loses the flags fs, and the
\* object is made non-extensible.
SetIntegrity(o, fs) ==
    /\ Exists(o)
    /\ object' = [object EXCEPT
         ![o].extensible = FALSE,
         ![o].props = Unset(@, fs)]

Seal == {"C"}
Freeze == {"W", "C"}

Next ==
    \/ \E o \in Objects : NewObject(o)
    \/ \E o, p \in Objects :
        ObjectCreate(o, p) \/ NewFunction(o, p) \/ Construct(o, p)
    \/ \E o \in Objects, n \in Names :
        \/ \E d \in Descriptors : DefineOwn(o, n, d)
        \/ \E v \in Values : Put(o, n, v)
        \/ Delete(o, n)
    \/ \E o \in Objects :
        PreventExtensions(o) \/ SetIntegrity(o, Seal) \/ SetIntegrity(o, Freeze)

Spec == Init /\ [][Next]_object

-----------------------------------------------------------------------------
\* A locked property: what a step may do with a property that is not
\* configurable.
StaysLocked(s, t) ==
    /\ t.kind = s.kind
    /\ "C" \notin t.on
    /\ "E" \in t.on <=> "E" \in s.on
    /\ s.kind = "data" /\ "W" \notin s.on => t = s
    /\ s.kind = "accessor" => t = s

\* The invariants of the essential internal methods, over any sequence of
\* calls: a non-configurable property is never deleted, never becomes
\* configurable, keeps its kind and enumerable, and if it is read-only or an
\* accessor, everything; an object that is not extensible stays so and gets no
\* property.  This holds together is_defined_property_accepted,
\* merge_with_no_effect, merge, DeleteNonIndexedMethod, can_put and freeze.
EssentialInvariants ==
    [][\A o \in Objects : Exists(o) =>
        LET x == object[o]
            y == object'[o]
        IN  /\ \A n \in DOMAIN x.props : "C" \notin x.props[n].on =>
                n \in DOMAIN y.props /\ StaysLocked(x.props[n], y.props[n])
            /\ ~x.extensible => ~y.extensible /\ DOMAIN y.props \subseteq DOMAIN x.props
       ]_object

\* Assignment never shadows: an object gets an own property n by an assignment
\* only when nothing on its chain makes n read-only or an accessor.  (In the
\* model, by any step that is not a definition.)
Shadows(o, n) ==
    /\ Exists(o)
    /\ n \notin DOMAIN object[o].props
    /\ n \in DOMAIN object'[o].props

ReadOnlyIsInherited ==
    [][\A o \in Objects, n \in Names :
        /\ Shadows(o, n)
        /\ Holder(o, n) # NoObject
        /\ "W" \notin object[Holder(o, n)].props[n].on
        => \E d \in Descriptors : DefineOwn(o, n, d)]_object
=============================================================================
