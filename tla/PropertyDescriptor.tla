-------------------------- MODULE PropertyDescriptor --------------------------
(***************************************************************************)
(* Property descriptors and stored properties (vm/property_descriptor.rs,  *)
(* vm/attributes.rs), and the ES5 algorithm they implement.                *)
(*                                                                         *)
(* A descriptor is what a caller asks for: "has" are its present fields    *)
(* (the code keeps UNDEF_ bits for the absent ones), "on" those of the     *)
(* flags W, E and C that are true.  A stored property has no absent        *)
(* fields; the value of an accessor property is its Accessor cell.         *)
(***************************************************************************)

CONSTANTS
    Values,         \* JavaScript values
    Functions,      \* callable values that may be getters and setters
    Undefined       \* JavaScript's undefined

ASSUME UndefinedAssumption == Undefined \notin Values /\ Undefined \notin Functions

Flags == {"W", "E", "C"}
DataFields == {"value", "W"}
AccessorFields == {"get", "set"}

\* What to_property_descriptor and the engine's own constructors build: a
\* descriptor never has data and accessor fields, absent fields are undefined.
Descriptor ==
    {d \in [has : SUBSET (Flags \cup {"value", "get", "set"}),
            on : SUBSET Flags,
            value : Values \cup {Undefined},
            get : Functions \cup {Undefined},
            set : Functions \cup {Undefined}] :
        /\ d.on \subseteq d.has
        /\ d.has \cap DataFields = {} \/ d.has \cap AccessorFields = {}
        /\ "value" \in d.has \/ d.value = Undefined
        /\ "get" \in d.has \/ d.get = Undefined
        /\ "set" \in d.has \/ d.set = Undefined}

Accessor == [get : Functions \cup {Undefined}, set : Functions \cup {Undefined}]

StoredSlot ==
    {s \in [kind : {"data", "accessor"}, on : SUBSET Flags,
            value : Values \cup {Undefined} \cup Accessor] :
        s.kind = "accessor" => s.value \in Accessor /\ "W" \notin s.on}

DataDescriptor(v, on) ==
    [has |-> {"value", "W", "E", "C"}, on |-> on, value |-> v,
     get |-> Undefined, set |-> Undefined]

\* The descriptor of an assignment to an existing property.
ValueDescriptor(v) ==
    [has |-> {"value"}, on |-> {}, value |-> v, get |-> Undefined, set |-> Undefined]

Kind(d) ==
    IF d.has \cap DataFields # {} THEN "data"
    ELSE IF d.has \cap AccessorFields # {} THEN "accessor" ELSE "generic"

\* The flags fs of slot s, where d has them, are as d wants them.
Agrees(s, d, fs) == \A f \in fs \cap d.has : f \in s.on <=> f \in d.on

-----------------------------------------------------------------------------
\* Mutant of NoEffect: the comparison of writable is dropped.
NoEffect_NotWritable(s, d) ==
    /\ Agrees(s, d, {"C", "E"})
    /\ Kind(d) = s.kind
    /\ CASE Kind(d) = "data" -> "value" \in d.has => d.value = s.value
         [] OTHER -> d.get = s.value.get /\ d.set = s.value.set

\* StoredSlot::merge_with_no_effect.
NoEffect(s, d) ==
    /\ Agrees(s, d, {"C", "E"})
    /\ Kind(d) = s.kind
    /\ CASE Kind(d) = "data" -> /\ Agrees(s, d, {"W"})
                                /\ "value" \in d.has => d.value = s.value
         [] OTHER -> d.get = s.value.get /\ d.set = s.value.set

\* StoredSlot::is_defined_property_accepted refuses d, which would have an
\* effect.  Only a non-configurable property refuses anything.
Rejected(s, d) ==
    /\ "C" \notin s.on
    /\ \/ "C" \in d.on \/ ~Agrees(s, d, {"E"})
       \/ Kind(d) # "generic" /\ Kind(d) # s.kind
       \/ /\ Kind(d) = "data" /\ s.kind = "data" /\ "W" \notin s.on
          /\ "W" \in d.on \/ d.value # s.value
       \/ /\ Kind(d) = "accessor" /\ s.kind = "accessor"
          /\ \/ "set" \in d.has /\ d.set # s.value.set
             \/ "get" \in d.has /\ d.get # s.value.get

\* StoredSlot::is_defined_property_accepted: whether the descriptor is to be
\* merged, is refused, or leaves the property as it is.
Verdict(s, d) ==
    IF (d.has \cap {"E", "C"} = {} /\ Kind(d) = "generic") \/ NoEffect(s, d)
    THEN "keep" ELSE IF Rejected(s, d) THEN "reject" ELSE "merge"

\* The flags fs of slot s, replaced where d has them.
Replaced(s, d, fs) == (s.on \ (fs \cap d.has)) \cup (fs \cap d.on)

\* StoredSlot::merge.  A data descriptor without a value leaves whatever the
\* slot holds, also when that is the Accessor of the property it replaces.
Merge(s, d) ==
    CASE Kind(d) = "generic" -> [s EXCEPT !.on = Replaced(s, d, {"E", "C"})]
      [] Kind(d) = "data" ->
            [kind |-> "data", on |-> Replaced(s, d, Flags),
             value |-> IF "value" \in d.has THEN d.value ELSE s.value]
      [] OTHER ->
            [kind |-> "accessor", on |-> Replaced(s, d, {"E", "C"}) \ {"W"},
             value |-> [get |-> IF "get" \in d.has THEN d.get ELSE
                                IF s.kind = "accessor" THEN s.value.get ELSE Undefined,
                        set |-> IF "set" \in d.has THEN d.set ELSE
                                IF s.kind = "accessor" THEN s.value.set ELSE Undefined]]

\* StoredSlot::new: the property a descriptor creates.
NewSlot(d) ==
    IF Kind(d) = "accessor"
    THEN [kind |-> "accessor", on |-> d.on, value |-> [get |-> d.get, set |-> d.set]]
    ELSE [kind |-> "data", on |-> d.on, value |-> d.value]

-----------------------------------------------------------------------------
(* ECMA-262 (5th edition) 8.12.9, steps 5 to 12, the algorithm that the     *)
(* comment on is_defined_property_accepted names.                           *)

\* Step 6: every field of d occurs in s with the same value.
EcmaSame(s, d) ==
    /\ Agrees(s, d, Flags)
    /\ d.has \cap DataFields # {} => s.kind = "data"
    /\ d.has \cap AccessorFields # {} => s.kind = "accessor"
    /\ "value" \in d.has => d.value = s.value
    /\ "get" \in d.has => d.get = s.value.get
    /\ "set" \in d.has => d.set = s.value.set

\* Steps 7 to 11.
EcmaRejects(s, d) ==
    /\ "C" \notin s.on
    /\ \/ "C" \in d.on
       \/ ~Agrees(s, d, {"E"})
       \/ Kind(d) # "generic" /\ Kind(d) # s.kind
       \/ /\ Kind(d) = "data" /\ s.kind = "data" /\ "W" \notin s.on
          /\ "W" \in d.on \/ ("value" \in d.has /\ d.value # s.value)
       \/ /\ Kind(d) = "accessor" /\ s.kind = "accessor"
          /\ \/ "set" \in d.has /\ d.set # s.value.set
             \/ "get" \in d.has /\ d.get # s.value.get

EcmaVerdict(s, d) ==
    IF EcmaSame(s, d) THEN "keep"
    ELSE IF EcmaRejects(s, d) THEN "reject" ELSE "merge"

\* Step 9: conversion keeps configurable and enumerable and sets the rest to
\* their defaults.
EcmaConverted(s, kind) ==
    IF kind \in {"generic", s.kind} THEN s
    ELSE [kind |-> kind, on |-> s.on \ {"W"},
          value |-> IF kind = "data" THEN Undefined
                    ELSE [get |-> Undefined, set |-> Undefined]]

\* Step 12: every present field is set.
EcmaMerge(s, d) ==
    LET c == EcmaConverted(s, Kind(d)) IN
    [kind |-> c.kind,
     on |-> Replaced(c, d, Flags),
     value |-> IF c.kind = "data"
               THEN IF "value" \in d.has THEN d.value ELSE c.value
               ELSE [get |-> IF "get" \in d.has THEN d.get ELSE c.value.get,
                     set |-> IF "set" \in d.has THEN d.set ELSE c.value.set]]
=============================================================================
