------------------------------ MODULE MCObjects ------------------------------
(***************************************************************************)
(* Chains of three objects, with one name and a handful of descriptors.    *)
(***************************************************************************)
EXTENDS EcmaObjects, TLC

CONSTANTS datum, getter

\* {get: getter}, {value: datum}, {writable: true}, {configurable: false}, a read-only
\* and an ordinary data property.
SomeDescriptors ==
    {[has |-> {"get"}, on |-> {}, value |-> Undefined, get |-> getter, set |-> Undefined],
     [has |-> {"W"}, on |-> {"W"}, value |-> Undefined, get |-> Undefined, set |-> Undefined],
     [has |-> {"C"}, on |-> {}, value |-> Undefined, get |-> Undefined, set |-> Undefined],
     ValueDescriptor(datum), DataDescriptor(datum, {"C"}), DataDescriptor(datum, Flags)}
=============================================================================
