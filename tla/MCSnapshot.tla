------------------------------ MODULE MCSnapshot ------------------------------
(***************************************************************************)
(* Heaps for the model of snapshots: each is a context with its global     *)
(* object, and the cells of one part of the engine.  Between them they     *)
(* hold every type of cell and every variant of the enumerations.          *)
(***************************************************************************)
EXTENDS Snapshot

nat(name) == <<"native", name>>
kinds == <<"JsObject", "ArrayStorage", "JsString", "Structure", "TargetTable", "Table", "SparseArrayMap",
           "DeletedEntry", "StructureChain", "WeakSlot", "CodeBlock", "Environment", "Accessor",
           "SpreadValue", "JsSymbol", "Context">>
classes == <<"JsGlobal", "Function", "Arguments", "String", "NumberObject", "Date", "JsArrayBuffer",
             "Array", "BooleanObject", "JsWeakRef">>
external == <<"print", "init_std">>
NativeTable == [i \in 1 .. Len(kinds \o classes \o external) |-> nat((kinds \o classes \o external)[i])]

cell(kind, data) ==
  LET c == [kind |-> kind, ready |-> TRUE, room |-> <<>>, data |-> data] IN [c EXCEPT !.room = Needs(c)]
obj(i) == [is |-> "object", object |-> Cell(i)]
raw(n) == [is |-> "raw", bits |-> n]
key(n) == [is |-> "Key", id |-> n]
index(n) == [is |-> "Index", index |-> n]

plain == [entry |-> None, size |-> 0]
structure(var) ==
  cell("Structure",
    [transitions |-> [var |-> var, enabled |-> 1, unique |-> 0, indexed |-> 0], table |-> None,
     deleted |-> plain, name |-> [is |-> "Reserved", id |-> 2], entry |-> [offset |-> 7, attrs |-> 1],
     previous |-> None, prototype |-> None, calculated_size |-> 3, transit_count |-> 4,
     has_been_flattened_before |-> 0, cached_prototype_chain |-> None])
changed(var, r) == cell("Structure", r @@ structure(var).data)
object(tag, class, data, extra) ==
  cell("JsObject",
    [tag |-> tag, class |-> nat(class), slots |-> Cell(4), structure |-> Cell(3), flags |-> 5,
     indexed |-> [vector |-> Cell(4), map |-> None, length |-> 2, flags |-> 1],
     data |-> data] @@ (IF extra = <<>> THEN <<>> ELSE [extra |-> extra]))

absent == [f \in ToSet(GlobalDataWritten) |-> None]
globals == [absent EXCEPT !.empty_object_struct = Some(Cell(3)), !.object_prototype = Some(Cell(2)),
                          !.boolean_structure = Some(Cell(3))]
noStd == <<>>
context(modules) ==
  cell("Context", [global_data |-> globals, global_object |-> Some(Cell(2)), symbol_table |-> <<>>,
                   module_loader |-> None, modules |-> modules])
global(variables, names) ==
  object("Global", "JsGlobal", [ctx |-> Cell(1), sym_map |-> names, variables |-> variables], <<>>)
var(v) == [value |-> v, attributes |-> 6]
realm(modules, variables, names, more, weak) ==
  [cells |-> [a \in {Cell(i) : i \in 1 .. (4 + Len(more))} |->
                CASE a[2] = 1 -> context(modules)
                  [] a[2] = 2 -> global([i \in DOMAIN variables |-> var(variables[i])], names)
                  [] a[2] = 3 -> structure([is |-> "None"])
                  [] a[2] = 4 -> cell("ArrayStorage", [items |-> <<raw(1), raw(2)>>, capacity |-> 4])
                  [] OTHER -> more[a[2] - 4]],
   weak |-> weak, symbols |-> <<11, 12>>]
simple(variables, more) == realm(noStd, variables, <<>>, more, <<>>)

pair == [is |-> "Pair", key |-> [name |-> key(1), attrs |-> 3], structure |-> Cell(5)]
shapes == realm(noStd, <<obj(7), obj(11)>>, <<<<key(2), 0>>>>,
  << cell("WeakSlot", Some(Cell(6))),
     changed(pair, [previous |-> Some(Cell(7))]),
     changed([is |-> "Table", table |-> Some(Cell(8))],
             [table |-> Some(Cell(10)), prototype |-> Some(Cell(2)), name |-> key(2)]),
     cell("Table", <<<<[name |-> key(2), attrs |-> 1], Cell(9)>>>>),
     cell("WeakSlot", Some(Cell(3))),
     cell("TargetTable", <<<<key(1), [offset |-> 0, attrs |-> 2]>>, <<index(9), [offset |-> 1, attrs |-> 3]>>>>),
     changed(pair, [calculated_size |-> 9]),
     cell("WeakSlot", None) >>,
  <<Cell(5), Cell(9), Cell(12)>>)

feedback == << [is |-> "PropertyCache", structure |-> Cell(3), offset |-> 1,
                mode |-> [is |-> "ProtoLoad", slot |-> Cell(4)]],
               [is |-> "PropertyCache", structure |-> Cell(3), offset |-> 2, mode |-> [is |-> "Default"]],
               [is |-> "PropertyCache", structure |-> Cell(3), offset |-> 3, mode |-> [is |-> "ArrayLength"]],
               [is |-> "StructureCache", structure |-> Cell(3)],
               [is |-> "PutByIdFeedBack", new_structure |-> Some(Cell(3)), old_structure |-> None,
                offset |-> 4, structure_chain |-> Some(Cell(9))],
               [is |-> "None"] >>
code(more) ==
  cell("CodeBlock",
    [name |-> key(1), names |-> <<key(2), index(3)>>, strict |-> 1, code |-> <<7, 8, 9>>,
     feedback |-> feedback, literals |-> <<raw(5), obj(4)>>, codes |-> more, top_level |-> 0,
     use_arguments |-> 1, file_name |-> <<1>>, rest_at |-> Some(2), var_count |-> 2, param_count |-> 3,
     args_at |-> 4, is_constructor |-> 0, loc |-> <<[start |-> 1, end |-> 2, line |-> 3, col |-> 4]>>,
     path |-> <<2, 3>>, is_generator |-> 1, is_async |-> 0])
function(ty, construct) == object("Function", "Function", [construct_struct |-> construct, ty |-> ty], <<>>)
functions == simple(<<obj(5), obj(10), obj(11), obj(12), obj(13)>>,
  << function([is |-> "User", scope |-> Cell(6), code |-> Cell(7)], Some(Cell(3))),
     cell("Environment", [parent |-> None, values |-> <<[value |-> raw(8), mutable |-> 0],
                                                       [value |-> obj(5), mutable |-> 1]>>]),
     code(<<Cell(8)>>), code(<<>>), cell("StructureChain", <<Cell(3), Cell(3)>>),
     function([is |-> "Native", func |-> nat("print")], None),
     function([is |-> "Bound", args |-> Cell(4), target |-> Cell(5), this |-> raw(9)], None),
     function([is |-> "Generator", function |-> Cell(5)], None),
     object("NormalArguments", "Arguments", [mapping |-> <<key(1), key(2)>>, env |-> Cell(6)], <<>>) >>)

values == simple(<<obj(5), obj(7), obj(8), obj(9), obj(11), obj(12), obj(13), obj(14), obj(15), obj(16)>>,
  << object("String", "String", [value |-> Cell(6)], <<>>), cell("JsString", <<4, 5>>),
     cell("Accessor", [getter |-> obj(2), setter |-> raw(3)]),
     cell("JsSymbol", [sym |-> [is |-> "Private", id |-> 2]]),
     object("Array", "Array", <<>>, <<>>),
     cell("SparseArrayMap", <<<<6, [value |-> raw(1), attributes |-> 2]>>>>),
     object("Ordinary", "Date", <<>>, [time |-> [is |-> "Valid", b1 |-> 1, b2 |-> 2]]),
     object("Ordinary", "Date", <<>>, [time |-> [is |-> "Invalid"]]),
     object("Ordinary", "NumberObject", <<>>, [value |-> 6]),
     object("Ordinary", "JsArrayBuffer", <<>>, [buffer |-> [is |-> "Attached", data |-> <<1, 2, 3>>]]),
     object("Ordinary", "JsArrayBuffer", <<>>, [buffer |-> [is |-> "Detached", size |-> 8]]),
     cell("SpreadValue", [array |-> <<raw(1), obj(10)>>]) >>)

modules == realm(<<<<<<1>>, [is |-> "Initialized", object |-> Cell(2)]>>,
                   <<<<2>>, [is |-> "NativeUninit", init |-> nat("init_std")]>>>>, <<>>, <<>>, <<>>, <<>>)

\* Heaps no snapshot can hold, and one whose snapshot cannot be read.
withObject(o) == simple(<<obj(5)>>, <<o>>)
refused == { withObject(function([is |-> "Closure"], None)),
             withObject(cell("NativeIterator", <<>>)),
             withObject(object("Ordinary", "JsWeakRef", <<>>, <<>>)),
             withObject(object("Ordinary", "RegExp", <<>>, <<>>)),
             withObject(function([is |-> "Native", func |-> nat("mine")], None)),
             simple(<<>>, <<cell("StructureChain", <<Cell(3)>>)>>),
             simple(<<obj(6)>>, << cell("StructureChain", <<Cell(3)>>),
                                   changed([is |-> "None"], [cached_prototype_chain |-> Some(Cell(5))]) >>),
             simple(<<obj(5)>>, << changed([is |-> "None"], [deleted |-> [entry |-> Some(Cell(6)), size |-> 1]]),
                                   cell("DeletedEntry", [prev |-> None, offset |-> 3]) >>) }
\* An object for a script to abandon.
date == object("Ordinary", "Date", <<>>, [time |-> [is |-> "Invalid"]])
scratch == [simple(<<obj(5)>>, <<date>>) EXCEPT !.symbols = <<>>]
MCRealms == {shapes, functions, values, modules, scratch} \cup refused
MCOtherSymbols == {<<>>, <<12>>, <<13, 12>>}
=============================================================================
