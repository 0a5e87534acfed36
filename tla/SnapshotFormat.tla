--------------------------- MODULE SnapshotFormat ---------------------------
(***************************************************************************)
(* The bytes of a heap snapshot (gc/snapshot/serializer.rs and             *)
(* deserializer.rs, and the serializers other files give their own types). *)
(*                                                                         *)
(* Every type has two descriptions, one translated from its Serializable   *)
(* implementation and one from its Deserializable implementation; nothing  *)
(* but convention makes them agree, and the stream holds no type tags.     *)
(* Bytes are grouped into tokens: a token is what one write_uN leaves, with *)
(* its width.  A read of another width than what was written there has     *)
(* lost the stream (pc 0): what it returns is unrelated bytes.             *)
(***************************************************************************)
EXTENDS Integers, Sequences, FiniteSets, SequencesExt

Lost == 0
Null == <<"null", 0>>       \* a reference_map entry nothing was stored in
None == <<>>
Some(x) == <<x>>

------------------------------------------------------------------------------
(* Terms for the types of the format.                                       *)
U8 == <<"num", 1>>
U32 == <<"num", 4>>
U64 == <<"num", 8>>
Bool == U8
Gc == <<"ref">>             \* GcPointer, WeakRef: a u32 index of reference_map
Native == <<"ref">>         \* a class or a native function: the same
Interned == <<"sym">>       \* a u32 index of the snapshot's symbol table
Opt(t) == <<"opt", t>>
Vec(t) == <<"vec", t>>      \* u64 length, u64 capacity, items
Slice(t) == <<"slice", t>>  \* u64 length, items
List(t) == <<"list", t>>    \* u32 length, items
MapOf(k, v) == <<"map", k, v>>   \* u64 length, u64 capacity, pairs in the order of the iteration
Fields(name) == <<"fields", name>>
Tagged(name) == <<"tagged", name>>
JsValue == Tagged("JsValue")
Symbol == Tagged("Symbol")
String == Vec(U8)

------------------------------------------------------------------------------
(* What the Serializable implementations write.  Fields of a record in the  *)
(* order they are written; variants of an enumeration with the byte written *)
(* before their fields.                                                     *)
WrittenValues == [
  JsValue |-> [object |-> <<255, <<<<"object", Gc>>>> >>,
               raw |-> <<31, <<<<"bits", U64>>>> >>],
  Symbol |-> [Index |-> <<255, <<<<"index", U32>>>> >>,
              Reserved |-> <<31, <<<<"id", U32>>>> >>,
              Key |-> <<47, <<<<"id", Interned>>>> >>,
              Private |-> <<63, <<<<"id", Interned>>>> >>]]
WrittenShapes == [
  Transition |-> [None |-> <<0, <<>> >>,
                  Table |-> <<1, <<<<"table", Opt(Gc)>>>> >>,
                  Pair |-> <<2, <<<<"key", Fields("TransitionKey")>>, <<"structure", Gc>>>> >>]]
WrittenFeedback == [
  GetByIdMode |-> [ArrayLength |-> <<0, <<>> >>,
                   Default |-> <<1, <<>> >>,
                   ProtoLoad |-> <<2, <<<<"slot", Gc>>>> >>],
  TypeFeedBack |-> [
      PropertyCache |-> <<1, <<<<"structure", Gc>>, <<"offset", U32>>,
                               <<"mode", Tagged("GetByIdMode")>>>> >>,
      StructureCache |-> <<2, <<<<"structure", Gc>>>> >>,
      PutByIdFeedBack |-> <<3, <<<<"new_structure", Opt(Gc)>>, <<"old_structure", Opt(Gc)>>,
                                 <<"offset", U32>>, <<"structure_chain", Opt(Gc)>>>> >>,
      None |-> <<0, <<>> >>]]
WrittenModules == [
  ModuleKind |-> [Initialized |-> <<0, <<<<"object", Gc>>>> >>,
                  NativeUninit |-> <<1, <<<<"init", Native>>>> >>]]

WrittenFunctions == [
  FuncType |-> [User |-> <<1, <<<<"scope", Gc>>, <<"code", Gc>>>> >>,
                Native |-> <<2, <<<<"func", Native>>>> >>,
                Bound |-> <<3, <<<<"args", Gc>>, <<"target", Gc>>, <<"this", JsValue>>>> >>,
                Generator |-> <<4, <<<<"function", Gc>>>> >>]]

WrittenStructures == [
  TransitionKey |-> <<<<"name", Symbol>>, <<"attrs", U32>>>>,
  MapEntry |-> <<<<"offset", U32>>, <<"attrs", U32>>>>,
  TransitionsTable |-> <<<<"var", Tagged("Transition")>>, <<"enabled", Bool>>,
                         <<"unique", Bool>>, <<"indexed", Bool>>>>,
  DeletedEntry |-> <<<<"prev", Opt(Gc)>>, <<"offset", U32>>>>,
  DeletedEntryHolder |-> <<<<"entry", Opt(Gc)>>, <<"size", U32>>>>,
  Structure |-> <<<<"transitions", Fields("TransitionsTable")>>, <<"table", Opt(Gc)>>,
                  <<"deleted", Fields("DeletedEntryHolder")>>, <<"name", Symbol>>,
                  <<"entry", Fields("MapEntry")>>, <<"previous", Opt(Gc)>>,
                  <<"prototype", Opt(Gc)>>, <<"calculated_size", U32>>, <<"transit_count", U32>>,
                  <<"has_been_flattened_before", Bool>>, <<"cached_prototype_chain", Opt(Gc)>>>>]

WrittenCode == [
  FileLocation |-> <<<<"start", U32>>, <<"end", U32>>, <<"line", U32>>, <<"col", U32>>>>,
  CodeBlock |-> <<<<"name", Symbol>>, <<"names", Vec(Symbol)>>, <<"strict", Bool>>,
                  <<"code", Vec(U8)>>, <<"feedback", Vec(Tagged("TypeFeedBack"))>>,
                  <<"literals", Vec(JsValue)>>, <<"codes", Vec(Gc)>>, <<"top_level", Bool>>,
                  <<"use_arguments", Bool>>, <<"file_name", String>>, <<"rest_at", Opt(U32)>>,
                  <<"var_count", U32>>, <<"param_count", U32>>, <<"args_at", U32>>,
                  <<"is_constructor", Bool>>, <<"loc", List(Fields("FileLocation"))>>,
                  <<"path", String>>, <<"is_generator", Bool>>, <<"is_async", Bool>>>>]

WrittenCells == [
  StoredSlot |-> <<<<"value", JsValue>>, <<"attributes", U32>>>>,
  IndexedElements |-> <<<<"vector", Gc>>, <<"map", Opt(Gc)>>, <<"length", U32>>, <<"flags", U32>>>>,
  Accessor |-> <<<<"getter", JsValue>>, <<"setter", JsValue>>>>,
  JsSymbol |-> <<<<"sym", Symbol>>>>,
  SpreadValue |-> <<<<"array", Vec(JsValue)>>>>,
  JsObject |-> <<<<"class", Native>>, <<"slots", Gc>>, <<"structure", Gc>>,
                 <<"indexed", Fields("IndexedElements")>>, <<"flags", U32>>>>]

\* The serializers in other files.
WrittenEnvironment == [
  Variable |-> <<<<"value", JsValue>>, <<"mutable", Bool>>>>,
  Environment |-> <<<<"parent", Opt(Gc)>>, <<"values", List(Fields("Variable"))>>>>]

\* What follows the common part of an object, by its ObjectTag ...
WrittenTagData == [
  NormalArguments |-> <<<<"mapping", Slice(Symbol)>>, <<"env", Gc>>>>,
  Global |-> <<<<"ctx", Gc>>, <<"sym_map", MapOf(Symbol, U32)>>,
               <<"variables", Slice(Fields("StoredSlot"))>>>>,
  Function |-> <<<<"construct_struct", Opt(Gc)>>, <<"ty", Tagged("FuncType")>>>>,
  String |-> <<<<"value", Gc>>>>,
  Ordinary |-> <<>>, Array |-> <<>>]

\* ... and by its class, when the class has a serialize function.  (A date is
\* the bytes of a NaiveDateTime: two of them here.)
WrittenClassData == [
  NumberObject |-> <<<<"value", U64>>>>,
  Date |-> <<<<"time", Tagged("Date")>>>>,
  JsArrayBuffer |-> <<<<"buffer", Tagged("Buffer")>>>>]
WrittenClassTags == [
  Date |-> [Valid |-> <<1, <<<<"b1", U8>>, <<"b2", U8>>>> >>, Invalid |-> <<0, <<>> >>],
  Buffer |-> [Attached |-> <<1, <<<<"data", List(U8)>>>> >>, Detached |-> <<0, <<<<"size", U32>>>> >>]]

GlobalDataWritten == <<
  "normal_arguments_structure", "empty_object_struct", "function_struct", "object_prototype",
  "number_prototype", "string_prototype", "boolean_prototype", "symbol_prototype", "error",
  "type_error", "uri_error", "reference_error", "range_error", "syntax_error", "internal_error",
  "eval_error", "array_prototype", "func_prototype", "string_structure", "number_structure",
  "array_structure", "error_structure", "range_error_structure", "reference_error_structure",
  "syntax_error_structure", "type_error_structure", "uri_error_structure", "eval_error_structure",
  "map_prototype", "map_structure", "set_prototype", "set_structure", "regexp_structure",
  "regexp_prototype", "generator_prototype", "generator_structure", "array_buffer_prototype",
  "array_buffer_structure", "data_view_structure", "data_view_prototype", "spread_builtin",
  "weak_ref_structure", "weak_ref_prototype", "object_constructor", "symbol_structure",
  "date_structure", "boolean_structure", "date_prototype">>
OptGc(names) == [i \in DOMAIN names |-> <<names[i], Opt(Gc)>>]
WrittenContext == [
  GlobalData |-> OptGc(GlobalDataWritten),
  Context |-> <<<<"global_data", Fields("GlobalData")>>, <<"global_object", Opt(Gc)>>,
                <<"symbol_table", MapOf(Symbol, Gc)>>, <<"module_loader", Opt(Gc)>>,
                <<"modules", MapOf(String, Tagged("ModuleKind"))>>>>]

Written == WrittenStructures @@ WrittenCode @@ WrittenCells @@ WrittenEnvironment @@ WrittenContext
WrittenTags == WrittenValues @@ WrittenShapes @@ WrittenFeedback @@ WrittenModules
               @@ WrittenFunctions @@ WrittenClassTags

------------------------------------------------------------------------------
(* What the Deserializable implementations read: fields in the order they   *)
(* are read; variants by the byte that selects them.                        *)
ReadValues == [
  JsValue |-> 255 :> <<"object", <<<<"object", Gc>>>> >> @@ 31 :> <<"raw", <<<<"bits", U64>>>> >>,
  Symbol |-> 255 :> <<"Index", <<<<"index", U32>>>> >> @@ 31 :> <<"Reserved", <<<<"id", U32>>>> >>
             @@ 47 :> <<"Key", <<<<"id", Interned>>>> >>
             @@ 63 :> <<"Private", <<<<"id", Interned>>>> >>]
ReadShapes == [
  Transition |-> 0 :> <<"None", <<>> >> @@ 1 :> <<"Table", <<<<"table", Opt(Gc)>>>> >>
                 @@ 2 :> <<"Pair", <<<<"key", Fields("TransitionKey")>>, <<"structure", Gc>>>> >>]
ReadFeedback == [
  GetByIdMode |-> 0 :> <<"ArrayLength", <<>> >> @@ 1 :> <<"Default", <<>> >>
                  @@ 2 :> <<"ProtoLoad", <<<<"slot", Gc>>>> >>,
  TypeFeedBack |-> 1 :> <<"PropertyCache", <<<<"structure", Gc>>, <<"offset", U32>>,
                                             <<"mode", Tagged("GetByIdMode")>>>> >>
                   @@ 2 :> <<"StructureCache", <<<<"structure", Gc>>>> >>
                   @@ 3 :> <<"PutByIdFeedBack", <<<<"new_structure", Opt(Gc)>>,
                              <<"old_structure", Opt(Gc)>>, <<"offset", U32>>,
                              <<"structure_chain", Opt(Gc)>>>> >>
                   @@ 0 :> <<"None", <<>> >>]
ReadModules == [
  ModuleKind |-> 0 :> <<"Initialized", <<<<"object", Gc>>>> >>
                 @@ 1 :> <<"NativeUninit", <<<<"init", Native>>>> >>]
ReadFunctions == [
  FuncType |-> 1 :> <<"User", <<<<"scope", Gc>>, <<"code", Gc>>>> >>
               @@ 2 :> <<"Native", <<<<"func", Native>>>> >>
               @@ 3 :> <<"Bound", <<<<"args", Gc>>, <<"target", Gc>>, <<"this", JsValue>>>> >>
               @@ 4 :> <<"Generator", <<<<"function", Gc>>>> >>]
ReadClassTags == [
  Date |-> 1 :> <<"Valid", <<<<"b1", U8>>, <<"b2", U8>>>> >> @@ 0 :> <<"Invalid", <<>> >>,
  Buffer |-> 1 :> <<"Attached", <<<<"data", List(U8)>>>> >>
             @@ 0 :> <<"Detached", <<<<"size", U32>>>> >>]

\* Mutant: the fields of a MapEntry in another order.
ReadStructuresSwapped == [
  TransitionKey |-> <<<<"name", Symbol>>, <<"attrs", U32>>>>,
  MapEntry |-> <<<<"attrs", U32>>, <<"offset", U32>>>>,
  TransitionsTable |-> <<<<"var", Tagged("Transition")>>, <<"enabled", Bool>>,
                         <<"unique", Bool>>, <<"indexed", Bool>>>>,
  DeletedEntryHolder |-> <<<<"entry", Opt(Gc)>>, <<"size", U32>>>>]
ReadStructures == [
  TransitionKey |-> <<<<"name", Symbol>>, <<"attrs", U32>>>>,
  MapEntry |-> <<<<"offset", U32>>, <<"attrs", U32>>>>,
  TransitionsTable |-> <<<<"var", Tagged("Transition")>>, <<"enabled", Bool>>,
                         <<"unique", Bool>>, <<"indexed", Bool>>>>,
  DeletedEntryHolder |-> <<<<"entry", Opt(Gc)>>, <<"size", U32>>>>]
\* prev is an Option, but a bare reference is read for it.
ReadDeleted == [DeletedEntry |-> <<<<"prev", Gc>>, <<"offset", U32>>>>]
ReadStructure == [
  Structure |-> <<<<"transitions", Fields("TransitionsTable")>>, <<"table", Opt(Gc)>>,
                  <<"deleted", Fields("DeletedEntryHolder")>>, <<"name", Symbol>>,
                  <<"entry", Fields("MapEntry")>>, <<"previous", Opt(Gc)>>,
                  <<"prototype", Opt(Gc)>>, <<"calculated_size", U32>>, <<"transit_count", U32>>,
                  <<"has_been_flattened_before", Bool>>, <<"cached_prototype_chain", Opt(Gc)>>>>]
ReadCode == [
  FileLocation |-> <<<<"start", U32>>, <<"end", U32>>, <<"line", U32>>, <<"col", U32>>>>,
  CodeBlock |-> <<<<"name", Symbol>>, <<"names", Vec(Symbol)>>, <<"strict", Bool>>,
                  <<"code", Vec(U8)>>, <<"feedback", Vec(Tagged("TypeFeedBack"))>>,
                  <<"literals", Vec(JsValue)>>, <<"codes", Vec(Gc)>>, <<"top_level", Bool>>,
                  <<"use_arguments", Bool>>, <<"file_name", String>>, <<"rest_at", Opt(U32)>>,
                  <<"var_count", U32>>, <<"param_count", U32>>, <<"args_at", U32>>,
                  <<"is_constructor", Bool>>, <<"loc", List(Fields("FileLocation"))>>,
                  <<"path", String>>, <<"is_generator", Bool>>, <<"is_async", Bool>>>>]
ReadSlots == [
  StoredSlot |-> <<<<"value", JsValue>>, <<"attributes", U32>>>>]
ReadObjects == [
  JsObject |-> <<<<"class", Native>>, <<"slots", Gc>>, <<"structure", Gc>>,
                 <<"indexed", Fields("IndexedElements")>>, <<"flags", U32>>>>,
  IndexedElements |-> <<<<"vector", Gc>>, <<"map", Opt(Gc)>>, <<"length", U32>>, <<"flags", U32>>>>,
  Accessor |-> <<<<"getter", JsValue>>, <<"setter", JsValue>>>>,
  SpreadValue |-> <<<<"array", Vec(JsValue)>>>>]
ReadSymbols == [JsSymbol |-> <<<<"sym", Symbol>>>>]
ReadEnvironment == [
  Variable |-> <<<<"value", JsValue>>, <<"mutable", Bool>>>>,
  Environment |-> <<<<"parent", Opt(Gc)>>, <<"values", List(Fields("Variable"))>>>>]
ReadTagData == [
  NormalArguments |-> <<<<"mapping", Slice(Symbol)>>, <<"env", Gc>>>>,
  Function |-> <<<<"construct_struct", Opt(Gc)>>, <<"ty", Tagged("FuncType")>>>>,
  Global |-> <<<<"ctx", Gc>>, <<"sym_map", MapOf(Symbol, U32)>>,
               <<"variables", Slice(Fields("StoredSlot"))>>>>,
  String |-> <<<<"value", Gc>>>>,
  Ordinary |-> <<>>, Array |-> <<>>]
ReadClassData == [
  NumberObject |-> <<<<"value", U64>>>>,
  Date |-> <<<<"time", Tagged("Date")>>>>,
  JsArrayBuffer |-> <<<<"buffer", Tagged("Buffer")>>>>]

GlobalDataRead == <<
  "normal_arguments_structure", "empty_object_struct", "function_struct", "object_prototype",
  "number_prototype", "string_prototype", "boolean_prototype", "symbol_prototype", "error",
  "type_error", "uri_error", "reference_error", "range_error", "syntax_error", "internal_error",
  "eval_error", "array_prototype", "func_prototype", "string_structure", "number_structure",
  "array_structure", "error_structure", "range_error_structure", "reference_error_structure",
  "syntax_error_structure", "type_error_structure", "uri_error_structure", "eval_error_structure",
  "map_prototype", "map_structure", "set_prototype", "set_structure", "regexp_structure",
  "regexp_prototype", "generator_prototype", "generator_structure", "array_buffer_prototype",
  "array_buffer_structure", "data_view_structure", "data_view_prototype", "spread_builtin",
  "weak_ref_structure", "weak_ref_prototype", "object_constructor", "symbol_structure",
  "date_structure", "boolean_structure", "date_prototype">>
ReadContext == [
  GlobalData |-> OptGc(GlobalDataRead),
  Context |-> <<<<"global_data", Fields("GlobalData")>>, <<"global_object", Opt(Gc)>>,
                <<"symbol_table", MapOf(Symbol, Gc)>>, <<"module_loader", Opt(Gc)>>,
                <<"modules", MapOf(String, Tagged("ModuleKind"))>>>>]

ReadFields == ReadStructures @@ ReadDeleted @@ ReadStructure @@ ReadCode @@ ReadSlots
              @@ ReadObjects @@ ReadSymbols @@ ReadEnvironment @@ ReadContext
ReadTags == ReadValues @@ ReadShapes @@ ReadFeedback @@ ReadModules @@ ReadFunctions @@ ReadClassTags

------------------------------------------------------------------------------
(* The types of the cells of the heap: what deser_pair names.               *)
CellTypes == [
  JsObject |-> <<"object">>, ArrayStorage |-> <<"storage">>, JsString |-> List(U8),
  Structure |-> Fields("Structure"), TargetTable |-> MapOf(Symbol, Fields("MapEntry")),
  Table |-> MapOf(Fields("TransitionKey"), Gc), SparseArrayMap |-> MapOf(U32, Fields("StoredSlot")),
  DeletedEntry |-> Fields("DeletedEntry"), StructureChain |-> List(Gc), WeakSlot |-> Opt(Gc),
  CodeBlock |-> Fields("CodeBlock"), Environment |-> Fields("Environment"),
  Accessor |-> Fields("Accessor"), SpreadValue |-> Fields("SpreadValue"),
  JsSymbol |-> Fields("JsSymbol"), Context |-> Fields("Context")]
ObjectTags == <<"Ordinary", "Array", "String", "Global", "Function", "NormalArguments">>
TagCode(tag) == CHOOSE i \in DOMAIN ObjectTags : ObjectTags[i] = tag

(* Writing.  A token is its width, what it stands for (a number, a          *)
(* reference, an interned name, or a panic of the serializer) and the value *)
(* that is encoded when the maps are at hand.                               *)
Token(w, is, v) == <<[w |-> w, is |-> is, v |-> v]>>
Num(w, n) == Token(w, "num", n)
Panic == Token(0, "panic", 0)

RECURSIVE Write(_, _)
WriteEach(t, s) == FlattenSeq([i \in DOMAIN s |-> Write(t, s[i])])
WriteFields(layout, r) == FlattenSeq([i \in DOMAIN layout |-> Write(layout[i][2], r[layout[i][1]])])
WriteVariant(variant, r) == Num(1, variant[1]) \o WriteFields(variant[2], r)
WritePairs(t, pairs) == FlattenSeq([i \in DOMAIN pairs |-> Write(t[2], pairs[i][1]) \o Write(t[3], pairs[i][2])])
Write(t, v) ==
  CASE t[1] = "num" -> Num(t[2], v)
    [] t[1] = "ref" -> Token(4, "ref", v)
    [] t[1] = "sym" -> Token(4, "sym", v)
    [] t[1] = "opt" -> IF v = None THEN Num(1, 0) ELSE Num(1, 1) \o Write(t[2], v[1])
    [] t[1] = "vec" -> Num(8, Len(v)) \o Num(8, Len(v)) \o WriteEach(t[2], v)
    [] t[1] = "slice" -> Num(8, Len(v)) \o WriteEach(t[2], v)
    [] t[1] = "list" -> Num(4, Len(v)) \o WriteEach(t[2], v)
    [] t[1] = "map" -> Num(8, Len(v)) \o Num(8, Len(v)) \o WritePairs(t, v)
    [] t[1] = "fields" -> WriteFields(Written[t[2]], v)
    [] t[1] = "tagged" -> IF v.is \notin DOMAIN WrittenTags[t[2]] THEN Panic
                          ELSE WriteVariant(WrittenTags[t[2]][v.is], v)
    [] t[1] = "storage" -> Num(4, Len(v.items)) \o Num(4, v.capacity) \o WriteEach(JsValue, v.items)
    [] t[1] = "object" ->
         Num(4, TagCode(v.tag)) \o WriteFields(Written.JsObject, v)
         \o WriteFields(WrittenTagData[v.tag], v.data)
         \o (IF v.class[2] \in {"BooleanObject", "JsWeakRef"} THEN Panic  \* todo!()
             ELSE IF v.class[2] \notin DOMAIN WrittenClassData THEN <<>>
             ELSE WriteFields(WrittenClassData[v.class[2]], v.extra))

\* NativeIterator has neither a serializer nor a deser_pair.
Serialize(cell) ==
  IF cell.kind \notin DOMAIN CellTypes THEN Panic ELSE Write(CellTypes[cell.kind], cell.data)

\* reference_map and symbol_map searched for what the tokens stand for.
\* write_gcpointer, write_reference and write_symbol: unwrap of a search.
IndexIn(s, x) == CHOOSE i \in DOMAIN s : s[i] = x /\ \A j \in 1 .. (i - 1) : s[j] # x
Missing(tokens, refs, syms) ==
  \E i \in DOMAIN tokens :
      \/ tokens[i].is = "panic"
      \/ tokens[i].is = "ref" /\ ~ \E j \in DOMAIN refs : refs[j] = tokens[i].v
      \/ tokens[i].is = "sym" /\ tokens[i].v \notin 1 .. syms
EncodeToken(k, refs) ==
  [w |-> k.w, v |-> IF k.is = "ref" THEN IndexIn(refs, k.v) ELSE k.v]
Encode(tokens, refs) == [i \in DOMAIN tokens |-> EncodeToken(tokens[i], refs)]

(* Reading, from the token at pc of d.bytes, with the reference_map and     *)
(* symbol_map of d.  The answer is the value and the next pc.               *)
Got(v, pc) == [v |-> v, pc |-> pc]
Nothing_ == Got(<<>>, Lost)
Entry(map, i) == IF i \in DOMAIN map THEN map[i] ELSE Null
get(w, pc, d) ==
  IF pc \in DOMAIN d.bytes /\ d.bytes[pc].w = w THEN Got(d.bytes[pc].v, pc + 1) ELSE Nothing_
Through(g, map) == IF g.pc = Lost THEN g ELSE Got(Entry(map, g.v), g.pc)
Capacity(g, d) == IF g.pc = Lost THEN g ELSE [g EXCEPT !.pc = get(8, g.pc, d).pc]

RECURSIVE Read(_, _, _)
AddField(acc, name, g) == Got(acc.v @@ (name :> g.v), g.pc)
ReadRecord(layout, r, pc, d) ==
  FoldLeft(LAMBDA acc, f : IF acc.pc = Lost THEN acc ELSE AddField(acc, f[1], Read(f[2], acc.pc, d)),
           Got(r, pc), layout)
ReadVariant(variants, g, d) ==
  IF g.pc = Lost \/ g.v \notin DOMAIN variants THEN Nothing_
  ELSE ReadRecord(variants[g.v][2], [is |-> variants[g.v][1]], g.pc, d)
AddItem(acc, g) == Got(Append(acc.v, g.v), g.pc)
ReadItems(t, n, d) ==
  FoldLeft(LAMBDA acc, i : IF acc.pc = Lost THEN acc ELSE AddItem(acc, Read(t, acc.pc, d)),
           Got(<<>>, n.pc), [i \in 1 .. (IF n.pc = Lost THEN 0 ELSE n.v) |-> i])
AddPair(acc, k, d, t) ==
  IF k.pc = Lost THEN Nothing_ ELSE AddItem(acc, [v |-> <<k.v, Read(t, k.pc, d).v>>, pc |-> Read(t, k.pc, d).pc])
ReadPairs(t, n, d) ==
  FoldLeft(LAMBDA acc, i : IF acc.pc = Lost THEN acc ELSE AddPair(acc, Read(t[2], acc.pc, d), d, t[3]),
           Got(<<>>, n.pc), [i \in 1 .. (IF n.pc = Lost THEN 0 ELSE n.v) |-> i])
\* Option<GcPointer>: a null pointer is the representation of None.
ReadSome(g) == Got(IF g.v = Null THEN None ELSE Some(g.v), g.pc)
ReadOpt(t, g, d) ==
  IF g.pc = Lost \/ g.v \notin {0, 1} THEN Nothing_
  ELSE IF g.v = 0 THEN Got(None, g.pc)
  ELSE IF t = Gc THEN ReadSome(Read(t, g.pc, d))
  ELSE AddItem(Got(<<>>, g.pc), Read(t, g.pc, d))
ReadStorage(size, capacity, d) ==
  AddField(Got([capacity |-> capacity.v], 0), "items",
           ReadItems(JsValue, [size EXCEPT !.pc = capacity.pc], d))
ReadClass(g, d) ==
  IF g.pc = Lost \/ g.v.class[2] \notin DOMAIN ReadClassData THEN g
  ELSE AddField(g, "extra", ReadRecord(ReadClassData[g.v.class[2]], <<>>, g.pc, d))
ReadTag(g, d) ==
  IF g.pc = Lost THEN g
  ELSE ReadClass(AddField(g, "data", ReadRecord(ReadTagData[g.v.tag], <<>>, g.pc, d)), d)
ReadObject(tag, d) ==
  IF tag.pc = Lost \/ tag.v \notin DOMAIN ObjectTags THEN Nothing_
  ELSE ReadTag(ReadRecord(ReadFields.JsObject, [tag |-> ObjectTags[tag.v]], tag.pc, d), d)

Read(t, pc, d) ==
  CASE t[1] = "num" -> get(t[2], pc, d)
    [] t[1] = "ref" -> Through(get(4, pc, d), d.references)
    [] t[1] = "sym" -> Through(get(4, pc, d), d.symbols)
    [] t[1] = "opt" -> ReadOpt(t[2], get(1, pc, d), d)
    [] t[1] = "vec" -> ReadItems(t[2], Capacity(get(8, pc, d), d), d)
    [] t[1] = "slice" -> ReadItems(t[2], get(8, pc, d), d)
    [] t[1] = "list" -> ReadItems(t[2], get(4, pc, d), d)
    [] t[1] = "map" -> ReadPairs(t, Capacity(get(8, pc, d), d), d)
    [] t[1] = "fields" -> ReadRecord(ReadFields[t[2]], <<>>, pc, d)
    [] t[1] = "tagged" -> ReadVariant(ReadTags[t[2]], get(1, pc, d), d)
    [] t[1] = "storage" -> ReadStorage(get(4, pc, d), get(4, pc + 1, d), d)
    [] t[1] = "object" -> ReadObject(get(4, pc, d), d)
Deserialize(kind, pc, d) == Read(CellTypes[kind], pc, d)

(* allocate looks at the head of the payload for the size of the cell: tag  *)
(* and class of an object, capacity of a storage.                           *)
Room(kind, pc, d) ==
  CASE kind = "JsObject" -> <<ObjectTags[get(4, pc, d).v], Read(Native, pc + 1, d).v>>
    [] kind = "ArrayStorage" -> <<get(4, pc + 1, d).v>>
    [] OTHER -> <<kind>>
Needs(cell) ==
  CASE cell.kind = "JsObject" -> <<cell.data.tag, cell.data.class>>
    [] cell.kind = "ArrayStorage" -> <<cell.data.capacity>>
    [] OTHER -> <<cell.kind>>

=============================================================================
