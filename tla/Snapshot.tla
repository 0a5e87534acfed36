------------------------------ MODULE Snapshot ------------------------------
(***************************************************************************)
(* Heap snapshots: Snapshot::take and take_context, Deserializer::         *)
(* deserialize and deserialize_context, and Runtime::new_context, which    *)
(* makes every context of a runtime after the first from a snapshot of the *)
(* first (gc/snapshot.rs, gc/snapshot/*.rs, vm.rs).                        *)
(*                                                                         *)
(* A cell is [kind, ready, room, data]; an allocated cell is not ready     *)
(* until it is deserialized.  The reference a pointer is written as is its *)
(* place in the reference map: native references, external references,     *)
(* then the cells.  Restoring allocates every cell before it reads any, so *)
(* that cells may refer to cells written after them.                       *)
(***************************************************************************)
EXTENDS SnapshotFormat, TLC

CONSTANTS
    Realms,         \* the runtimes to start from: [cells, weak, symbols]
    Natives,        \* VM_NATIVE_REFERENCES, then the external references
    OtherSymbols,   \* what a new process may have interned already
    MaxContexts,    \* bound on the contexts of a runtime
    MaxCells,       \* bound on the cells of a runtime
    Overwritten,    \* the global variables that scripts assign to, by position
    MaxRegistered   \* bound on the symbols registered with Symbol.for

VARIABLES
    cells,      \* the heap: a function from the addresses in use
    weak_refs,  \* Heap::weak_refs
    marks,      \* mark bits that a snapshot of a context left set
    contexts,   \* Runtime::contexts
    symbols,    \* the process's symbol table: the name of every id
    image,      \* the snapshot, and what it was taken of
    job,        \* the serializer or deserializer at work
    leftover    \* history: what the last collection kept for those marks alone
heap == <<cells, weak_refs, contexts, symbols>>
vars == <<heap, marks, image, job, leftover>>

Cell(i) == <<"cell", i>>
NextAddress ==      \* the place of a cell that is gone can be that of a new one
  1 + Max({0} \cup {a[2] : a \in DOMAIN cells})
Idle == [phase |-> "idle"]
NoImage == [mode |-> "none"]

Refs(tokens) == {tokens[i].v : i \in {j \in DOMAIN tokens : tokens[j].is = "ref"}}
Unready(kind, room) == [kind |-> kind, ready |-> FALSE, room |-> room, data |-> <<>>]

------------------------------------------------------------------------------
(* What Trace visits.  Not the symbol registry of a context, and not the    *)
(* cached_prototype_chain of a structure.                                   *)
Untraced(cell) ==
  CASE ~ cell.ready -> {}
    [] cell.kind = "Context" -> {cell.data.symbol_table[i][2]
                                 : i \in DOMAIN cell.data.symbol_table}
    [] cell.kind = "Structure" -> {cell.data.cached_prototype_chain[i]
                                   : i \in DOMAIN cell.data.cached_prototype_chain}
    [] OTHER -> {}
Pointers(cell) == IF cell.ready THEN Refs(Serialize(cell)) \cap DOMAIN cells ELSE {}
Traced(cell) == IF cell.kind = "WeakSlot" THEN {} ELSE Pointers(cell) \ Untraced(cell)

RECURSIVE Closure(_, _, _)
Closure(found, next, edges) ==
  IF next = {} THEN found
  ELSE Closure(found \cup next, UNION {edges[a] : a \in next} \ (found \cup next), edges)
Reachable(a) == Closure({}, {a}, [b \in DOMAIN cells |-> Traced(cells[b])])
\* The same through weak slots as well.
Related(a) == Closure({}, {a}, [b \in DOMAIN cells |-> Pointers(cells[b]) \ Untraced(cells[b])])

------------------------------------------------------------------------------
(* Taking a snapshot.  take walks every cell of the heap; take_context what *)
(* it can trace from the context and then every weak slot of the heap, so   *)
(* that a slot found by both is written twice.                              *)
InOrder(s) == SelectSeq([i \in 1 .. (NextAddress - 1) |-> Cell(i)], LAMBDA a : a \in s)
Walked(mode, c) ==
  IF mode = "runtime" THEN InOrder(DOMAIN cells) ELSE InOrder(Reachable(c)) \o weak_refs
SlotAndValue(slot) ==
  <<slot>> \o (IF cells[slot].ready /\ cells[slot].data # None THEN cells[slot].data ELSE <<>>)
Referenced(mode, c) ==
  Natives \o (IF mode = "runtime" THEN InOrder(DOMAIN cells)
              ELSE InOrder(Reachable(c)) \o FlattenSeq([i \in DOMAIN weak_refs |-> SlotAndValue(weak_refs[i])]))

\* The count of references, the symbol table, and room for the count of cells.
Header(refs) ==
  Num(4, Len(refs)) \o Num(4, Len(symbols))
  \o FlattenSeq([i \in DOMAIN symbols |-> Num(4, i) \o Num(4, 1) \o Num(1, symbols[i])])
  \o Num(4, 0)
HeaderLength == 3 + 3 * Len(symbols)

\* walk_in_context makes the cells white again and leaves their mark bits.
Take(mode, c) ==
  /\ job = Idle
  /\ image.mode # "none" => image.mode = "context" /\ mode = "runtime"
  /\ job' = [phase |-> "write", mode |-> mode, context |-> c, todo |-> Walked(mode, c),
             refs |-> Referenced(mode, c), bytes |-> Encode(Header(Referenced(mode, c)), <<>>),
             cells_at |-> HeaderLength]
  /\ marks' = IF mode = "context" THEN marks \cup Reachable(c) ELSE marks
  /\ UNCHANGED <<heap, image, leftover>>

\* Memory nobody wrote: a slot read from it is empty or points nowhere.
PayloadOf(cell) ==
  IF cell.ready THEN {Serialize(cell)} ELSE {Num(1, 0), Num(1, 1) \o Token(4, "ref", Null)}
CellTokens(a, payload, at) ==
  Token(4, "ref", a) \o Token(4, "ref", <<"native", cells[a].kind>>)
  \o Token(4, "ref", <<"native", cells[a].kind>>) \o Num(4, at + 4 + Len(payload)) \o payload

WriteCell ==
  /\ job.phase = "write"
  /\ job.todo # <<>>
  /\ \E payload \in PayloadOf(cells[Head(job.todo)]) :
       LET tokens == CellTokens(Head(job.todo), payload, Len(job.bytes)) IN
       IF Missing(tokens, job.refs, Len(symbols))
       THEN job' = [phase |-> "panic", mode |-> job.mode, context |-> job.context,
                    at |-> Head(job.todo)]
       ELSE job' = [job EXCEPT !.todo = Tail(@), !.bytes = @ \o Encode(tokens, job.refs)]
  /\ UNCHANGED <<heap, marks, image, leftover>>

\* The weak slots (a slot that is read from memory nobody wrote may be lost:
\* weak_slot.serialize writes the pointer to it), the contexts, the count.
Rest ==
  Num(4, Len(weak_refs)) \o FlattenSeq([i \in DOMAIN weak_refs |-> Token(4, "ref", weak_refs[i])])
  \o (IF job.mode = "runtime" THEN Num(4, Len(contexts)) ELSE <<>>)
  \o FlattenSeq([i \in DOMAIN contexts |->
                   IF job.mode = "runtime" \/ contexts[i] = job.context
                   THEN Token(4, "ref", contexts[i]) ELSE <<>>])
CountOfCells == IF job.mode = "runtime" THEN Cardinality(DOMAIN cells) ELSE Len(Walked("context", job.context))
EndOfTake ==
  /\ job.phase = "write"
  /\ job.todo = <<>>
  /\ image' = [mode |-> job.mode,
               bytes |-> [job.bytes EXCEPT ![job.cells_at].v = CountOfCells] \o Encode(Rest, job.refs),
               cells_at |-> job.cells_at, refs |-> job.refs, source |-> cells,
               written |-> {Walked(job.mode, job.context)[i] : i \in DOMAIN Walked(job.mode, job.context)},
               weak |-> weak_refs, names |-> symbols,
               contexts |-> IF job.mode = "runtime" THEN contexts ELSE <<job.context>>]
  /\ job' = Idle
  /\ UNCHANGED <<heap, marks, leftover>>

------------------------------------------------------------------------------
(* Restoring one: a runtime in a new process, whose symbol table may hold   *)
(* other names already, or one more context of this runtime.                *)
Interned_(names) == names \o SelectSeq(image.names, LAMBDA n : ~ \E i \in DOMAIN names : names[i] = n)
\* Mutant: the serializer's map is kept, not only the native part of it.
KeptReference(i) == image.refs[i]
InitialReference(i) == IF i \in DOMAIN Natives THEN Natives[i] ELSE Null
Restore(mode, names) ==
  /\ job = Idle
  /\ image.mode = mode
  /\ mode = "context" => Len(contexts) < MaxContexts /\ NextAddress + Cardinality(image.written) < MaxCells
  /\ mode = "runtime" => contexts = image.contexts      \* (bound) in one new process
  /\ symbols' = Interned_(names)
  /\ IF mode = "context" THEN UNCHANGED <<cells, weak_refs, contexts, marks, leftover>>
     ELSE cells' = <<>> /\ weak_refs' = <<>> /\ contexts' = <<>> /\ marks' = {} /\ leftover' = {}
  /\ job' = [phase |-> "allocate", mode |-> mode, pc |-> image.cells_at + 1,
             left |-> image.bytes[image.cells_at].v, next |-> NextAddress,
             references |-> [i \in 1 .. image.bytes[1].v |-> InitialReference(i)],
             symbols |-> [i \in DOMAIN image.names |->
                            CHOOSE j \in DOMAIN symbols' : symbols'[j] = image.names[i]]]
  /\ UNCHANGED image

Source == [bytes |-> image.bytes, references |-> job.references, symbols |-> job.symbols]
Index(pc) == get(4, pc, Source).v
KindAt(pc) == job.references[Index(pc + 1)][2]

\* The first pass.  A slot written twice is allocated twice: the cell of the
\* first time stays as it was allocated.
Allocate ==
  /\ job.phase = "allocate"
  /\ job.left > 0
  /\ cells' = (Cell(job.next) :> Unready(KindAt(job.pc), Room(KindAt(job.pc), job.pc + 4, Source))) @@ cells
  /\ job' = [job EXCEPT !.references[Index(job.pc)] = Cell(job.next), !.left = @ - 1,
                        !.pc = Index(job.pc + 3) + 1, !.next = @ + 1]
  /\ UNCHANGED <<weak_refs, contexts, symbols, marks, image, leftover>>

RestoredSlots == weak_refs \o [i \in 1 .. Index(job.pc) |-> job.references[Index(job.pc + i)]]
ReadWeakSlots ==
  /\ job.phase = "allocate"
  /\ job.left = 0
  /\ weak_refs' = RestoredSlots
  /\ job' = [phase |-> "read", mode |-> job.mode, pc |-> image.cells_at + 1,
             left |-> image.bytes[image.cells_at].v, references |-> job.references,
             symbols |-> job.symbols, last |-> job.pc + Index(job.pc) + 1]
  /\ UNCHANGED <<cells, contexts, symbols, marks, image, leftover>>

\* The second pass reads on from where the last cell ended: the offsets that
\* the first pass jumped by are not used.
ReadCell ==
  /\ job.phase = "read"
  /\ job.left > 0
  /\ LET a == job.references[Index(job.pc)]
         g == Deserialize(KindAt(job.pc), job.pc + 4, Source) IN
     IF g.pc = Lost
     THEN /\ job' = [phase |-> "lost", mode |-> job.mode, at |-> a]
          /\ UNCHANGED cells
     ELSE /\ cells' = [cells EXCEPT ![a].ready = TRUE, ![a].data = g.v]
          /\ job' = [job EXCEPT !.left = @ - 1, !.pc = g.pc]
  /\ UNCHANGED <<weak_refs, contexts, symbols, marks, image, leftover>>

ReadContexts ==
  /\ job.phase = "read"
  /\ job.left = 0
  /\ contexts' = contexts \o
       (IF job.mode = "context" THEN <<job.references[Index(job.last)]>>
        ELSE [i \in 1 .. Index(job.last) |-> job.references[Index(job.last + i)]])
  /\ job' = [phase |-> "restored", mode |-> job.mode, references |-> job.references,
             symbols |-> job.symbols]
  /\ UNCHANGED <<cells, weak_refs, symbols, marks, image, leftover>>

Return ==
  /\ job.phase = "restored"
  /\ job' = Idle
  /\ UNCHANGED <<heap, marks, image, leftover>>

------------------------------------------------------------------------------
(* What happens between: Symbol.for and an assignment in one of the         *)
(* contexts, and a collection.                                              *)
Registered == UNION {{<<c, i>> : i \in DOMAIN cells[c].data.symbol_table} : c \in ToSet(contexts)}
SymbolFor(c, id) ==
  /\ job = Idle
  /\ Cardinality(Registered) < MaxRegistered
  /\ \A i \in DOMAIN cells[c].data.symbol_table : cells[c].data.symbol_table[i][1].id # id
  /\ cells' = [(Cell(NextAddress) :> [kind |-> "JsSymbol", ready |-> TRUE, room |-> <<"JsSymbol">>,
                                      data |-> [sym |-> [is |-> "Key", id |-> id]]]) @@ cells
               EXCEPT ![c].data.symbol_table = Append(@, <<[is |-> "Key", id |-> id], Cell(NextAddress)>>)]
  /\ UNCHANGED <<weak_refs, contexts, symbols, marks, image, job, leftover>>

\* A script gives the object of a global variable so many properties that its
\* slots move to a new storage, and then the variable another value.  (The
\* structure of the object is left as it was.)
Storage(items) ==
  [kind |-> "ArrayStorage", ready |-> TRUE, room |-> <<Len(items) + 4>>,
   data |-> [items |-> items, capacity |-> Len(items) + 4]]
Overwrite(c, i) ==
  LET g == cells[c].data.global_object[1]
      value == cells[g].data.data.variables[i].value
      new == Cell(NextAddress) IN
  /\ job = Idle
  /\ contexts = <<c>>        \* (bound) before there are others
  /\ value.is = "object" /\ cells[value.object].kind = "JsObject"
  /\ cells[value.object].data.tag = "Ordinary"
  /\ cells' = (new :> Storage(cells[cells[value.object].data.slots].data.items))
              @@ [cells EXCEPT ![value.object].data.slots = new,
                               ![g].data.data.variables[i].value = [is |-> "raw", bits |-> 0]]
  /\ UNCHANGED <<weak_refs, contexts, symbols, marks, image, job, leftover>>

\* What is marked when a collection sweeps: what it has visited, and what was
\* marked before.
Visited == UNION {Reachable(contexts[i]) : i \in DOMAIN contexts}
Survivors == Visited \cup marks
Cleared(cell) == IF cell.kind = "WeakSlot" /\ cell.ready /\ cell.data # None /\ cell.data[1] \notin Survivors
                 THEN [cell EXCEPT !.data = None] ELSE cell
Collect ==
  /\ job = Idle
  /\ cells' = [a \in Survivors |-> Cleared(cells[a])]
  /\ weak_refs' = SelectSeq(weak_refs, LAMBDA a : a \in Survivors)
  /\ marks' = {}
  /\ leftover' = marks \ Visited
  /\ UNCHANGED <<contexts, symbols, image, job>>

Init ==
  /\ \E r \in Realms : cells = r.cells /\ weak_refs = r.weak /\ symbols = r.symbols
  /\ contexts = <<Cell(1)>>
  /\ image = NoImage
  /\ job = Idle
  /\ marks = {} /\ leftover = {}

Next ==
  \/ Take("runtime", Cell(1))
  \/ \E i \in DOMAIN contexts : Take("context", contexts[i])
  \/ WriteCell
  \/ EndOfTake
  \/ \E names \in OtherSymbols : Restore("runtime", names)
  \/ Restore("context", symbols)
  \/ Allocate
  \/ ReadWeakSlots
  \/ ReadCell
  \/ ReadContexts
  \/ Return
  \/ \E i \in DOMAIN contexts, id \in DOMAIN symbols : SymbolFor(contexts[i], id)
  \/ \E c \in ToSet(contexts) :
       \E i \in Overwritten \cap DOMAIN cells[cells[c].data.global_object[1]].data.data.variables :
         Overwrite(c, i)
  \/ Collect
Spec == Init /\ [][Next]_vars

------------------------------------------------------------------------------
(* Properties.                                                              *)
RestoredAs(a) == job.references[IndexIn(image.refs, a)]
Renamed(k) ==
  CASE k.is = "ref" -> [k EXCEPT !.v = RestoredAs(@)]
    [] k.is = "sym" -> [k EXCEPT !.v = job.symbols[@]]
    [] OTHER -> k
\* What a snapshot keeps of a cell: a weak slot does not keep its value alive.
Kept(cell) ==
  IF cell.kind = "WeakSlot" /\ \E i \in DOMAIN cell.data : cell.data[i] \notin image.written
  THEN [cell EXCEPT !.data = None] ELSE cell

\* A restored heap is the heap the snapshot was taken of, under other
\* addresses and symbol ids: whatever cell of whatever type was written, its
\* copy has the room it needs, has been read, and would be written again as
\* the same tokens.  The two sides of every type are written apart, in files
\* apart (serializer.rs, deserializer.rs), and a field that one side misses
\* shifts all that follows.
RestoredFaithful ==
  job.phase = "restored" =>
    \A a \in image.written :
      image.source[a].ready =>
        LET copy == cells[RestoredAs(a)]
            kept == Serialize(Kept(image.source[a])) IN
        /\ copy.ready
        /\ copy.kind = image.source[a].kind
        /\ copy.room = Needs(copy)
        /\ Serialize(copy) = [i \in DOMAIN kept |-> Renamed(kept[i])]

\* The reader never leaves the boundaries the writer made, except past a
\* DeletedEntry: its prev is written as an option and read as a reference.
LostOnlyAtDeletedEntry ==
  job.phase = "lost" => \E a \in image.written : image.source[a].kind = "DeletedEntry"

\* What no snapshot can hold: closures and iterators, the classes whose
\* serializer is todo!(), references that are not in VM_NATIVE_REFERENCES,
\* memory nobody wrote, pointers of a cell that tracing does not follow.
Unknown(cell) == \E r \in Refs(Serialize(cell)) : r[1] = "native" /\ r \notin {Natives[i] : i \in DOMAIN Natives}
Unserializable(cell) ==
  \/ ~ cell.ready
  \/ cell.kind = "NativeIterator"
  \/ cell.kind = "JsObject" /\ cell.data.class[2] \in {"BooleanObject", "JsWeakRef"}
  \/ cell.kind = "JsObject" /\ cell.data.tag = "Function" /\ cell.data.data.ty.is = "Closure"
  \/ Unknown(cell)
  \/ Untraced(cell) # {}
\* A snapshot panics for one of those only, or at a cell that the last collection
\* kept for the mark of an earlier snapshot, without its children: every other
\* reference of a cell that is written was put into the reference map by the
\* walk before, a weak value that is reachable from nowhere included.
PanicsExplained ==
  job.phase = "panic" => Unserializable(cells[job.at]) \/ job.at \in leftover


\* The contexts of a runtime share no cell, though all but the first are made
\* from a snapshot of the first: running a script in one cannot be seen in
\* another (Runtime::new_context).  The registry of Symbol.for is excepted:
\* no one traces it, so that after a collection its entries may point to
\* whatever has been allocated since, in another context too.
ContextsDisjoint ==
  job.phase \in {"idle", "restored"} =>
    \A i, j \in DOMAIN contexts : i # j => Related(contexts[i]) \cap Related(contexts[j]) = {}

\* A weak slot that a context can reach is known to the collector (otherwise
\* it keeps a dangling pointer after the next collection) and holds what was
\* read, though a slot that was written twice was allocated twice.
WeakSlotsRegistered ==
  job.phase \in {"idle", "restored"} =>
    \A i \in DOMAIN contexts : \A a \in Reachable(contexts[i]) :
      /\ cells[a].ready
      /\ cells[a].kind = "WeakSlot" =>
           /\ \E w \in DOMAIN weak_refs : weak_refs[w] = a
           /\ \A k \in DOMAIN cells[a].data : cells[a].data[k] \in DOMAIN cells

\* A snapshot restores the cells and what the collector has to know of them.
RestoredWhole == RestoredFaithful /\ WeakSlotsRegistered
=============================================================================
