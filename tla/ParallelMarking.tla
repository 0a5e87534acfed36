--------------------------- MODULE ParallelMarking ---------------------------
(***************************************************************************)
(* The parallel mark phase: gc/pmarking.rs, with SlotVisitor::visit of     *)
(* gc.rs, the colour tag of gc/cell.rs (a compare-and-set of the vtable    *)
(* word, wtf-rs/tagged_ptr.rs) and the mark bitmap of gc/space_bitmap.rs.  *)
(*                                                                         *)
(* The mutator is stopped.  n_workers tasks share an injector that holds   *)
(* the roots; each has a private queue (visitor.queue, a Vec) and a deque  *)
(* that others may steal from.  Queues are sets here: a cell is pushed     *)
(* once, by the worker that won its WHITE -> GREY exchange, and the order  *)
(* in which cells are taken is left open.                                  *)
(*                                                                         *)
(* maybe_push_to_injector is not an action: its guard reads bytes_visited, *)
(* which no code ever increments, so it always returns at once.            *)
(***************************************************************************)
EXTENDS Integers, FiniteSets

CONSTANTS
    Workers,        \* the marking tasks
    Cells,          \* the GC cells
    Graphs,         \* the object graphs to start from
    RootSets,       \* the root sets to start from
    WordOf,         \* WordOf[c]: the bitmap word that holds c's mark bit
    SpuriousCas,    \* TRUE on targets where compare_exchange_weak may fail spuriously
    NoCell

ASSUME WorkersAssumption == IsFiniteSet(Workers) /\ Workers # {}
ASSUME NoCellAssumption == NoCell \notin Cells
ASSUME GraphsAssumption == Graphs \subseteq [Cells -> SUBSET Cells]
ASSUME RootSetsAssumption == RootSets \subseteq SUBSET Cells
ASSUME SpuriousAssumption == SpuriousCas \in BOOLEAN

VARIABLES
    edges,          \* the object graph
    roots,          \* the root set
    color,          \* the colour tag of every cell
    marked,         \* the cells whose bit is set in the mark bitmap
    injector,       \* the global queue
    deque,          \* deque[w]: the stealable queue of w
    queue,          \* queue[w]: visitor.queue of w
    nworkers,       \* Terminator::nworkers
    pc,             \* where in MarkingTask::run the worker is
    object,         \* the cell the worker popped
    todo,           \* the children of object that trace has not visited yet
    cell,           \* the child being visited
    old_word,       \* the cells whose bits were set in the word modify loaded
    exposed         \* history: cells whose bit was stored while another worker
                    \* held an older copy of the same word

world == <<edges, roots>>
local == <<queue, object, todo, cell, old_word>>
bits == <<marked, exposed>>
vars == <<edges, roots, color, marked, injector, deque, queue, nworkers, pc,
          object, todo, cell, old_word, exposed>>

INSTANCE Reachability

Colors == {"white", "grey", "black"}

\* run: about to pop.  blacken: has an address.  trace: between two children.
\* load, store: inside Space::mark.  starved: nothing to pop.  sleep: gave its
\* unit of nworkers back.  done: left run.
Pcs == {"run", "blacken", "trace", "load", "store", "starved", "sleep", "done"}

TypeOK ==
    /\ edges \in Graphs
    /\ roots \in RootSets
    /\ color \in [Cells -> Colors]
    /\ marked \in SUBSET Cells
    /\ injector \in SUBSET Cells
    /\ deque \in [Workers -> SUBSET Cells]
    /\ queue \in [Workers -> SUBSET Cells]
    /\ nworkers \in 0..Cardinality(Workers)
    /\ pc \in [Workers -> Pcs]
    /\ object \in [Workers -> Cells \cup {NoCell}]
    /\ todo \in [Workers -> SUBSET Cells]
    /\ cell \in [Workers -> Cells \cup {NoCell}]
    /\ old_word \in [Workers -> SUBSET Cells]
    /\ exposed \in SUBSET Cells

-----------------------------------------------------------------------------
\* start: process_roots and add_conservative have shaded and marked the roots
\* one by one before any worker runs; they become the injector's content.
Init ==
    /\ edges \in Graphs
    /\ roots \in RootSets
    /\ color = [c \in Cells |-> IF c \in roots THEN "grey" ELSE "white"]
    /\ marked = roots
    /\ injector = roots
    /\ deque = [w \in Workers |-> {}]
    /\ queue = [w \in Workers |-> {}]
    /\ nworkers = Cardinality(Workers)
    /\ pc = [w \in Workers |-> "run"]
    /\ object = [w \in Workers |-> NoCell]
    /\ todo = [w \in Workers |-> {}]
    /\ cell = [w \in Workers |-> NoCell]
    /\ old_word = [w \in Workers |-> {}]
    /\ exposed = {}

\* GcPointerBase::set_state: one compare_exchange_weak of the tag.
SetState(c, from, to) ==
    /\ color[c] = from
    /\ color' = [color EXCEPT ![c] = to]

SetStateFails(c, from) == color[c] # from \/ SpuriousCas

GoTo(w, label) == pc' = [pc EXCEPT ![w] = label]

Take(w, c) ==
    /\ object' = [object EXCEPT ![w] = c]
    /\ GoTo(w, "blacken")

PopLocal(w) ==
    /\ pc[w] = "run"
    /\ \E c \in queue[w] :
        /\ queue' = [queue EXCEPT ![w] = @ \ {c}]
        /\ Take(w, c)
    /\ UNCHANGED <<world, color, bits, injector, deque, nworkers, todo, cell, old_word>>

PopWorker(w) ==
    /\ pc[w] = "run"
    /\ queue[w] = {}
    /\ \E c \in deque[w] :
        /\ deque' = [deque EXCEPT ![w] = @ \ {c}]
        /\ Take(w, c)
    /\ UNCHANGED <<world, color, bits, injector, queue, nworkers, todo, cell, old_word>>

\* steal_batch_and_pop on the injector: some cells move to the worker's own
\* deque and one more is returned.
PopGlobal(w) ==
    /\ pc[w] = "run"
    /\ queue[w] = {}
    /\ deque[w] = {}
    /\ \E batch \in SUBSET injector : \E c \in injector \ batch :
        /\ injector' = injector \ (batch \cup {c})
        /\ deque' = [deque EXCEPT ![w] = batch]
        /\ Take(w, c)
    /\ UNCHANGED <<world, color, bits, queue, nworkers, todo, cell, old_word>>

\* steal_batch_and_pop on the deque of another worker.
StealFrom(w, v) ==
    /\ pc[w] = "run"
    /\ v # w
    /\ queue[w] = {}
    /\ deque[w] = {}
    /\ injector = {}
    /\ \E batch \in SUBSET deque[v] : \E c \in deque[v] \ batch :
        /\ deque' = [deque EXCEPT ![v] = @ \ (batch \cup {c}), ![w] = batch]
        /\ Take(w, c)
    /\ UNCHANGED <<world, color, bits, injector, queue, nworkers, todo, cell, old_word>>

\* Mutant of PopNone: Steal::Retry of the injector is taken for Steal::Empty.
PopNone_RetryIsEmpty(w) ==
    /\ pc[w] = "run"
    /\ queue[w] = {}
    /\ deque[w] = {}
    /\ GoTo(w, "starved")
    /\ UNCHANGED <<world, color, bits, injector, deque, nworkers, local>>

\* pop returned None.  The victims are drawn at random, so a deque that holds
\* cells may never be drawn: that the other deques are empty is no guard.
PopNone(w) ==
    /\ pc[w] = "run"
    /\ queue[w] = {}
    /\ deque[w] = {}
    /\ injector = {}
    /\ GoTo(w, "starved")
    /\ UNCHANGED <<world, color, bits, injector, deque, nworkers, local>>

\* try_terminate with one worker: no handshake.
TerminateAlone(w) ==
    /\ pc[w] = "starved"
    /\ Cardinality(Workers) = 1
    /\ GoTo(w, "done")
    /\ UNCHANGED <<world, color, bits, injector, deque, nworkers, local>>

\* Mutant of DecreaseWorkers: the last worker leaves without its fetch_sub.
DecreaseWorkers_LastKeepsUnit(w) ==
    /\ pc[w] = "starved"
    /\ Cardinality(Workers) # 1
    /\ nworkers' = IF nworkers = 1 THEN 1 ELSE nworkers - 1
    /\ GoTo(w, IF nworkers = 1 THEN "done" ELSE "sleep")
    /\ UNCHANGED <<world, color, bits, injector, deque, local>>

DecreaseWorkers(w) ==
    /\ pc[w] = "starved"
    /\ Cardinality(Workers) # 1
    /\ nworkers' = nworkers - 1
    /\ GoTo(w, IF nworkers = 1 THEN "done" ELSE "sleep")
    /\ UNCHANGED <<world, color, bits, injector, deque, local>>

\* The entry of try_terminate, which tests const_nworkers.
TryTerminate(w) ==
    IF Cardinality(Workers) = 1 THEN TerminateAlone(w) ELSE DecreaseWorkers(w)

\* Mutant of ZeroOrIncreaseWorkers: leaves while one worker is still active.
ZeroOrIncreaseWorkers_LeavesAtOne(w) ==
    /\ pc[w] = "sleep"
    /\ IF nworkers <= 1
       THEN GoTo(w, "done") /\ UNCHANGED nworkers
       ELSE GoTo(w, "run") /\ nworkers' = nworkers + 1
    /\ UNCHANGED <<world, color, bits, injector, deque, local>>

\* zero_or_increase_workers: the retried compare_exchange takes effect at one
\* instant, at which it sees zero or adds one.
ZeroOrIncreaseWorkers(w) ==
    /\ pc[w] = "sleep"
    /\ IF nworkers = 0
       THEN GoTo(w, "done") /\ UNCHANGED nworkers
       ELSE GoTo(w, "run") /\ nworkers' = nworkers + 1
    /\ UNCHANGED <<world, color, bits, injector, deque, local>>

\* GREY -> BLACK won: trace the object.
Blacken(w) ==
    /\ pc[w] = "blacken"
    /\ SetState(object[w], "grey", "black")
    /\ todo' = [todo EXCEPT ![w] = edges[object[w]]]
    /\ GoTo(w, "trace")
    /\ UNCHANGED <<world, bits, injector, deque, queue, nworkers, object, cell, old_word>>

BlackenFails(w) ==
    /\ pc[w] = "blacken"
    /\ SetStateFails(object[w], "grey")
    /\ object' = [object EXCEPT ![w] = NoCell]
    /\ GoTo(w, "run")
    /\ UNCHANGED <<world, color, bits, injector, deque, queue, nworkers, todo, cell, old_word>>

\* The outcome of set_state, which the worker alone cannot choose.
TryBlacken(w) ==
    \E won \in BOOLEAN : IF won THEN Blacken(w) ELSE BlackenFails(w)

\* SlotVisitor::visit: WHITE -> GREY of a child.
Visit(w) ==
    /\ pc[w] = "trace"
    /\ \E c \in todo[w] :
        /\ SetState(c, "white", "grey")
        /\ cell' = [cell EXCEPT ![w] = c]
        /\ todo' = [todo EXCEPT ![w] = @ \ {c}]
    /\ GoTo(w, "load")
    /\ UNCHANGED <<world, bits, injector, deque, queue, nworkers, object, old_word>>

VisitFails(w) ==
    /\ pc[w] = "trace"
    /\ \E c \in todo[w] :
        /\ SetStateFails(c, "white")
        /\ todo' = [todo EXCEPT ![w] = @ \ {c}]
    /\ UNCHANGED <<world, color, bits, injector, deque, queue, nworkers, pc, object, cell, old_word>>

TraceDone(w) ==
    /\ pc[w] = "trace"
    /\ todo[w] = {}
    /\ object' = [object EXCEPT ![w] = NoCell]
    /\ GoTo(w, "run")
    /\ UNCHANGED <<world, color, bits, injector, deque, queue, nworkers, todo, cell, old_word>>

WordMates(c) == {d \in Cells : WordOf[d] = WordOf[c]}

\* SpaceBitmap::modify is a load and, later, a store of the whole word.
MarkLoad(w) ==
    /\ pc[w] = "load"
    /\ old_word' = [old_word EXCEPT ![w] = marked \cap WordMates(cell[w])]
    /\ GoTo(w, "store")
    /\ UNCHANGED <<world, color, bits, injector, deque, queue, nworkers, object, todo, cell>>

\* The cell w stores the bit of, if another worker has loaded the word already:
\* what that worker stores back lacks the bit.
Exposed(w) ==
    IF \E v \in Workers \ {w} : pc[v] = "store" /\ WordOf[cell[v]] = WordOf[cell[w]]
    THEN {cell[w]} ELSE {}

\* Mutant of MarkStore: stores the mask alone instead of old_word | mask.
MarkStore_MaskAlone(w) ==
    /\ pc[w] = "store"
    /\ marked' = IF cell[w] \in old_word[w] THEN marked
                 ELSE (marked \ WordMates(cell[w])) \cup {cell[w]}
    /\ exposed' = exposed \cup Exposed(w)
    /\ queue' = [queue EXCEPT ![w] = @ \cup {cell[w]}]
    /\ cell' = [cell EXCEPT ![w] = NoCell]
    /\ old_word' = [old_word EXCEPT ![w] = {}]
    /\ GoTo(w, "trace")
    /\ UNCHANGED <<world, color, injector, deque, nworkers, object, todo>>

\* The store happens only when the loaded bit was clear; then visit pushes.
MarkStore(w) ==
    /\ pc[w] = "store"
    /\ marked' = IF cell[w] \in old_word[w] THEN marked
                 ELSE (marked \ WordMates(cell[w])) \cup old_word[w] \cup {cell[w]}
    /\ exposed' = exposed \cup Exposed(w)
    /\ queue' = [queue EXCEPT ![w] = @ \cup {cell[w]}]
    /\ cell' = [cell EXCEPT ![w] = NoCell]
    /\ old_word' = [old_word EXCEPT ![w] = {}]
    /\ GoTo(w, "trace")
    /\ UNCHANGED <<world, color, injector, deque, nworkers, object, todo>>

-----------------------------------------------------------------------------
Step(w) ==
    \/ PopLocal(w)
    \/ PopWorker(w)
    \/ PopGlobal(w)
    \/ \E v \in Workers : StealFrom(w, v)
    \/ PopNone(w)
    \/ TryTerminate(w)
    \/ ZeroOrIncreaseWorkers(w)
    \/ TryBlacken(w)
    \/ Visit(w)
    \/ VisitFails(w)
    \/ TraceDone(w)
    \/ MarkLoad(w)
    \/ MarkStore(w)

AllDone == \A w \in Workers : pc[w] = "done"

\* Pool::scoped returns when every task has returned: the phase is over.
Scoped == AllDone /\ UNCHANGED vars

Next == Scoped \/ \E w \in Workers : Step(w)

Spec == Init /\ [][Next]_vars

\* Every task has a thread of its own (Pool::new(gc_threads), n_workers =
\* gc_threads), and the operating system runs each thread now and then.
FairSpec == Spec /\ \A w \in Workers : WF_vars(Step(w))
-----------------------------------------------------------------------------
Black == {c \in Cells : color[c] = "black"}
Grey == {c \in Cells : color[c] = "grey"}

\* pmarking::start: when the last task has returned, the black cells are exactly
\* the cells reachable from the roots, and nothing is grey, whatever was stolen
\* from whom and whoever went to sleep in between.
MarkingExact ==
    AllDone => /\ Black = Reach(roots, edges)
               /\ Grey = {}

\* No cell that is unreachable is ever shaded: marking never keeps garbage.
NeverMarksGarbage == Black \cup Grey \subseteq Reach(roots, edges)

\* Terminator::try_terminate returns true to a worker only when no work is left
\* and none can appear: every queue is empty and every other worker is also on
\* its way out.
NoEarlyExit ==
    (\E w \in Workers : pc[w] = "done") =>
        /\ injector = {}
        /\ \A w \in Workers :
            /\ deque[w] = {} /\ queue[w] = {}
            /\ pc[w] \in {"sleep", "done"} \/ Cardinality(Workers) = 1

\* What docs/gc/gc.md says of the marking phase: a cell the collector found a
\* reference to has its mark bit set, so the sweep keeps it.
FoundCellsAreMarked == AllDone => Black \subseteq marked

\* SpaceBitmap::modify loses a bit in one way only: a found cell without its mark
\* bit was stored while another worker was between load and store of that word.
BitsLostOnlyToRaces == AllDone => Black \ exposed \subseteq marked

\* Marking makes progress: every cell that visit shaded is eventually traced by
\* run, even when every other worker sleeps in the terminator at the time.
GreyIsTraced == <>[](Grey = {})

\* Once one worker has left, every worker leaves: nobody waits for ever in the
\* handshake of the terminator.
ExitSpreads == (\E w \in Workers : pc[w] = "done") ~> AllDone

\* Under fair scheduling of the workers the phase loses no work and no exit
\* (run, try_terminate).
PhaseProgresses == GreyIsTraced /\ ExitSpreads
=============================================================================
