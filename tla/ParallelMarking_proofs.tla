------------------------ MODULE ParallelMarking_proofs ------------------------
(***************************************************************************)
(* Theorems about the parallel mark phase, for any number of workers and   *)
(* any finite or infinite set of cells.                                    *)
(***************************************************************************)
EXTENDS ParallelMarking, FiniteSetTheorems, TLAPS

\* The workers that hold a unit of Terminator::nworkers.
Active == {w \in Workers : pc[w] \notin {"sleep", "done"}}

\* nworkers counts the active workers (with one worker it is never touched).
CountInv == Cardinality(Workers) # 1 => nworkers = Cardinality(Active)

\* A worker that found nothing keeps nothing, and the injector never refills.
IdleInv ==
    \A w \in Workers : pc[w] \in {"starved", "sleep", "done"} =>
        queue[w] = {} /\ deque[w] = {} /\ injector = {}

\* A worker leaves only when nobody is active.
DoneInv ==
    Cardinality(Workers) # 1 =>
        ((\E w \in Workers : pc[w] = "done") => Active = {})

\* A worker that is alone never enters the handshake.
AloneInv ==
    Cardinality(Workers) = 1 => nworkers = 1 /\ \A w \in Workers : pc[w] # "sleep"

-----------------------------------------------------------------------------
\* Type correctness alone is not inductive: that nworkers stays in its range is
\* a consequence of what it counts.
Types ==
    /\ edges \in [Cells -> SUBSET Cells]
    /\ edges \in Graphs
    /\ roots \in RootSets
    /\ color \in [Cells -> Colors]
    /\ marked \in SUBSET Cells
    /\ injector \in SUBSET Cells
    /\ deque \in [Workers -> SUBSET Cells]
    /\ queue \in [Workers -> SUBSET Cells]
    /\ nworkers \in Int
    /\ pc \in [Workers -> Pcs]
    /\ object \in [Workers -> Cells \cup {NoCell}]
    /\ todo \in [Workers -> SUBSET Cells]
    /\ cell \in [Workers -> Cells \cup {NoCell}]
    /\ old_word \in [Workers -> SUBSET Cells]
    /\ exposed \in SUBSET Cells

\* A worker that works on an object or on a child really has one.
HoldsInv ==
    \A w \in Workers :
        /\ pc[w] \in {"blacken", "trace", "load", "store"} => object[w] \in Cells
        /\ pc[w] \in {"load", "store"} => cell[w] \in Cells

\* Cardinalities of the active set: a natural number, at most the number of
\* workers, and zero only when nobody is active.
LEMMA ActiveCard ==
    /\ IsFiniteSet(Active)
    /\ Cardinality(Active) \in 0..Cardinality(Workers)
    /\ Cardinality(Active) = 0 <=> Active = {}
<1>1. Active \subseteq Workers
  BY DEF Active
<1>2. IsFiniteSet(Active) /\ Cardinality(Active) <= Cardinality(Workers)
  BY <1>1, WorkersAssumption, FS_Subset
<1>3. Cardinality(Active) \in Nat /\ Cardinality(Workers) \in Nat
  BY <1>2, WorkersAssumption, FS_CardinalityType
<1>4. Cardinality(Active) = 0 <=> Active = {}
  BY <1>2, FS_EmptySet
<1> QED
  BY <1>2, <1>3, <1>4

\* Graphs and roots are what the constants' assumptions say.
LEMMA InitTypes == Init => Types /\ HoldsInv
<1> SUFFICES ASSUME Init PROVE Types /\ HoldsInv
  OBVIOUS
<1>1. roots \in SUBSET Cells /\ edges \in [Cells -> SUBSET Cells]
  BY RootSetsAssumption, GraphsAssumption DEF Init
<1>2. Cardinality(Workers) \in Int
  BY WorkersAssumption, FS_CardinalityType
<1>3. Types
  BY <1>1, <1>2 DEF Init, Types, Colors, Pcs
<1>4. HoldsInv
  BY DEF Init, HoldsInv
<1> QED
  BY <1>3, <1>4

\* Every step of a worker, and the idle step at the end, keeps the types.
LEMMA StepTypes == Types /\ HoldsInv /\ [Next]_vars => Types' /\ HoldsInv'
<1> SUFFICES ASSUME Types, HoldsInv, [Next]_vars PROVE Types' /\ HoldsInv'
  OBVIOUS
<1> USE DEF Types, HoldsInv, GoTo, Take, Pcs, world, local, bits
<1>1. CASE UNCHANGED vars
  BY <1>1 DEF vars
<1>2. ASSUME NEW w \in Workers, PopLocal(w) PROVE Types' /\ HoldsInv'
  BY <1>2 DEF PopLocal
<1>3. ASSUME NEW w \in Workers, PopWorker(w) PROVE Types' /\ HoldsInv'
  BY <1>3 DEF PopWorker
<1>4. ASSUME NEW w \in Workers, PopGlobal(w) PROVE Types' /\ HoldsInv'
  BY <1>4 DEF PopGlobal
<1>5. ASSUME NEW w \in Workers, NEW v \in Workers, StealFrom(w, v) PROVE Types' /\ HoldsInv'
  BY <1>5 DEF StealFrom
<1>6. ASSUME NEW w \in Workers, PopNone(w) \/ TerminateAlone(w) PROVE Types' /\ HoldsInv'
  BY <1>6 DEF PopNone, TerminateAlone
<1>7. ASSUME NEW w \in Workers, DecreaseWorkers(w) PROVE Types' /\ HoldsInv'
  BY <1>7 DEF DecreaseWorkers
<1>8. ASSUME NEW w \in Workers, ZeroOrIncreaseWorkers(w) PROVE Types' /\ HoldsInv'
  BY <1>8 DEF ZeroOrIncreaseWorkers
<1>9. ASSUME NEW w \in Workers, Blacken(w) PROVE Types' /\ HoldsInv'
  BY <1>9 DEF Blacken, SetState, Colors
<1>10. ASSUME NEW w \in Workers, BlackenFails(w) \/ TraceDone(w) PROVE Types' /\ HoldsInv'
  BY <1>10 DEF BlackenFails, TraceDone
<1>11. ASSUME NEW w \in Workers, Visit(w) PROVE Types' /\ HoldsInv'
  BY <1>11 DEF Visit, SetState, Colors
<1>12. ASSUME NEW w \in Workers, VisitFails(w) PROVE Types' /\ HoldsInv'
  BY <1>12 DEF VisitFails
<1>13. ASSUME NEW w \in Workers, MarkLoad(w) PROVE Types' /\ HoldsInv'
  BY <1>13 DEF MarkLoad
<1>14. ASSUME NEW w \in Workers, MarkStore(w) PROVE Types' /\ HoldsInv'
  <2>1. Exposed(w) \subseteq Cells
    BY <1>14 DEF MarkStore, Exposed
  <2> QED
    BY <1>14, <2>1 DEF MarkStore
<1> QED
  BY <1>1, <1>2, <1>3, <1>4, <1>5, <1>6, <1>7, <1>8, <1>9, <1>10, <1>11, <1>12,
     <1>13, <1>14 DEF Next, Scoped, Step, TryTerminate, TryBlacken

-----------------------------------------------------------------------------
\* Facts about the active set when one worker joins or leaves it.
LEMMA ActiveLeaves ==
    ASSUME Types, NEW w \in Workers, w \in Active,
           NEW l \in {"sleep", "done"}, pc' = [pc EXCEPT ![w] = l]
    PROVE  Active' = Active \ {w} /\ Cardinality(Active') = Cardinality(Active) - 1
<1>1. Active' = Active \ {w}
  BY DEF Active, Types
<1>2. Cardinality(Active') = Cardinality(Active) - 1
  BY <1>1, ActiveCard, FS_RemoveElement
<1> QED
  BY <1>1, <1>2

LEMMA ActiveJoins ==
    ASSUME Types, NEW w \in Workers, w \notin Active,
           NEW l \in Pcs \ {"sleep", "done"}, pc' = [pc EXCEPT ![w] = l]
    PROVE  Active' = Active \cup {w} /\ Cardinality(Active') = Cardinality(Active) + 1
<1>1. Active' = Active \cup {w}
  BY DEF Active, Types
<1>2. Cardinality(Active') = Cardinality(Active) + 1
  BY <1>1, ActiveCard, FS_AddElement
<1> QED
  BY <1>1, <1>2

LEMMA ActiveStays ==
    ASSUME Types, NEW w \in Workers, w \in Active,
           NEW l \in Pcs \ {"sleep", "done"}, pc' = [pc EXCEPT ![w] = l]
    PROVE  Active' = Active
BY DEF Active, Types

\* The steps of an active worker that do not touch nworkers: the active set and
\* the count stay; a worker may have taken cells, or moved to "starved" with
\* nothing in its queues.
Works(w) ==
    \/ PopLocal(w) \/ PopWorker(w) \/ PopGlobal(w) \/ PopNone(w)
    \/ \E v \in Workers : StealFrom(w, v)
    \/ Blacken(w) \/ BlackenFails(w) \/ Visit(w) \/ VisitFails(w) \/ TraceDone(w)
    \/ MarkLoad(w) \/ MarkStore(w)

LEMMA WorksKeepsActive ==
    ASSUME Types, NEW w \in Workers, Works(w)
    PROVE  /\ w \in Active
           /\ Active' = Active
           /\ nworkers' = nworkers
           /\ \A v \in Workers : pc'[v] = "done" <=> pc[v] = "done"
<1>1. w \in Active /\ nworkers' = nworkers
  BY DEF Works, Active, PopLocal, PopWorker, PopGlobal, PopNone, StealFrom, Blacken,
         BlackenFails, Visit, VisitFails, TraceDone, MarkLoad, MarkStore
<1>2. \/ UNCHANGED pc
      \/ \E l \in Pcs \ {"sleep", "done"} : pc' = [pc EXCEPT ![w] = l]
  BY DEF Works, Take, GoTo, Pcs, PopLocal, PopWorker, PopGlobal, PopNone, StealFrom, Blacken,
         BlackenFails, Visit, VisitFails, TraceDone, MarkLoad, MarkStore
<1>3. Active' = Active
  BY <1>1, <1>2, ActiveStays DEF Active
<1> QED
  BY <1>1, <1>2, <1>3 DEF Types, Active

\* A worker that finds nothing has nothing, and nobody else can give it any.
LEMMA WorksKeepsIdle ==
    ASSUME Types, IdleInv, NEW w \in Workers, Works(w)
    PROVE  IdleInv'
<1> USE DEF Types, IdleInv, GoTo, Take, world, local, bits
<1>1. CASE PopLocal(w)
  BY <1>1 DEF PopLocal
<1>2. CASE PopWorker(w)
  BY <1>2 DEF PopWorker
<1>3. CASE PopGlobal(w)
  BY <1>3 DEF PopGlobal
<1>4. CASE PopNone(w)
  BY <1>4 DEF PopNone
<1>5. ASSUME NEW v \in Workers, StealFrom(w, v) PROVE IdleInv'
  BY <1>5 DEF StealFrom
<1>6. CASE Blacken(w) \/ BlackenFails(w)
  BY <1>6 DEF Blacken, BlackenFails
<1>7. CASE Visit(w) \/ VisitFails(w) \/ TraceDone(w)
  BY <1>7 DEF Visit, VisitFails, TraceDone
<1>8. CASE MarkLoad(w) \/ MarkStore(w)
  BY <1>8 DEF MarkLoad, MarkStore
<1> QED
  BY <1>1, <1>2, <1>3, <1>4, <1>5, <1>6, <1>7, <1>8 DEF Works

HInv == Types /\ HoldsInv /\ AloneInv /\ CountInv /\ IdleInv /\ DoneInv

LEMMA InitHandshake == Init => HInv
<1> SUFFICES ASSUME Init PROVE HInv
  OBVIOUS
<1>1. Active = Workers
  BY DEF Init, Active
<1>2. CountInv /\ IdleInv /\ DoneInv
  BY <1>1 DEF Init, CountInv, IdleInv, DoneInv
<1>3. AloneInv
  BY DEF Init, AloneInv
<1> QED
  BY <1>2, <1>3, InitTypes DEF HInv

LEMMA StepAlone == Types /\ AloneInv /\ [Next]_vars => AloneInv'
<1> SUFFICES ASSUME Types, AloneInv, [Next]_vars PROVE AloneInv'
  OBVIOUS
<1> USE DEF AloneInv, Types
<1>1. CASE UNCHANGED vars
  BY <1>1 DEF vars
<1>2. ASSUME NEW w \in Workers, Works(w) PROVE AloneInv'
  <2>1. nworkers' = nworkers /\ Active' = Active
    BY <1>2, WorksKeepsActive
  <2>2. \A v \in Workers : pc'[v] = "done" <=> pc[v] = "done"
    BY <1>2, WorksKeepsActive
  <2> QED
    BY <2>1, <2>2 DEF Active
<1>3. ASSUME NEW w \in Workers,
             TerminateAlone(w) \/ DecreaseWorkers(w) \/ ZeroOrIncreaseWorkers(w)
      PROVE  AloneInv'
  BY <1>3 DEF TerminateAlone, DecreaseWorkers, ZeroOrIncreaseWorkers, GoTo
<1> QED
  BY <1>1, <1>2, <1>3 DEF Next, Scoped, Step, TryTerminate, TryBlacken, Works

LEMMA StepHandshake == HInv /\ [Next]_vars => HInv'
<1> SUFFICES ASSUME HInv, [Next]_vars PROVE HInv'
  OBVIOUS
<1>0. Types' /\ HoldsInv' /\ AloneInv'
  BY StepTypes, StepAlone DEF HInv
<1> USE DEF HInv
<1>1. CASE UNCHANGED vars
  BY <1>0, <1>1 DEF vars, CountInv, IdleInv, DoneInv, Active
<1>2. ASSUME NEW w \in Workers, Works(w) PROVE HInv'
  <2>1. IdleInv'
    BY <1>2, WorksKeepsIdle
  <2>2. CountInv' /\ DoneInv'
    BY <1>2, WorksKeepsActive DEF CountInv, DoneInv
  <2> QED
    BY <1>0, <2>1, <2>2
<1>3. ASSUME NEW w \in Workers, TerminateAlone(w) PROVE HInv'
  <2>1. IdleInv'
    BY <1>3 DEF TerminateAlone, GoTo, IdleInv, Types, world, local, bits
  <2>2. CountInv' /\ DoneInv'
    BY <1>3 DEF TerminateAlone, CountInv, DoneInv
  <2> QED
    BY <1>0, <2>1, <2>2
<1>4. ASSUME NEW w \in Workers, DecreaseWorkers(w) PROVE HInv'
  <2>1. IdleInv'
    BY <1>4 DEF DecreaseWorkers, GoTo, IdleInv, Types, world, local, bits
  <2>2. w \in Active
    BY <1>4 DEF DecreaseWorkers, Active
  <2>3. Active' = Active \ {w} /\ Cardinality(Active') = Cardinality(Active) - 1
    BY <1>4, <2>2, ActiveLeaves DEF DecreaseWorkers, GoTo
  <2>4. CountInv'
    BY <1>4, <2>3 DEF CountInv, DecreaseWorkers
  <2>5. DoneInv'
    <3>1. Cardinality(Workers) # 1 /\ nworkers = Cardinality(Active)
      BY <1>4 DEF DecreaseWorkers, CountInv
    <3>2. \A v \in Workers : pc[v] # "done"
      BY <2>2, <3>1 DEF DoneInv
    <3>3. CASE nworkers = 1
      <4>1. Cardinality(Active') = 0
        BY <3>1, <3>3, <2>3
      <4>2. IsFiniteSet(Active')
        BY <2>3, ActiveCard, FS_RemoveElement
      <4>3. Active' = {}
        BY <4>1, <4>2, FS_EmptySet
      <4> QED
        BY <4>3 DEF DoneInv
    <3>4. CASE nworkers # 1
      BY <1>4, <3>2, <3>4 DEF DecreaseWorkers, GoTo, DoneInv, Types
    <3> QED
      BY <3>3, <3>4
  <2> QED
    BY <1>0, <2>1, <2>4, <2>5
<1>5. ASSUME NEW w \in Workers, ZeroOrIncreaseWorkers(w) PROVE HInv'
  <2>1. IdleInv'
    BY <1>5 DEF ZeroOrIncreaseWorkers, GoTo, IdleInv, Types, world, local, bits
  <2>2. w \notin Active
    BY <1>5 DEF ZeroOrIncreaseWorkers, Active
  <2>3. CASE nworkers = 0
    <3>1. Active' = Active
      BY <1>5, <2>2, <2>3 DEF ZeroOrIncreaseWorkers, GoTo, Active, Types
    <3>2. CountInv'
      BY <1>5, <2>3, <3>1 DEF ZeroOrIncreaseWorkers, CountInv
    <3>3. Cardinality(Workers) # 1 => Active = {}
      BY <2>3, ActiveCard DEF CountInv
    <3>4. DoneInv'
      BY <3>1, <3>3 DEF DoneInv
    <3> QED
      BY <1>0, <2>1, <3>2, <3>4
  <2>4. CASE nworkers # 0
    <3>1. Active' = Active \cup {w} /\ Cardinality(Active') = Cardinality(Active) + 1
      BY <1>5, <2>2, <2>4, ActiveJoins DEF ZeroOrIncreaseWorkers, GoTo, Pcs
    <3>2. CountInv'
      BY <1>5, <2>4, <3>1 DEF ZeroOrIncreaseWorkers, CountInv
    <3>3. Cardinality(Workers) # 1 => Active # {}
      BY <2>4, ActiveCard DEF CountInv
    <3>4. Cardinality(Workers) # 1 => \A v \in Workers : pc[v] # "done"
      BY <3>3 DEF DoneInv
    <3>5. DoneInv'
      BY <1>5, <2>4, <3>4 DEF ZeroOrIncreaseWorkers, GoTo, DoneInv, Types
    <3> QED
      BY <1>0, <2>1, <3>2, <3>5
  <2> QED
    BY <2>3, <2>4
<1> QED
  BY <1>1, <1>2, <1>3, <1>4, <1>5 DEF Next, Scoped, Step, TryTerminate, TryBlacken, Works

\* Type correctness of the parallel mark phase; the bound on nworkers comes from
\* what it counts, so fetch_sub never wraps below zero.
THEOREM TypeCorrect == Spec => []TypeOK
<1>1. HInv => TypeOK
  <2> SUFFICES ASSUME HInv PROVE TypeOK
    OBVIOUS
  <2>1. nworkers \in 0..Cardinality(Workers)
    BY ActiveCard DEF HInv, AloneInv, CountInv
  <2> QED
    BY <2>1 DEF HInv, Types, TypeOK
<1> QED
  BY <1>1, InitHandshake, StepHandshake, PTL DEF Spec

\* No worker leaves run while there is work: NoEarlyExit holds in every
\* reachable state, with or without spurious failures of the exchanges.
THEOREM NoEarlyExitHolds == Spec => []NoEarlyExit
<1>1. HInv => NoEarlyExit
  <2> SUFFICES ASSUME HInv, NEW w \in Workers, pc[w] = "done"
               PROVE  /\ injector = {}
                      /\ \A v \in Workers :
                          /\ deque[v] = {} /\ queue[v] = {}
                          /\ pc[v] \in {"sleep", "done"} \/ Cardinality(Workers) = 1
    BY DEF NoEarlyExit
  <2>1. injector = {}
    BY DEF HInv, IdleInv
  <2>2. CASE Cardinality(Workers) # 1
    BY <2>1, <2>2 DEF HInv, IdleInv, DoneInv, Active
  <2>3. CASE Cardinality(Workers) = 1
    <3>1. PICK x : Workers = {x}
      BY <2>3, WorkersAssumption, FS_Singleton
    <3> QED
      BY <2>1, <2>3, <3>1 DEF HInv, IdleInv
  <2> QED
    BY <2>2, <2>3
<1> QED
  BY <1>1, InitHandshake, StepHandshake, PTL DEF Spec

-----------------------------------------------------------------------------
\* Reach holds the roots, is closed, and is the least such set.
LEMMA ReachFacts ==
    ASSUME Types
    PROVE  /\ Reach(roots, edges) \subseteq Cells
           /\ roots \subseteq Reach(roots, edges)
           /\ Closed(Reach(roots, edges), edges)
           /\ \A S \in SUBSET Cells :
                 roots \subseteq S /\ Closed(S, edges) => Reach(roots, edges) \subseteq S
<1>1. roots \subseteq Cells
  BY RootSetsAssumption DEF Types
<1>2. roots \subseteq Reach(roots, edges)
  BY <1>1 DEF Reach
<1>3. Closed(Reach(roots, edges), edges)
  <2> SUFFICES ASSUME NEW c \in Reach(roots, edges), NEW d \in edges[c]
               PROVE  d \in Reach(roots, edges)
    BY DEF Closed
  <2>1. c \in Cells /\ d \in Cells
    BY DEF Reach, Types
  <2>2. ASSUME NEW S \in SUBSET Cells, roots \subseteq S, Closed(S, edges)
        PROVE  d \in S
    <3>1. c \in S
      BY <2>2 DEF Reach
    <3> QED
      BY <2>2, <3>1 DEF Closed
  <2> QED
    BY <2>1, <2>2 DEF Reach
<1>4. ASSUME NEW S \in SUBSET Cells, roots \subseteq S, Closed(S, edges)
      PROVE  Reach(roots, edges) \subseteq S
  BY <1>4 DEF Reach
<1> QED
  BY <1>2, <1>3, <1>4 DEF Reach

\* What has been shaded, and what is left to visit, is reachable.
ReachInv ==
    /\ \A c \in Cells : color[c] # "white" => c \in Reach(roots, edges)
    /\ \A w \in Workers : todo[w] \subseteq Reach(roots, edges)

LEMMA InitReach == Init => ReachInv
<1> SUFFICES ASSUME Init PROVE ReachInv
  OBVIOUS
<1>1. Types
  BY InitTypes
<1> QED
  BY <1>1, ReachFacts DEF Init, ReachInv

LEMMA StepReach == Types /\ HoldsInv /\ ReachInv /\ [Next]_vars => ReachInv'
<1> SUFFICES ASSUME Types, HoldsInv, ReachInv, [Next]_vars PROVE ReachInv'
  OBVIOUS
<1>0. UNCHANGED <<edges, roots>>
  BY DEF Next, Scoped, Step, TryTerminate, TryBlacken, vars, world, PopLocal, PopWorker, PopGlobal, StealFrom, PopNone,
         TerminateAlone, DecreaseWorkers, ZeroOrIncreaseWorkers, Blacken, BlackenFails,
         Visit, VisitFails, TraceDone, MarkLoad, MarkStore
<1>1. Reach(roots, edges)' = Reach(roots, edges)
  BY <1>0 DEF Reach, Closed
<1> DEFINE R == Reach(roots, edges)
<1>2. R' = R
  BY <1>1
<1>3. Closed(R, edges)
  BY ReachFacts
<1>4. (\A c \in Cells : color[c] # "white" => c \in R) /\ (\A w \in Workers : todo[w] \subseteq R)
  BY DEF ReachInv
<1> SUFFICES (\A c \in Cells : color'[c] # "white" => c \in R) /\ (\A w \in Workers : todo'[w] \subseteq R)
  BY <1>2 DEF ReachInv
<1> HIDE DEF R
<1>5. ASSUME UNCHANGED <<color, todo>>
      PROVE  (\A c \in Cells : color'[c] # "white" => c \in R) /\ (\A w \in Workers : todo'[w] \subseteq R)
  BY <1>4, <1>5
<1>6. ASSUME NEW w \in Workers, Blacken(w)
      PROVE  (\A c \in Cells : color'[c] # "white" => c \in R) /\ (\A v \in Workers : todo'[v] \subseteq R)
  <2>1. object[w] \in Cells /\ color[object[w]] = "grey"
    BY <1>6 DEF Blacken, SetState, HoldsInv
  <2>2. object[w] \in R /\ edges[object[w]] \subseteq R
    BY <2>1, <1>3, <1>4 DEF Closed
  <2> QED
    BY <1>4, <1>6, <2>1, <2>2 DEF Blacken, SetState, Types
<1>7. ASSUME NEW w \in Workers, Visit(w)
      PROVE  (\A c \in Cells : color'[c] # "white" => c \in R) /\ (\A v \in Workers : todo'[v] \subseteq R)
  BY <1>4, <1>7 DEF Visit, SetState, Types
<1>8. ASSUME NEW w \in Workers, VisitFails(w)
      PROVE  (\A c \in Cells : color'[c] # "white" => c \in R) /\ (\A v \in Workers : todo'[v] \subseteq R)
  BY <1>4, <1>8 DEF VisitFails, Types
<1> QED
  BY <1>5, <1>6, <1>7, <1>8
     DEF Next, Scoped, Step, TryTerminate, TryBlacken, vars, local, PopLocal, PopWorker, PopGlobal, StealFrom, PopNone,
         TerminateAlone, DecreaseWorkers, ZeroOrIncreaseWorkers, BlackenFails,
         TraceDone, MarkLoad, MarkStore

\* Marking never keeps garbage alive, also when exchanges fail spuriously.
THEOREM NeverMarksGarbageHolds == Spec => []NeverMarksGarbage
<1>1. ReachInv => NeverMarksGarbage
  BY DEF ReachInv, NeverMarksGarbage, Black, Grey
<1>2. Init => Types /\ HoldsInv /\ ReachInv
  BY InitTypes, InitReach
<1>3. Types /\ HoldsInv /\ ReachInv /\ [Next]_vars => (Types /\ HoldsInv /\ ReachInv)'
  BY StepTypes, StepReach
<1> QED
  BY <1>1, <1>2, <1>3, PTL DEF Spec

-----------------------------------------------------------------------------
\* A cell waits in a queue, or in the hands of a worker that has popped it or
\* is about to push it.
Held(c) ==
    \/ c \in injector
    \/ \E w \in Workers :
        \/ c \in deque[w]
        \/ c \in queue[w]
        \/ pc[w] = "blacken" /\ object[w] = c
        \/ pc[w] \in {"load", "store"} /\ cell[w] = c

\* A worker traces c and has yet to visit its child d.
ToVisit(c, d) ==
    \E w \in Workers :
        pc[w] \in {"trace", "load", "store"} /\ object[w] = c /\ d \in todo[w]

\* The tricolour invariant: no grey cell is lost, and a child of a black cell
\* is shaded or about to be.
GreyInv == \A c \in Cells : color[c] = "grey" => Held(c)
BlackInv ==
    \A c \in Cells : color[c] = "black" =>
        \A d \in edges[c] : color[d] # "white" \/ ToVisit(c, d)
RootInv == \A c \in roots : color[c] # "white"

LEMMA InitTricolor == Init => GreyInv /\ BlackInv /\ RootInv
<1> SUFFICES ASSUME Init PROVE GreyInv /\ BlackInv /\ RootInv
  OBVIOUS
<1>1. \A c \in Cells : color[c] # "black"
  BY DEF Init
<1> QED
  BY <1>1, InitTypes, RootSetsAssumption DEF Init, GreyInv, BlackInv, RootInv, Held, Types

LEMMA StepGrey ==
    ASSUME ~SpuriousCas PROVE Types /\ HoldsInv /\ GreyInv /\ [Next]_vars => GreyInv'
<1> SUFFICES ASSUME Types, HoldsInv, GreyInv, [Next]_vars PROVE GreyInv'
  OBVIOUS
<1> USE DEF Types, GreyInv, Held, GoTo, Take, world, local, bits
<1>1. CASE UNCHANGED vars
  BY <1>1 DEF vars
<1>2. ASSUME NEW w \in Workers, PopLocal(w) PROVE GreyInv'
  BY <1>2 DEF PopLocal
<1>3. ASSUME NEW w \in Workers, PopWorker(w) PROVE GreyInv'
  BY <1>3 DEF PopWorker
<1>4. ASSUME NEW w \in Workers, PopGlobal(w) PROVE GreyInv'
  BY <1>4 DEF PopGlobal
<1>5. ASSUME NEW w \in Workers, NEW v \in Workers, StealFrom(w, v) PROVE GreyInv'
  BY <1>5 DEF StealFrom
<1>6. ASSUME NEW w \in Workers, PopNone(w) \/ TerminateAlone(w) PROVE GreyInv'
  BY <1>6 DEF PopNone, TerminateAlone
<1>7. ASSUME NEW w \in Workers, DecreaseWorkers(w) \/ ZeroOrIncreaseWorkers(w) PROVE GreyInv'
  BY <1>7 DEF DecreaseWorkers, ZeroOrIncreaseWorkers
<1>8. ASSUME NEW w \in Workers, Blacken(w) PROVE GreyInv'
  <2>1. object[w] \in Cells
    BY <1>8 DEF Blacken, HoldsInv
  <2> QED
    BY <1>8, <2>1 DEF Blacken, SetState
<1>9. ASSUME NEW w \in Workers, BlackenFails(w) PROVE GreyInv'
  BY <1>9 DEF BlackenFails, SetStateFails
<1>10. ASSUME NEW w \in Workers, TraceDone(w) \/ VisitFails(w) PROVE GreyInv'
  BY <1>10 DEF TraceDone, VisitFails
<1>11. ASSUME NEW w \in Workers, Visit(w) PROVE GreyInv'
  BY <1>11 DEF Visit, SetState
<1>12. ASSUME NEW w \in Workers, MarkLoad(w) PROVE GreyInv'
  BY <1>12 DEF MarkLoad
<1>13. ASSUME NEW w \in Workers, MarkStore(w) PROVE GreyInv'
  BY <1>13 DEF MarkStore
<1> QED
  BY <1>1, <1>2, <1>3, <1>4, <1>5, <1>6, <1>7, <1>8, <1>9, <1>10, <1>11, <1>12, <1>13
     DEF Next, Scoped, Step, TryTerminate, TryBlacken

LEMMA StepBlack ==
    ASSUME ~SpuriousCas PROVE Types /\ HoldsInv /\ BlackInv /\ [Next]_vars => BlackInv'
<1> SUFFICES ASSUME Types, HoldsInv, BlackInv, [Next]_vars PROVE BlackInv'
  OBVIOUS
<1> USE DEF Types, BlackInv, ToVisit, GoTo, Take, world, local, bits
<1>1. CASE UNCHANGED vars
  BY <1>1 DEF vars
<1>2. ASSUME NEW w \in Workers,
             PopLocal(w) \/ PopWorker(w) \/ PopGlobal(w) \/ \E v \in Workers : StealFrom(w, v)
      PROVE  BlackInv'
  BY <1>2 DEF PopLocal, PopWorker, PopGlobal, StealFrom
<1>3. ASSUME NEW w \in Workers, PopNone(w) \/ TerminateAlone(w) PROVE BlackInv'
  BY <1>3 DEF PopNone, TerminateAlone
<1>4. ASSUME NEW w \in Workers, DecreaseWorkers(w) \/ ZeroOrIncreaseWorkers(w) PROVE BlackInv'
  BY <1>4 DEF DecreaseWorkers, ZeroOrIncreaseWorkers
<1>5. ASSUME NEW w \in Workers, Blacken(w) PROVE BlackInv'
  <2>1. object[w] \in Cells
    BY <1>5 DEF Blacken, HoldsInv
  <2> QED
    BY <1>5, <2>1 DEF Blacken, SetState
<1>6. ASSUME NEW w \in Workers, BlackenFails(w) PROVE BlackInv'
  BY <1>6 DEF BlackenFails
<1>7. ASSUME NEW w \in Workers, TraceDone(w) PROVE BlackInv'
  BY <1>7 DEF TraceDone
<1>8. ASSUME NEW w \in Workers, VisitFails(w) PROVE BlackInv'
  BY <1>8 DEF VisitFails, SetStateFails
<1>9. ASSUME NEW w \in Workers, Visit(w) PROVE BlackInv'
  BY <1>9 DEF Visit, SetState
<1>10. ASSUME NEW w \in Workers, MarkLoad(w) PROVE BlackInv'
  BY <1>10 DEF MarkLoad
<1>11. ASSUME NEW w \in Workers, MarkStore(w) PROVE BlackInv'
  BY <1>11 DEF MarkStore
<1> QED
  BY <1>1, <1>2, <1>3, <1>4, <1>5, <1>6, <1>7, <1>8, <1>9, <1>10, <1>11
     DEF Next, Scoped, Step, TryTerminate, TryBlacken

\* Nothing is unshaded while marking.
LEMMA StepRoot == Types /\ HoldsInv /\ RootInv /\ [Next]_vars => RootInv'
<1> SUFFICES ASSUME Types, HoldsInv, RootInv, [Next]_vars PROVE RootInv'
  OBVIOUS
<1>1. UNCHANGED roots /\ \A c \in Cells : color[c] # "white" => color'[c] # "white"
  BY DEF Types, HoldsInv, Next, Scoped, Step, TryTerminate, TryBlacken, vars, world, local, SetState, PopLocal, PopWorker,
         PopGlobal, StealFrom, PopNone, TerminateAlone, DecreaseWorkers,
         ZeroOrIncreaseWorkers, Blacken, BlackenFails, Visit, VisitFails, TraceDone,
         MarkLoad, MarkStore
<1>2. roots \subseteq Cells
  BY RootSetsAssumption DEF Types
<1> QED
  BY <1>1, <1>2 DEF RootInv

MarkInv == HInv /\ ReachInv /\ GreyInv /\ BlackInv /\ RootInv

LEMMA InitMark == Init => MarkInv
BY InitHandshake, InitReach, InitTricolor DEF MarkInv

LEMMA StepMark == ASSUME ~SpuriousCas PROVE MarkInv /\ [Next]_vars => MarkInv'
<1> SUFFICES ASSUME MarkInv, [Next]_vars PROVE MarkInv'
  OBVIOUS
<1>1. HInv' /\ ReachInv'
  BY StepHandshake, StepReach DEF MarkInv, HInv
<1>2. GreyInv' /\ BlackInv' /\ RootInv'
  BY StepGrey, StepBlack, StepRoot DEF MarkInv, HInv
<1> QED
  BY <1>1, <1>2 DEF MarkInv

LEMMA MarkInvExact == MarkInv => MarkingExact
<1> SUFFICES ASSUME MarkInv, AllDone
             PROVE  Black = Reach(roots, edges) /\ Grey = {}
  BY DEF MarkingExact
<1> USE DEF MarkInv, HInv
<1>1. injector = {} /\ \A w \in Workers : queue[w] = {} /\ deque[w] = {}
  BY WorkersAssumption DEF IdleInv, AllDone
<1>2. Grey = {}
  BY <1>1 DEF GreyInv, Held, Grey, AllDone
<1>3. \A c \in Cells : color[c] = "white" \/ color[c] = "black"
  BY <1>2 DEF Grey, Types, Colors
<1>4. roots \subseteq Black
  BY <1>3, RootSetsAssumption DEF RootInv, Black, Types
<1>5. Closed(Black, edges)
  <2> SUFFICES ASSUME NEW c \in Black, NEW d \in edges[c] PROVE d \in Black
    BY DEF Closed
  <2>1. c \in Cells /\ color[c] = "black" /\ d \in Cells
    BY DEF Black, Types
  <2>2. color[d] # "white"
    BY <2>1 DEF BlackInv, ToVisit, AllDone
  <2> QED
    BY <1>3, <2>1, <2>2 DEF Black
<1>6. Black \in SUBSET Cells
  BY DEF Black
<1>7. Reach(roots, edges) \subseteq Black
  BY <1>4, <1>5, <1>6, ReachFacts
<1>8. Black \subseteq Reach(roots, edges)
  BY DEF ReachInv, Black
<1> QED
  BY <1>2, <1>7, <1>8

\* At the end of pmarking::start the black cells are exactly the reachable ones,
\* on targets whose compare_exchange_weak does not fail spuriously.
THEOREM MarkingExactHolds == ASSUME ~SpuriousCas PROVE Spec => []MarkingExact
<1>1. MarkInv /\ [Next]_vars => MarkInv'
  BY StepMark
<1> QED
  BY <1>1, InitMark, MarkInvExact, PTL DEF Spec

-----------------------------------------------------------------------------
\* A shaded cell has its bit, or the worker that shaded it is about to set it,
\* or it is exposed.  The copy of a word that a worker holds has every bit of
\* the word whose cell is not exposed, and no other.
BitInv ==
    /\ exposed \subseteq Cells
    /\ \A c \in Cells : color[c] # "white" =>
        \/ c \in marked
        \/ c \in exposed
        \/ \E w \in Workers : pc[w] \in {"load", "store"} /\ cell[w] = c
    /\ \A w \in Workers : pc[w] = "store" =>
        /\ old_word[w] \ exposed \subseteq marked
        /\ (marked \cap WordMates(cell[w])) \ exposed \subseteq old_word[w]

LEMMA InitBit == Init => BitInv
BY InitTypes DEF Init, BitInv

\* A store removes exposed bits only, and adds a bit that every worker with a
\* copy of the word lacks to the exposed ones.
LEMMA StoreBit ==
    ASSUME Types, HoldsInv, BitInv, NEW w \in Workers, MarkStore(w)
    PROVE  BitInv'
<1> DEFINE c == cell[w]
<1>1. c \in Cells /\ pc[w] = "store" /\ w \in Workers
  BY DEF MarkStore, HoldsInv
<1>2. /\ exposed' = exposed \cup Exposed(w)
      /\ pc' = [pc EXCEPT ![w] = "trace"]
      /\ old_word' = [old_word EXCEPT ![w] = {}]
      /\ cell' = [cell EXCEPT ![w] = NoCell]
      /\ UNCHANGED color
  BY DEF MarkStore, GoTo
<1>3. Exposed(w) \subseteq Cells /\ Exposed(w) \subseteq {c}
  BY <1>1 DEF Exposed
<1>4. exposed \subseteq exposed' /\ exposed' \subseteq Cells
  BY <1>2, <1>3 DEF BitInv
<1>5. \A d \in marked \ exposed : d \in marked'
  <2> SUFFICES ASSUME NEW d \in marked, d \notin exposed PROVE d \in marked'
    OBVIOUS
  <2>1. CASE d \in WordMates(c)
    BY <1>1, <2>1 DEF BitInv, MarkStore
  <2>2. CASE d \notin WordMates(c)
    BY <2>2 DEF MarkStore
  <2> QED
    BY <2>1, <2>2
<1>6. c \in marked' \/ c \in exposed'
  <2>1. CASE c \in old_word[w]
    <3>1. marked' = marked
      BY <2>1 DEF MarkStore
    <3> QED
      BY <1>1, <1>4, <2>1, <3>1 DEF BitInv
  <2>2. CASE c \notin old_word[w]
    BY <2>2 DEF MarkStore
  <2> QED
    BY <2>1, <2>2
<1>7. \A d \in marked' : d \in marked \/ d \in exposed \/ d = c
  BY <1>1 DEF BitInv, MarkStore
<1>8. \A d \in Cells : color'[d] # "white" =>
        \/ d \in marked'
        \/ d \in exposed'
        \/ \E v \in Workers : pc'[v] \in {"load", "store"} /\ cell'[v] = d
  <2> SUFFICES ASSUME NEW d \in Cells, color[d] # "white", d \notin marked', d \notin exposed'
               PROVE  \E v \in Workers : pc'[v] \in {"load", "store"} /\ cell'[v] = d
    BY <1>2
  <2>1. d # c
    BY <1>6
  <2>2. d \notin marked /\ d \notin exposed
    BY <1>4, <1>5
  <2>3. PICK v \in Workers : pc[v] \in {"load", "store"} /\ cell[v] = d
    BY <2>2 DEF BitInv
  <2>4. v # w
    BY <2>1, <2>3
  <2> QED
    BY <1>2, <2>3, <2>4 DEF Types
<1>9. ASSUME NEW v \in Workers, pc'[v] = "store"
      PROVE  /\ old_word'[v] \ exposed' \subseteq marked'
             /\ (marked' \cap WordMates(cell'[v])) \ exposed' \subseteq old_word'[v]
  <2>1. v # w
    BY <1>2, <1>9 DEF Types
  <2>2. pc[v] = "store" /\ old_word'[v] = old_word[v] /\ cell'[v] = cell[v]
    BY <1>2, <1>9, <2>1 DEF Types
  <2>3. old_word[v] \ exposed \subseteq marked
    BY <2>2 DEF BitInv
  <2>4. old_word[v] \ exposed' \subseteq marked'
    BY <1>4, <1>5, <2>3
  <2>5. ASSUME NEW d \in marked', d \in WordMates(cell[v]), d \notin exposed'
        PROVE  d \in old_word[v]
    <3>1. CASE d \in marked
      BY <1>4, <2>2, <2>5, <3>1 DEF BitInv
    <3>2. CASE d \notin marked
      <4>1. d = c
        BY <1>4, <1>7, <2>5, <3>2
      <4>2. WordOf[cell[v]] = WordOf[cell[w]]
        BY <2>5, <4>1 DEF WordMates
      <4>3. c \in Exposed(w)
        BY <2>1, <2>2, <4>2 DEF Exposed
      <4> QED
        BY <1>2, <2>5, <4>1, <4>3
    <3> QED
      BY <3>1, <3>2
  <2> QED
    BY <2>2, <2>4, <2>5
<1> QED
  BY <1>4, <1>8, <1>9 DEF BitInv

\* The other steps.
LEMMA StepBit == Types /\ HoldsInv /\ BitInv /\ [Next]_vars => BitInv'
<1> SUFFICES ASSUME Types, HoldsInv, BitInv, [Next]_vars PROVE BitInv'
  OBVIOUS
<1> USE DEF Types, BitInv, GoTo, Take, world, local, bits, WordMates
<1>1. CASE UNCHANGED vars
  BY <1>1 DEF vars
<1>2. ASSUME NEW w \in Workers,
             PopLocal(w) \/ PopWorker(w) \/ PopGlobal(w) \/ \E v \in Workers : StealFrom(w, v)
      PROVE  BitInv'
  BY <1>2 DEF PopLocal, PopWorker, PopGlobal, StealFrom
<1>3. ASSUME NEW w \in Workers, PopNone(w) \/ TerminateAlone(w) PROVE BitInv'
  BY <1>3 DEF PopNone, TerminateAlone
<1>4. ASSUME NEW w \in Workers, DecreaseWorkers(w) \/ ZeroOrIncreaseWorkers(w) PROVE BitInv'
  BY <1>4 DEF DecreaseWorkers, ZeroOrIncreaseWorkers
<1>5. ASSUME NEW w \in Workers, Blacken(w) PROVE BitInv'
  <2>1. object[w] \in Cells
    BY <1>5 DEF Blacken, HoldsInv
  <2> QED
    BY <1>5, <2>1 DEF Blacken, SetState
<1>6. ASSUME NEW w \in Workers, BlackenFails(w) \/ TraceDone(w) \/ VisitFails(w) PROVE BitInv'
  BY <1>6 DEF BlackenFails, TraceDone, VisitFails
<1>7. ASSUME NEW w \in Workers, Visit(w) PROVE BitInv'
  BY <1>7 DEF Visit, SetState
<1>8. ASSUME NEW w \in Workers, MarkLoad(w) PROVE BitInv'
  BY <1>8 DEF MarkLoad
<1>9. ASSUME NEW w \in Workers, MarkStore(w) PROVE BitInv'
  BY <1>9, StoreBit
<1> QED
  BY <1>1, <1>2, <1>3, <1>4, <1>5, <1>6, <1>7, <1>8, <1>9 DEF Next, Scoped, Step, TryTerminate, TryBlacken

LEMMA BitInvariant == Spec => [](Types /\ HoldsInv /\ BitInv)
<1>1. Init => Types /\ HoldsInv /\ BitInv
  BY InitTypes, InitBit
<1>2. Types /\ HoldsInv /\ BitInv /\ [Next]_vars => (Types /\ HoldsInv /\ BitInv)'
  BY StepTypes, StepBit
<1> QED
  BY <1>1, <1>2, PTL DEF Spec

\* However cells share bitmap words and however many workers there are, a found
\* cell ends without its bit only if its store met another worker between load
\* and store of the same word; TLC finds that this happens.
THEOREM BitsLostOnlyToRacesHolds == Spec => []BitsLostOnlyToRaces
<1>1. BitInv => BitsLostOnlyToRaces
  BY DEF BitInv, BitsLostOnlyToRaces, AllDone, Black
<1> QED
  BY <1>1, BitInvariant, PTL

\* A worker alone exposes nothing.
NoneExposed == exposed = {}

LEMMA AloneExposesNothing ==
    ASSUME Cardinality(Workers) = 1
    PROVE  NoneExposed /\ [Next]_vars => NoneExposed'
<1> SUFFICES ASSUME exposed = {}, [Next]_vars PROVE exposed' = {}
  BY DEF NoneExposed
<1>1. PICK x : Workers = {x}
  BY WorkersAssumption, FS_Singleton
<1>2. ASSUME NEW w \in Workers, MarkStore(w) PROVE exposed' = {}
  <2>1. Exposed(w) = {}
    BY <1>1 DEF Exposed
  <2> QED
    BY <1>2, <2>1 DEF MarkStore
<1>3. ASSUME NEW w \in Workers, Step(w), ~MarkStore(w) PROVE exposed' = exposed
  BY <1>3 DEF Step, TryTerminate, TryBlacken, bits, PopLocal, PopWorker, PopGlobal, StealFrom,
         PopNone, TerminateAlone, DecreaseWorkers, ZeroOrIncreaseWorkers, Blacken,
         BlackenFails, Visit, VisitFails, TraceDone, MarkLoad
<1> QED
  BY <1>2, <1>3 DEF Next, Scoped, vars

\* With one marking thread every found cell has its mark bit at the end, as
\* docs/gc/gc.md says.
THEOREM AloneMarksAll ==
    ASSUME Cardinality(Workers) = 1 PROVE Spec => []FoundCellsAreMarked
<1>1. Init => NoneExposed
  BY DEF Init, NoneExposed
<1>2. NoneExposed /\ [Next]_vars => NoneExposed'
  BY AloneExposesNothing
<1>3. NoneExposed /\ BitsLostOnlyToRaces => FoundCellsAreMarked
  BY DEF NoneExposed, BitsLostOnlyToRaces, FoundCellsAreMarked
<1> QED
  BY <1>1, <1>2, <1>3, BitsLostOnlyToRacesHolds, PTL DEF Spec
=============================================================================
