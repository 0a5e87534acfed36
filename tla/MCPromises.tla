----------------------------- MODULE MCPromises -----------------------------
(***************************************************************************)
(* A few interchangeable promises.                                         *)
(***************************************************************************)
EXTENDS Promises, TLC

PromiseSymmetry == Permutations(Promise)

Handlers == UNION {{subs[p][i] : i \in DOMAIN subs[p]} : p \in Promise}
Chained == \E p \in Promise : resolution[p] # None /\ resolution[p].kind = "promise"

Untracked == tracking = [p \in Promise |-> None]

\* The program rejected at most one of the promises that it tracks or may track.
OneRejected ==
    Cardinality({p \in Promise : /\ tracking[p] = None
                                 /\ resolution[p] # None /\ ~resolution[p].ok}) <= 1

OnlyTracks == (\A sub \in Handlers : sub.track # <<>>) /\ OneRejected

\* The safety run looks at two kinds of program: those that make at most three
\* promises and any handlers (no finally beside promises resolved with promises),
\* and those whose only handlers are the ones of a Promise.all, which needs five
\* promises for two elements; there the jobs without handlers stay queued.
SafetyScope ==
    \/ /\ Untracked /\ Cardinality(created) <= 3
       /\ Chained => \A sub \in Handlers : sub.finally = "none"
    \/ /\ ~Chained /\ OnlyTracks
       /\ \A p \in Promise : delivered[p] > 0 => subs[p] # <<>>

\* For the liveness run, where symmetry is unsound: the promises are 1, 2, ...
\* and are created in this order, which only names them.
InOrder == \A p \in created : 1..p \subseteq created

\* A program has handlers of its own or tracks promises, once.  Only steps of
\* script, which nothing obliges it to take, leave the scope.
LivenessScope ==
    /\ InOrder
    /\ Untracked \/ OnlyTracks
    /\ Cardinality({p \in Promise : tracking[p] # None}) <= 1
=============================================================================
