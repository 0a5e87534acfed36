------------------------------ MODULE Promises ------------------------------
(***************************************************************************)
(* Promises and their jobs (vm/promise.rs, jsrt/promise.rs and             *)
(* Context::schedule_async).                                               *)
(*                                                                         *)
(* Script runs between jobs and inside the handlers a job calls; it may    *)
(* create promises, settle any of them (the engine exports resolve and     *)
(* reject as methods too) and add handlers at any time.  The embedder owns *)
(* the queue of jobs and runs one at a time, in an order it chooses.       *)
(*                                                                         *)
(* A job iterates over `subs` by reference while its handlers may push to  *)
(* that vector: the iterator keeps the length it started with.  A push     *)
(* moves the buffer only at a full capacity, the first of which is 4, so   *)
(* MaxSubs stays below it.                                                 *)
(***************************************************************************)
EXTENDS Integers, Sequences, FiniteSets

CONSTANTS
    Promise,        \* every promise the run may create
    Value,          \* JavaScript values that are not promises
    Null,           \* the value null
    None,           \* Option::None
    Scheduler,      \* whether with_async_scheduler installed a scheduler
    Chaining,       \* whether script passes promises as values
    Forms,          \* the then/catch/finally calls that script makes
    Modes,          \* the tracking modes that script uses
    MaxTracked,     \* bound on the length of a tracked array
    MaxSubs         \* bound on the subs that script adds

ValueKind == {"value", "promise", "array"}
Handler == {"none", "user", "pass_val", "track"}

\* Result<JsValue, JsValue>.  The array that Promise.all builds is named by its
\* promise: it holds the values of that promise's tracking_results.
Result == [ok: BOOLEAN, kind: ValueKind, x: Value \cup Promise]
Tracking == [mode: {"All", "Race", "AllSettled", "Any"},
             of: Seq(Promise), results: Seq(Result \cup {None})]
\* (then_func, catch_func, finally_func, sub_promise); track is what the closure
\* finally_track captured.
Sub == [then: Handler, catch: Handler, finally: Handler, sub: Promise,
        track: {<<>>} \cup (Promise \X Nat)]
Job == [pc: {"idle", "loop", "user", "settle"}, p: Promise \cup {None},
        phase: {"main", "finally"}, i: Nat, n: Nat, ret: Result \cup {None}]

ASSUME NoneAssumption == None \notin Promise /\ None \notin Result /\ None \notin Tracking
ASSUME NullAssumption == Null \in Value
ASSUME SchedulerAssumption == Scheduler \in BOOLEAN /\ Chaining \in BOOLEAN
ASSUME ModesAssumption == Modes \subseteq {"All", "Race", "AllSettled", "Any"}
ASSUME FormsAssumption == Forms \subseteq {"then0", "then1", "then2", "catch", "finally"}
ASSUME BoundsAssumption == MaxSubs \in Nat /\ MaxTracked \in Nat
ASSUME BufferAssumption == MaxSubs <= 4

VARIABLES
    created,        \* the promises that exist
    resolution,     \* JsPromise.resolution
    subs,           \* JsPromise.subs
    tracking,       \* JsPromise.tracking_mode and tracking_results
    jobs,           \* jobs[p]: scheduled jobs of p the embedder holds
    delivered,      \* delivered[p]: jobs of p that were started
    job,            \* the job that runs
    building,       \* <<p, x>>: new_tracking of p is at element x; else <<>>
    panicked        \* an unwrap() failed

vars == <<created, resolution, subs, tracking, jobs, delivered, job, building, panicked>>

TypeOK ==
    /\ created \in SUBSET Promise
    /\ resolution \in [Promise -> Result \cup {None}]
    /\ subs \in [Promise -> Seq(Sub)]
    /\ tracking \in [Promise -> Tracking \cup {None}]
    /\ jobs \in [Promise -> Nat] /\ delivered \in [Promise -> Nat]
    /\ job \in Job
    /\ building \in {<<>>} \cup (Promise \X Nat)
    /\ panicked \in BOOLEAN

-----------------------------------------------------------------------------
Idle == [pc |-> "idle", p |-> None, phase |-> "main", i |-> 1, n |-> 0, ret |-> None]

Init ==
    /\ created = {}
    /\ resolution = [p \in Promise |-> None]
    /\ subs = [p \in Promise |-> <<>>]
    /\ tracking = [p \in Promise |-> None]
    /\ jobs = [p \in Promise |-> 0] /\ delivered = [p \in Promise |-> 0]
    /\ job = Idle
    /\ building = <<>> /\ panicked = FALSE

Ok(k, x) == [ok |-> TRUE, kind |-> k, x |-> x]
\* What script can pass to resolve, reject, or return from a handler.
Anything == [ok: BOOLEAN, kind: {"value"}, x: Value]
              \cup [ok: BOOLEAN, kind: {"promise"}, x: IF Chaining THEN created ELSE {}]

\* The sub that a promise p adds to the one it was resolved with.
PassValSub(p) == [then |-> "pass_val", catch |-> "pass_val", finally |-> "none",
                  sub |-> p, track |-> <<>>]

\* JsPromise::do_resolve.  A promise resolved with a promise becomes its sub and
\* stays unresolved; the resolution is stored before the job is scheduled.
DoResolve_Again(p, r) ==
    /\ resolution' = [resolution EXCEPT ![p] = r]
    /\ jobs' = [jobs EXCEPT ![p] = IF Scheduler THEN @ + 1 ELSE @]
    /\ UNCHANGED subs
DoResolve_JobForSubs(p, r) ==
    IF resolution[p] # None THEN UNCHANGED <<resolution, subs, jobs>>
    ELSE /\ resolution' = [resolution EXCEPT ![p] = r]
         /\ jobs' = [jobs EXCEPT ![p] = IF subs[p] # <<>> THEN @ + 1 ELSE @]
         /\ UNCHANGED subs
DoResolve(p, r) ==
    IF resolution[p] # None THEN UNCHANGED <<resolution, subs, jobs>>
    ELSE IF r.ok /\ r.kind = "promise"
         THEN /\ subs' = [subs EXCEPT ![r.x] = Append(@, PassValSub(p))]
              /\ UNCHANGED <<resolution, jobs>>
         ELSE /\ resolution' = [resolution EXCEPT ![p] = r]
              /\ jobs' = [jobs EXCEPT ![p] = IF Scheduler THEN @ + 1 ELSE @]
              /\ UNCHANGED subs

\* Room under the bound for k more subs.
Room(k) == k + Cardinality({at \in Promise \X (1..4) : at[2] <= Len(subs[at[1]])}) <= MaxSubs
RoomFor(r) == r.ok /\ r.kind = "promise" => Room(1)

ScriptRuns == job.pc \in {"idle", "user"} /\ building = <<>> /\ ~panicked

\* JsPromise::new; what the executor does are steps of script that follow.
New(p) ==
    /\ ScriptRuns /\ p \notin created
    /\ created' = created \cup {p}
    /\ UNCHANGED <<resolution, subs, tracking, jobs, delivered, job, building, panicked>>

\* The functions an executor gets, and the methods resolve and reject.
Settle(p, r) ==
    /\ ScriptRuns /\ p \in created /\ RoomFor(r)
    /\ DoResolve(p, r)
    /\ UNCHANGED <<created, tracking, delivered, job, building, panicked>>

\* Promise.resolve and Promise.reject.
StaticSettle(p, r) ==
    /\ ScriptRuns /\ p \notin created /\ RoomFor(r)
    /\ created' = created \cup {p}
    /\ DoResolve(p, r)
    /\ UNCHANGED <<tracking, delivered, job, building, panicked>>

SubOf(form, s) ==
    [then    |-> IF form \in {"then1", "then2"} THEN "user" ELSE "none",
     catch   |-> IF form \in {"then2", "catch"} THEN "user" ELSE "none",
     finally |-> IF form = "finally" THEN "user" ELSE "none",
     sub |-> s, track |-> <<>>]

\* JsPromise::then: only adds the sub, whatever state p is in.
Then(p, form, s) ==
    /\ ScriptRuns /\ p \in created /\ s \notin created
    /\ Room(1)
    /\ created' = created \cup {s}
    /\ subs' = [subs EXCEPT ![p] = Append(@, SubOf(form, s))]
    /\ UNCHANGED <<resolution, tracking, jobs, delivered, job, building, panicked>>

\* JsPromise::new_tracking on an array of promises.
NewTracking(p, mode, arr) ==
    /\ ScriptRuns /\ p \notin created
    /\ Len(arr) < Cardinality(Promise \ created)
    /\ Room(Len(arr))
    /\ created' = created \cup {p}
    /\ tracking' = [tracking EXCEPT ![p] =
                      [mode |-> mode, of |-> arr, results |-> [x \in 1..Len(arr) |-> None]]]
    /\ building' = <<p, 1>>
    /\ UNCHANGED <<resolution, subs, jobs, delivered, job, panicked>>

\* Its loop: each element gets a sub whose finally is the closure finally_track.
TrackElement_FirstIndex(s) ==
    /\ building # <<>> /\ s \notin created
    /\ building[2] <= Len(tracking[building[1]].of)
    /\ subs' = [subs EXCEPT ![tracking[building[1]].of[building[2]]] = Append(@,
                  [then |-> "none", catch |-> "none", finally |-> "track",
                   sub |-> s, track |-> <<building[1], 1>>])]
    /\ building' = <<building[1], building[2] + 1>>
    /\ created' = created \cup {s}
    /\ UNCHANGED <<resolution, tracking, jobs, delivered, job, panicked>>
TrackElement(s) ==
    /\ building # <<>> /\ s \notin created
    /\ LET p == building[1]
           x == building[2]
           q == tracking[p].of[x]
       IN /\ x <= Len(tracking[p].of)
          /\ subs' = [subs EXCEPT ![q] = Append(@,
                        [then |-> "none", catch |-> "none", finally |-> "track",
                         sub |-> s, track |-> building])]
          /\ building' = <<p, x + 1>>
    /\ created' = created \cup {s}
    /\ UNCHANGED <<resolution, tracking, jobs, delivered, job, panicked>>

TrackDone ==
    /\ building # <<>>
    /\ building[2] > Len(tracking[building[1]].of)
    /\ building' = <<>>
    /\ UNCHANGED <<created, resolution, subs, tracking, jobs, delivered, job, panicked>>

-----------------------------------------------------------------------------
(***************************************************************************)
(* A job: the subs with the handler for the outcome, then those with a     *)
(* finally handler; each handler's result resolves the sub's promise.      *)
(***************************************************************************)
StartJob(p) ==
    /\ job.pc = "idle" /\ building = <<>> /\ ~panicked
    /\ jobs[p] > 0
    /\ jobs' = [jobs EXCEPT ![p] = @ - 1]
    /\ delivered' = [delivered EXCEPT ![p] = @ + 1]
    /\ job' = [Idle EXCEPT !.pc = "loop", !.p = p, !.n = Len(subs[p])]
    /\ UNCHANGED <<created, resolution, subs, tracking, building, panicked>>

CurrentSub == subs[job.p][job.i]
\* The closure of the current sub that this loop calls.
CurrentHandler ==
    IF job.phase = "finally" THEN CurrentSub.finally
    ELSE IF resolution[job.p].ok THEN CurrentSub.then ELSE CurrentSub.catch

AtSub(h) ==
    /\ job.pc = "loop" /\ job.i <= job.n /\ ~panicked
    /\ CurrentHandler = h

SkipSub ==
    /\ AtSub("none")
    /\ job' = [job EXCEPT !.i = @ + 1]
    /\ UNCHANGED <<created, resolution, subs, tracking, jobs, delivered, building, panicked>>

\* A function of the program is called, and returns or throws after any steps of
\* script.
CallHandler ==
    /\ AtSub("user")
    /\ job' = [job EXCEPT !.pc = "user"]
    /\ UNCHANGED <<created, resolution, subs, tracking, jobs, delivered, building, panicked>>
ReturnHandler(r) ==
    /\ job.pc = "user" /\ building = <<>> /\ ~panicked /\ RoomFor(r)
    /\ job' = [job EXCEPT !.pc = "settle", !.ret = r]
    /\ UNCHANGED <<created, resolution, subs, tracking, jobs, delivered, building, panicked>>

\* pass_val returns its argument, which is the value p was fulfilled with or the
\* one it was rejected with.
PassVal ==
    /\ AtSub("pass_val")
    /\ job' = [job EXCEPT !.pc = "settle", !.ret = [resolution[job.p] EXCEPT !.ok = TRUE]]
    /\ UNCHANGED <<created, resolution, subs, tracking, jobs, delivered, building, panicked>>

Fulfilled(results) == \A x \in DOMAIN results : results[x] # None /\ results[x].ok

\* resolve_single_tracked_resolution: what the new result of element x makes of
\* the tracking promise.  results already holds it.
Followup_Any(o, results, r) ==
    IF tracking[o].mode = "All" /\ r.ok THEN DoResolve(o, Ok("array", o))
    ELSE UNCHANGED <<resolution, subs, jobs>>
Followup(o, results, r) ==
    CASE tracking[o].mode = "All" /\ r.ok ->
            IF \A x \in DOMAIN results : results[x] # None
            THEN DoResolve(o, Ok("array", o)) ELSE UNCHANGED <<resolution, subs, jobs>>
      [] tracking[o].mode = "All" /\ ~r.ok -> DoResolve(o, r)
      [] tracking[o].mode = "Race" -> DoResolve(o, r)
      [] OTHER -> UNCHANGED <<resolution, subs, jobs>>

\* The loop that fills the array of All unwraps every result as Some(Ok(_)).
FillPanics(o, results, r) ==
    /\ tracking[o].mode = "All" /\ r.ok
    /\ \A x \in DOMAIN results : results[x] # None
    /\ ~Fulfilled(results)

\* finally_track reads the resolution of its element when it is called, and
\* unwraps it; nothing is recorded for a promise that is settled already.
TrackWhen(open) ==
    LET o == CurrentSub.track[1]
        x == CurrentSub.track[2]
        r == resolution[tracking[o].of[x]]
        results == [tracking[o].results EXCEPT ![x] = r]
    IN /\ panicked' = (r = None \/ (open /\ FillPanics(o, results, r)))
       /\ IF ~open \/ panicked'
          THEN UNCHANGED <<resolution, subs, tracking, jobs>>
          ELSE /\ tracking' = [tracking EXCEPT ![o].results = results]
               /\ Followup(o, results, r)
       /\ job' = [job EXCEPT !.pc = "settle", !.ret = Ok("value", Null)]
       /\ UNCHANGED <<created, delivered, building>>

TrackResult_Always == AtSub("track") /\ TrackWhen(TRUE)
TrackResult ==
    /\ AtSub("track")
    /\ TrackWhen(resolution[CurrentSub.track[1]] = None)

SettleSub ==
    /\ job.pc = "settle" /\ ~panicked
    /\ DoResolve(CurrentSub.sub, job.ret)
    /\ job' = [job EXCEPT !.pc = "loop", !.i = @ + 1, !.ret = None]
    /\ UNCHANGED <<created, tracking, delivered, building, panicked>>

\* The first loop ends: the second starts with the subs there are now.
EndMain ==
    /\ job.pc = "loop" /\ job.i > job.n /\ job.phase = "main" /\ ~panicked
    /\ job' = [job EXCEPT !.phase = "finally", !.i = 1, !.n = Len(subs[job.p])]
    /\ UNCHANGED <<created, resolution, subs, tracking, jobs, delivered, building, panicked>>
EndJob ==
    /\ job.pc = "loop" /\ job.i > job.n /\ job.phase = "finally" /\ ~panicked
    /\ job' = Idle
    /\ UNCHANGED <<created, resolution, subs, tracking, jobs, delivered, building, panicked>>

-----------------------------------------------------------------------------
Arrays == UNION {[1..k -> created] : k \in 0..MaxTracked}

Script ==
    \/ \E p \in Promise : New(p)
    \/ \E p \in Promise, r \in Anything : Settle(p, r) \/ StaticSettle(p, r)
    \/ \E p, s \in Promise, form \in Forms : Then(p, form, s)
    \/ \E p \in Promise, mode \in Modes, arr \in Arrays : NewTracking(p, mode, arr)
    \/ \E s \in Promise : TrackElement(s)
    \/ TrackDone

RunJob ==
    \/ \E p \in Promise : StartJob(p)
    \/ SkipSub \/ CallHandler \/ PassVal \/ TrackResult \/ SettleSub
    \/ \E r \in Anything : ReturnHandler(r)
    \/ EndMain \/ EndJob

Next == Script \/ RunJob

Spec == Init /\ [][Next]_vars

\* The embedder runs the jobs it was given, handlers return, and new_tracking's
\* loop is ordinary code.
FairSpec ==
    /\ Spec
    /\ WF_vars(RunJob)
    /\ WF_vars((\E s \in Promise : TrackElement(s)) \/ TrackDone)

-----------------------------------------------------------------------------
(***************************************************************************)
(* Properties.                                                             *)
(***************************************************************************)
\* A settled promise has exactly one job, queued or started, and a pending one has
\* none: however often, and from wherever, resolve and reject are called, the
\* handlers of a promise are run by one job.
DeliveredOnce ==
    \A p \in Promise :
        jobs[p] + delivered[p] = IF Scheduler /\ resolution[p] # None THEN 1 ELSE 0

\* No unwrap of the tracking code fails: finally_track is called only when its
\* element is settled, and "results should all be Some and Ok" when Promise.all
\* builds its array.
NoPanic == ~panicked

\* A promise of Promise.all that was fulfilled with its array: every element was
\* fulfilled and the array holds, at each index, the value of that element, in
\* whatever order the jobs ran.
AllOutcome ==
    \A p \in Promise :
        tracking[p] # None /\ resolution[p] = Ok("array", p) =>
            /\ Fulfilled(tracking[p].results)
            /\ \A x \in DOMAIN tracking[p].of :
                  tracking[p].results[x] = resolution[tracking[p].of[x]]

\* Every settled promise is delivered, and its job ends.
JobsEnd ==
    \A p \in Promise :
        resolution[p] # None ~> delivered[p] = 1 /\ job.p # p

\* A tracking promise settles once all its elements are settled, if their jobs had
\* not started when they were tracked.
TrackingSettles ==
    \A p \in Promise :
        ( /\ tracking[p] # None /\ building = <<>> /\ tracking[p].of # <<>>
          /\ \A x \in DOMAIN tracking[p].of :
                LET q == tracking[p].of[x]
                IN resolution[q] # None /\ delivered[q] = 0 )
        ~> resolution[p] # None

=============================================================================
