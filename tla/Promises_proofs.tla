--------------------------- MODULE Promises_proofs ---------------------------
(***************************************************************************)
(* Proofs about Promises, for any promises, values, bounds and script: one *)
(* job delivers each settled promise, no unwrap of the tracking code       *)
(* fails, and what Promise.all resolves with is right.                     *)
(***************************************************************************)
EXTENDS Promises, TLAPS

-----------------------------------------------------------------------------
(***************************************************************************)
(* The inductive invariant, part by part.                                  *)
(***************************************************************************)
Fresh ==
    \A p \in Promise : p \notin created => resolution[p] = None /\ tracking[p] = None

\* Only settled promises have jobs, and a job stays within the subs it started with.
JobSound ==
    /\ \A p \in Promise : jobs[p] > 0 => resolution[p] # None
    /\ job.pc # "idle" =>
          /\ job.p \in Promise /\ resolution[job.p] # None
          /\ job.i >= 1 /\ job.n <= Len(subs[job.p])
    /\ job.pc \in {"user", "settle"} => job.i <= job.n
    /\ job.pc = "settle" => job.ret \in Result

\* A finally_track closure sits in the subs of the element it tracks.
SubSound(cr, tr, p, s) ==
    /\ s.sub \in cr
    /\ s.then # "track" /\ s.catch # "track"
    /\ s.finally = "track" =>
          /\ s.track # <<>>
          /\ tr[s.track[1]] # None
          /\ s.track[2] \in 1..Len(tr[s.track[1]].of)
          /\ tr[s.track[1]].of[s.track[2]] = p
SubsSound ==
    \A p \in Promise : \A i \in 1..Len(subs[p]) :
        SubSound(created, tracking, p, subs[p][i])

BuildingSound ==
    building # <<>> => tracking[building[1]] # None /\ building[2] >= 1

\* A recorded result is the element's, and while Promise.all is pending no
\* recorded result is a rejection.
TrackingSoundAt(p) ==
    /\ Len(tracking[p].results) = Len(tracking[p].of)
    /\ \A x \in 1..Len(tracking[p].of) :
          tracking[p].results[x] # None =>
              /\ tracking[p].results[x] = resolution[tracking[p].of[x]]
              /\ tracking[p].mode = "All" /\ resolution[p] = None =>
                    tracking[p].results[x].ok
TrackingSound == \A p \in Promise : tracking[p] # None => TrackingSoundAt(p)

\* The array of p exists only once p is settled.
ArrayStored ==
    \A p, q \in Promise :
        resolution[q] # None /\ resolution[q].kind = "array" /\ resolution[q].x = p =>
            resolution[p] # None
ArrayReturned ==
    \A p \in Promise :
        job.pc = "settle" /\ job.ret.kind = "array" /\ job.ret.x = p => resolution[p] # None

IInv ==
    /\ TypeOK /\ Fresh /\ JobSound /\ SubsSound /\ BuildingSound
    /\ TrackingSound /\ ArrayStored /\ ArrayReturned /\ AllOutcome /\ NoPanic

-----------------------------------------------------------------------------
(***************************************************************************)
(* What do_resolve does.                                                   *)
(***************************************************************************)
LEMMA DoResolveEffect ==
    ASSUME TypeOK, NEW p \in Promise, NEW r \in Result, DoResolve(p, r)
    PROVE  /\ resolution' \in [Promise -> Result \cup {None}]
           /\ subs' \in [Promise -> Seq(Sub)]
           /\ jobs' \in [Promise -> Nat]
           /\ \A q \in Promise : q # p => resolution'[q] = resolution[q] /\ jobs'[q] = jobs[q]
           /\ resolution[p] # None => resolution'[p] = resolution[p] /\ jobs'[p] = jobs[p]
           /\ resolution[p] = None =>
                 \/ resolution'[p] = None /\ jobs'[p] = jobs[p] /\ r.ok /\ r.kind = "promise"
                 \/ /\ resolution'[p] = r /\ ~(r.ok /\ r.kind = "promise")
                    /\ jobs'[p] = IF Scheduler THEN jobs[p] + 1 ELSE jobs[p]
           /\ \A q \in Promise : \/ subs'[q] = subs[q]
                                 \/ subs'[q] = Append(subs[q], PassValSub(p))
<1>1. resolution[p] # None \/ (resolution[p] = None /\ r.ok /\ r.kind = "promise")
        \/ (resolution[p] = None /\ ~(r.ok /\ r.kind = "promise"))
  OBVIOUS
<1>2. CASE resolution[p] # None
  BY <1>2 DEF DoResolve, TypeOK
<1>3. CASE resolution[p] = None /\ r.ok /\ r.kind = "promise"
  <2>1. PassValSub(p) \in Sub
    BY DEF PassValSub, Sub, Handler
  <2>2. subs' = [subs EXCEPT ![r.x] = Append(@, PassValSub(p))]
        /\ resolution' = resolution /\ jobs' = jobs
    BY <1>3 DEF DoResolve
  <2>3. \A q \in Promise : Append(subs[q], PassValSub(p)) \in Seq(Sub)
    BY <2>1 DEF TypeOK
  <2> QED
    BY <1>3, <2>2, <2>3 DEF TypeOK
<1>4. CASE resolution[p] = None /\ ~(r.ok /\ r.kind = "promise")
  <2>1. /\ resolution' = [resolution EXCEPT ![p] = r]
        /\ jobs' = [jobs EXCEPT ![p] = IF Scheduler THEN @ + 1 ELSE @]
        /\ subs' = subs
    BY <1>4 DEF DoResolve
  <2>2. resolution' \in [Promise -> Result \cup {None}] /\ subs' \in [Promise -> Seq(Sub)]
        /\ resolution'[p] = r
    BY <2>1 DEF TypeOK
  <2>3. jobs' \in [Promise -> Nat]
        /\ jobs'[p] = IF Scheduler THEN jobs[p] + 1 ELSE jobs[p]
    BY <2>1 DEF TypeOK
  <2>4. \A q \in Promise : q # p => resolution'[q] = resolution[q] /\ jobs'[q] = jobs[q]
    BY <2>1 DEF TypeOK
  <2> QED
    BY <1>4, <2>1, <2>2, <2>3, <2>4
<1> QED
  BY <1>1, <1>2, <1>3, <1>4

-----------------------------------------------------------------------------
(***************************************************************************)
(* A step that resolves p with r and leaves the tracking alone.            *)
(***************************************************************************)
ResolveStep(p, r) ==
    /\ DoResolve(p, r)
    /\ created \subseteq created' /\ created' \in SUBSET Promise /\ p \in created'
    /\ UNCHANGED <<tracking, delivered>>
    /\ \A q \in Promise : r.kind = "array" /\ r.x = q => resolution[q] # None

LEMMA ResolveStepSound ==
    ASSUME IInv, NEW p \in Promise, NEW r \in Result, ResolveStep(p, r)
    PROVE  /\ resolution' \in [Promise -> Result \cup {None}]
           /\ subs' \in [Promise -> Seq(Sub)]
           /\ jobs' \in [Promise -> Nat]
           /\ \A q \in Promise : /\ resolution[q] # None => resolution'[q] = resolution[q]
                                 /\ Len(subs'[q]) >= Len(subs[q])
           /\ Fresh' /\ SubsSound' /\ TrackingSound' /\ AllOutcome'
           /\ \A q \in Promise : jobs'[q] > 0 => resolution'[q] # None
           /\ ArrayStored'
           /\ DeliveredOnce => DeliveredOnce'
<1>1. TypeOK /\ DoResolve(p, r)
  BY DEF IInv, ResolveStep
<1>2. /\ resolution' \in [Promise -> Result \cup {None}]
      /\ subs' \in [Promise -> Seq(Sub)]
      /\ jobs' \in [Promise -> Nat]
  BY <1>1, DoResolveEffect
<1>3. \A q \in Promise : q # p => resolution'[q] = resolution[q] /\ jobs'[q] = jobs[q]
  BY <1>1, DoResolveEffect
<1>4. resolution[p] # None => resolution'[p] = resolution[p] /\ jobs'[p] = jobs[p]
  BY <1>1, DoResolveEffect
<1>5. resolution[p] = None =>
         \/ resolution'[p] = None /\ jobs'[p] = jobs[p] /\ r.ok /\ r.kind = "promise"
         \/ /\ resolution'[p] = r /\ ~(r.ok /\ r.kind = "promise")
            /\ jobs'[p] = IF Scheduler THEN jobs[p] + 1 ELSE jobs[p]
  BY <1>1, DoResolveEffect
<1>6. \A q \in Promise : \/ subs'[q] = subs[q]
                         \/ subs'[q] = Append(subs[q], PassValSub(p))
  BY <1>1, DoResolveEffect
<1>7. \A q \in Promise : resolution[q] # None => resolution'[q] = resolution[q]
  BY <1>3, <1>4
<1>8. r # None
  BY NoneAssumption
<1>9. \A q \in Promise : Len(subs'[q]) >= Len(subs[q])
  <2> TAKE q \in Promise
  <2>1. subs[q] \in Seq(Sub)
    BY <1>1 DEF TypeOK
  <2> QED
    BY <2>1, <1>6
<1>10. Fresh'
  BY <1>3, <1>4 DEF ResolveStep, IInv, Fresh
<1>11. SubsSound'
  <2>1. \A q \in Promise : \A s \in Sub :
            SubSound(created, tracking, q, s) => SubSound(created', tracking', q, s)
    BY DEF ResolveStep, SubSound
  <2>2. PassValSub(p) \in Sub
    BY DEF PassValSub, Sub, Handler
  <2>3. \A q \in Promise : SubSound(created', tracking', q, PassValSub(p))
    BY DEF ResolveStep, SubSound, PassValSub
  <2> SUFFICES ASSUME NEW q \in Promise, NEW i \in 1..Len(subs'[q])
               PROVE  SubSound(created', tracking', q, subs'[q][i])
    BY DEF SubsSound
  <2>4. subs[q] \in Seq(Sub)
    BY <1>1 DEF TypeOK
  <2>5. i \in 1..Len(subs[q]) => SubSound(created', tracking', q, subs[q][i])
    BY <2>1, <2>4 DEF IInv, SubsSound
  <2>6. CASE subs'[q] = subs[q]
    BY <2>5, <2>6
  <2>7. CASE subs'[q] = Append(subs[q], PassValSub(p))
    <3>1. subs'[q][i] = IF i \in 1..Len(subs[q]) THEN subs[q][i] ELSE PassValSub(p)
      BY <2>2, <2>4, <2>7
    <3> QED
      BY <2>3, <2>5, <3>1
  <2> QED
    BY <1>6, <2>6, <2>7
<1>12. TrackingSound'
  <2> SUFFICES ASSUME NEW q \in Promise, tracking'[q] # None
               PROVE  TrackingSoundAt(q)'
    BY DEF TrackingSound
  <2>1. tracking' = tracking /\ TrackingSoundAt(q) /\ tracking[q] \in Tracking
    BY <1>1 DEF ResolveStep, IInv, TrackingSound, TypeOK
  <2>2. \A x \in 1..Len(tracking[q].of) : tracking[q].of[x] \in Promise
    BY <2>1 DEF Tracking
  <2>3. resolution'[q] = None => resolution[q] = None
    BY <1>7
  <2> QED
    BY <1>7, <2>1, <2>2, <2>3 DEF TrackingSoundAt
<1>13. ArrayStored'
  <2> SUFFICES ASSUME NEW o \in Promise, NEW q \in Promise,
                      resolution'[q] # None, resolution'[q].kind = "array", resolution'[q].x = o
               PROVE  resolution'[o] # None
    BY DEF ArrayStored
  <2>1. CASE resolution'[q] = resolution[q]
    BY <1>7, <2>1 DEF IInv, ArrayStored
  <2>2. CASE resolution'[q] # resolution[q]
    <3>1. resolution'[q] = r
      BY <1>3, <1>4, <1>5, <2>2
    <3> QED
      BY <1>7, <3>1 DEF ResolveStep
  <2> QED
    BY <2>1, <2>2
<1>14. AllOutcome'
  <2> SUFFICES ASSUME NEW q \in Promise, tracking'[q] # None, resolution'[q] = Ok("array", q)
               PROVE  /\ Fulfilled(tracking'[q].results)
                      /\ \A x \in DOMAIN tracking'[q].of :
                            tracking'[q].results[x] = resolution'[tracking'[q].of[x]]
    BY DEF AllOutcome, Fulfilled
  <2>1. tracking' = tracking /\ tracking[q] \in Tracking /\ TrackingSoundAt(q)
    BY <1>1 DEF ResolveStep, IInv, TypeOK, TrackingSound
  <2>2. resolution[q] = resolution'[q]
    <3> SUFFICES ASSUME resolution[q] # resolution'[q]
                 PROVE  FALSE
      OBVIOUS
    <3>1. resolution[q] = None /\ resolution'[q] = r
      BY <1>3, <1>4, <1>5
    <3>2. r.kind = "array" /\ r.x = q
      BY <3>1 DEF Ok
    <3> QED
      BY <3>1, <3>2 DEF ResolveStep
  <2>3. /\ Fulfilled(tracking[q].results)
        /\ \A x \in DOMAIN tracking[q].of :
              tracking[q].results[x] = resolution[tracking[q].of[x]]
    BY <2>1, <2>2 DEF IInv, AllOutcome
  <2>4. \A x \in DOMAIN tracking[q].of :
            tracking[q].results[x] # None /\ tracking[q].of[x] \in Promise
    BY <2>1, <2>3 DEF Fulfilled, Tracking, TrackingSoundAt
  <2> QED
    BY <1>7, <2>1, <2>3, <2>4
<1>15. \A q \in Promise : jobs'[q] > 0 => resolution'[q] # None
  BY <1>1, <1>3, <1>4, <1>5, <1>8 DEF IInv, JobSound, TypeOK
<1>16. ASSUME DeliveredOnce
       PROVE  DeliveredOnce'
  <2> SUFFICES ASSUME NEW q \in Promise
               PROVE  jobs'[q] + delivered'[q] = IF Scheduler /\ resolution'[q] # None THEN 1 ELSE 0
    BY DEF DeliveredOnce
  <2>1. jobs[q] + delivered[q] = IF Scheduler /\ resolution[q] # None THEN 1 ELSE 0
    BY <1>16 DEF DeliveredOnce
  <2>2. delivered'[q] = delivered[q] /\ jobs[q] \in Nat /\ delivered[q] \in Nat
    BY <1>1 DEF ResolveStep, TypeOK
  <2>3. CASE jobs'[q] = jobs[q] /\ (resolution'[q] = None <=> resolution[q] = None)
    BY <2>1, <2>2, <2>3
  <2>4. CASE /\ q = p /\ resolution[p] = None /\ resolution'[p] = r
             /\ jobs'[p] = IF Scheduler THEN jobs[p] + 1 ELSE jobs[p]
    BY <1>8, <2>1, <2>2, <2>4, SchedulerAssumption
  <2> QED
    BY <1>3, <1>4, <1>5, <2>3, <2>4
<1> QED
  BY <1>2, <1>7, <1>9, <1>10, <1>11, <1>12, <1>13, <1>14, <1>15, <1>16

-----------------------------------------------------------------------------
(***************************************************************************)
(* The other ways a step changes the state.                                *)
(***************************************************************************)
\* A sound sub is added to those of q.
LEMMA AppendSub ==
    ASSUME TypeOK, SubsSound, NEW q \in Promise, NEW s \in Sub,
           created \subseteq created', tracking' = tracking,
           SubSound(created', tracking, q, s),
           subs' = [subs EXCEPT ![q] = Append(@, s)]
    PROVE  /\ subs' \in [Promise -> Seq(Sub)] /\ SubsSound'
           /\ \A o \in Promise : Len(subs'[o]) >= Len(subs[o])
<1>1. subs \in [Promise -> Seq(Sub)] /\ subs[q] \in Seq(Sub)
  BY DEF TypeOK
<1>2. Append(subs[q], s) \in Seq(Sub) /\ Len(Append(subs[q], s)) = Len(subs[q]) + 1
      /\ \A i \in 1..Len(Append(subs[q], s)) :
            Append(subs[q], s)[i] = IF i \in 1..Len(subs[q]) THEN subs[q][i] ELSE s
  BY <1>1
<1>3. subs' \in [Promise -> Seq(Sub)]
  BY <1>1, <1>2
<1>4. \A o \in Promise : subs'[o] = IF o = q THEN Append(subs[q], s) ELSE subs[o]
  BY <1>1
<1>5. \A o \in Promise : Len(subs'[o]) >= Len(subs[o])
  <2> TAKE o \in Promise
  <2>1. subs[o] \in Seq(Sub)
    BY <1>1
  <2> QED
    BY <1>2, <1>4, <2>1
<1>6. SubsSound'
  <2>1. \A o \in Promise : \A u \in Sub :
            SubSound(created, tracking, o, u) => SubSound(created', tracking', o, u)
    BY DEF SubSound
  <2> SUFFICES ASSUME NEW o \in Promise, NEW i \in 1..Len(subs'[o])
               PROVE  SubSound(created', tracking', o, subs'[o][i])
    BY DEF SubsSound
  <2>2. subs[o] \in Seq(Sub)
    BY <1>1
  <2>3. i \in 1..Len(subs[o]) => SubSound(created', tracking', o, subs[o][i])
    BY <2>1, <2>2 DEF SubsSound
  <2> QED
    BY <1>2, <1>4, <2>3
<1> QED
  BY <1>3, <1>5, <1>6

\* Only the record of the running job changes.
LEMMA JobStep ==
    ASSUME IInv, job' \in Job, JobSound', ArrayReturned',
           UNCHANGED <<created, resolution, subs, tracking, jobs, delivered, building, panicked>>
    PROVE  IInv' /\ (DeliveredOnce => DeliveredOnce')
<1>1. TypeOK'
  BY DEF IInv, TypeOK
<1>2. Fresh' /\ SubsSound' /\ BuildingSound' /\ ArrayStored' /\ AllOutcome' /\ NoPanic'
  BY DEF IInv, Fresh, SubsSound, BuildingSound, ArrayStored, AllOutcome, NoPanic
<1>3. TrackingSound'
  BY DEF IInv, TrackingSound, TrackingSoundAt
<1>4. DeliveredOnce => DeliveredOnce'
  BY DEF DeliveredOnce
<1> QED
  BY <1>1, <1>2, <1>3, <1>4 DEF IInv

\* A promise is settled by script or by the result of a handler.
LEMMA ResolveAndJob ==
    ASSUME IInv, NEW p \in Promise, NEW r \in Result, ResolveStep(p, r),
           job' \in Job, UNCHANGED <<building, panicked>>,
           \/ job' = job
           \/ job'.pc = "loop" /\ job'.p = job.p /\ job'.i = job.i + 1 /\ job'.n = job.n
              /\ job.pc = "settle"
    PROVE  IInv' /\ (DeliveredOnce => DeliveredOnce')
<1>1. /\ resolution' \in [Promise -> Result \cup {None}]
      /\ subs' \in [Promise -> Seq(Sub)]
      /\ jobs' \in [Promise -> Nat]
      /\ \A q \in Promise : /\ resolution[q] # None => resolution'[q] = resolution[q]
                            /\ Len(subs'[q]) >= Len(subs[q])
      /\ Fresh' /\ SubsSound' /\ TrackingSound' /\ AllOutcome'
      /\ \A q \in Promise : jobs'[q] > 0 => resolution'[q] # None
      /\ ArrayStored'
      /\ DeliveredOnce => DeliveredOnce'
  BY ResolveStepSound
<1>2. TypeOK'
  BY <1>1 DEF IInv, TypeOK, ResolveStep
<1>3. JobSound'
  <2>1. job \in Job /\ JobSound
    BY DEF IInv, TypeOK
  <2>2. job.pc # "idle" => Len(subs[job.p]) \in Nat /\ Len(subs'[job.p]) \in Nat
    BY <1>1, <2>1 DEF IInv, TypeOK, JobSound
  <2>3. job.i \in Nat /\ job.n \in Nat
    BY <2>1 DEF Job
  <2>4. CASE job' = job
    BY <1>1, <2>1, <2>2, <2>3, <2>4 DEF JobSound
  <2>5. CASE job'.pc = "loop" /\ job'.p = job.p /\ job'.i = job.i + 1 /\ job'.n = job.n
              /\ job.pc = "settle"
    BY <1>1, <2>1, <2>2, <2>3, <2>5 DEF JobSound
  <2> QED
    BY <2>4, <2>5
<1>4. BuildingSound' /\ NoPanic'
  BY DEF ResolveStep, IInv, BuildingSound, NoPanic
<1>5. ArrayReturned'
  BY <1>1 DEF IInv, ArrayReturned
<1> QED
  BY <1>1, <1>2, <1>3, <1>4, <1>5 DEF IInv

-----------------------------------------------------------------------------
(***************************************************************************)
(* Script.                                                                 *)
(***************************************************************************)
LEMMA AnythingResult ==
    ASSUME TypeOK, NEW r \in Anything
    PROVE  r \in Result /\ r.kind # "array"
<1>1. created \subseteq Promise
  BY DEF TypeOK
<1>2. CASE r \in [ok: BOOLEAN, kind: {"value"}, x: Value]
  BY <1>2 DEF Result, ValueKind
<1>3. CASE r \in [ok: BOOLEAN, kind: {"promise"}, x: IF Chaining THEN created ELSE {}]
  BY <1>1, <1>3 DEF Result, ValueKind
<1> QED
  BY <1>2, <1>3 DEF Anything

LEMMA NewStep ==
    ASSUME IInv, NEW p \in Promise, New(p)
    PROVE  IInv' /\ (DeliveredOnce => DeliveredOnce')
<1>1. /\ created' = created \cup {p}
      /\ UNCHANGED <<resolution, subs, tracking, jobs, delivered, job, building, panicked>>
  BY DEF New
<1>2. TypeOK'
  BY <1>1 DEF IInv, TypeOK
<1>3. Fresh' /\ JobSound' /\ BuildingSound' /\ ArrayStored' /\ ArrayReturned' /\ AllOutcome' /\ NoPanic'
  BY <1>1 DEF IInv, Fresh, JobSound, BuildingSound, ArrayStored, ArrayReturned, AllOutcome, NoPanic
<1>4. SubsSound'
  BY <1>1 DEF IInv, SubsSound, SubSound
<1>5. TrackingSound'
  BY <1>1 DEF IInv, TrackingSound, TrackingSoundAt
<1> QED
  BY <1>1, <1>2, <1>3, <1>4, <1>5 DEF IInv, DeliveredOnce

LEMMA SettleStep ==
    ASSUME IInv, NEW p \in Promise, NEW r \in Anything, Settle(p, r) \/ StaticSettle(p, r)
    PROVE  IInv' /\ (DeliveredOnce => DeliveredOnce')
<1>1. r \in Result /\ r.kind # "array"
  BY AnythingResult DEF IInv
<1>2. ResolveStep(p, r)
  BY <1>1 DEF IInv, TypeOK, Settle, StaticSettle, ResolveStep
<1>3. job' = job /\ building' = building /\ panicked' = panicked /\ job \in Job
  BY DEF Settle, StaticSettle, IInv, TypeOK
<1> QED
  BY <1>1, <1>2, <1>3, ResolveAndJob

\* A sub is added and nothing is settled.
LEMMA AddSub ==
    ASSUME IInv, NEW q \in Promise, NEW s \in Sub, NEW b \in Promise,
           created' = created \cup {b}, SubSound(created', tracking, q, s),
           subs' = [subs EXCEPT ![q] = Append(@, s)],
           building' \in {<<>>} \cup (Promise \X Nat), BuildingSound',
           UNCHANGED <<resolution, tracking, jobs, delivered, job, panicked>>
    PROVE  IInv' /\ (DeliveredOnce => DeliveredOnce')
<1>1. /\ subs' \in [Promise -> Seq(Sub)] /\ SubsSound'
      /\ \A o \in Promise : Len(subs'[o]) >= Len(subs[o])
  BY AppendSub DEF IInv
<1>2. TypeOK'
  BY <1>1 DEF IInv, TypeOK
<1>3. JobSound'
  <2>1. job.pc # "idle" => Len(subs[job.p]) \in Nat /\ Len(subs'[job.p]) \in Nat
                             /\ Len(subs'[job.p]) >= Len(subs[job.p])
    BY <1>1 DEF IInv, TypeOK, JobSound
  <2>2. job.i \in Nat /\ job.n \in Nat
    BY DEF IInv, TypeOK, Job
  <2> QED
    BY <2>1, <2>2 DEF IInv, JobSound
<1>4. Fresh' /\ ArrayStored' /\ ArrayReturned' /\ AllOutcome' /\ NoPanic'
  BY DEF IInv, Fresh, ArrayStored, ArrayReturned, AllOutcome, NoPanic
<1>5. TrackingSound'
  BY DEF IInv, TrackingSound, TrackingSoundAt
<1> QED
  BY <1>1, <1>2, <1>3, <1>4, <1>5 DEF IInv, DeliveredOnce

LEMMA ThenStep ==
    ASSUME IInv, NEW p \in Promise, NEW s \in Promise, NEW form \in Forms, Then(p, form, s)
    PROVE  IInv' /\ (DeliveredOnce => DeliveredOnce')
<1>1. SubOf(form, s) \in Sub
  BY DEF SubOf, Sub, Handler
<1>2. SubSound(created', tracking, p, SubOf(form, s))
  BY DEF SubSound, SubOf, Then
<1>3. /\ created' = created \cup {s}
      /\ subs' = [subs EXCEPT ![p] = Append(@, SubOf(form, s))]
      /\ UNCHANGED <<resolution, tracking, jobs, delivered, job, building, panicked>>
  BY DEF Then
<1>4. building' \in {<<>>} \cup (Promise \X Nat) /\ BuildingSound'
  BY <1>3 DEF IInv, TypeOK, BuildingSound
<1> QED
  BY <1>1, <1>2, <1>3, <1>4, AddSub

LEMMA TrackElementStep ==
    ASSUME IInv, NEW s \in Promise, TrackElement(s)
    PROVE  IInv' /\ (DeliveredOnce => DeliveredOnce')
<1> DEFINE p == building[1]
           x == building[2]
           q == tracking[p].of[x]
           u == [then |-> "none", catch |-> "none", finally |-> "track",
                 sub |-> s, track |-> building]
<1>1. building \in Promise \X Nat /\ tracking[p] # None /\ x >= 1 /\ x <= Len(tracking[p].of)
  BY DEF TrackElement, IInv, TypeOK, BuildingSound
<1>2. p \in Promise /\ x \in Nat /\ tracking[p] \in Tracking
  BY <1>1 DEF IInv, TypeOK
<1>3. q \in Promise
  BY <1>1, <1>2 DEF Tracking
<1>4. u \in Sub
  BY <1>1 DEF Sub, Handler
<1>5. /\ created' = created \cup {s}
      /\ subs' = [subs EXCEPT ![q] = Append(@, u)]
      /\ building' = <<p, x + 1>>
      /\ UNCHANGED <<resolution, tracking, jobs, delivered, job, panicked>>
  BY DEF TrackElement
<1>6. Len(tracking[p].of) \in Nat
  BY <1>2 DEF Tracking
<1>7. SubSound(created', tracking, q, u)
  BY <1>1, <1>2, <1>5, <1>6 DEF SubSound
<1>8. building' \in {<<>>} \cup (Promise \X Nat) /\ BuildingSound'
  BY <1>1, <1>2, <1>5 DEF BuildingSound
<1> HIDE DEF q, u
<1> QED
  BY <1>3, <1>4, <1>5, <1>7, <1>8, AddSub

LEMMA NewTrackingStep ==
    ASSUME IInv, NEW p \in Promise, NEW mode \in Modes, NEW arr \in Arrays,
           NewTracking(p, mode, arr)
    PROVE  IInv' /\ (DeliveredOnce => DeliveredOnce')
<1> DEFINE t == [mode |-> mode, of |-> arr, results |-> [x \in 1..Len(arr) |-> None]]
<1>1. PICK k \in 0..MaxTracked : arr \in [1..k -> created]
  BY DEF Arrays
<1>2. k \in Nat /\ arr \in Seq(Promise) /\ Len(arr) = k
  BY <1>1, BoundsAssumption DEF IInv, TypeOK
<1>3. t.results \in Seq(Result \cup {None}) /\ Len(t.results) = k
  BY <1>2
<1>4. t \in Tracking /\ t # None
  BY <1>2, <1>3, ModesAssumption, NoneAssumption DEF Tracking
<1>5. /\ created' = created \cup {p} /\ p \notin created
      /\ tracking' = [tracking EXCEPT ![p] = t]
      /\ building' = <<p, 1>>
      /\ UNCHANGED <<resolution, subs, jobs, delivered, job, panicked>>
  BY DEF NewTracking
<1>6. tracking[p] = None /\ resolution[p] = None
  BY <1>5 DEF IInv, Fresh
<1> HIDE DEF t
<1>7. TypeOK'
  BY <1>4, <1>5 DEF IInv, TypeOK
<1>8. /\ tracking'[p] = t
      /\ \A o \in Promise : o # p => tracking'[o] = tracking[o]
  BY <1>5 DEF IInv, TypeOK
<1>9. SubsSound'
  <2> SUFFICES ASSUME NEW o \in Promise, NEW i \in 1..Len(subs[o])
               PROVE  SubSound(created', tracking', o, subs[o][i])
    BY <1>5 DEF SubsSound
  <2>1. SubSound(created, tracking, o, subs[o][i])
    BY DEF IInv, SubsSound
  <2>2. subs[o][i] \in Sub
    BY DEF IInv, TypeOK
  <2>3. CASE subs[o][i].finally = "track"
    <3>1. subs[o][i].track \in Promise \X Nat /\ tracking[subs[o][i].track[1]] # None
      BY <2>1, <2>2, <2>3 DEF SubSound, Sub
    <3>2. tracking'[subs[o][i].track[1]] = tracking[subs[o][i].track[1]]
      BY <1>6, <1>8, <3>1
    <3> QED
      BY <1>5, <2>1, <3>2 DEF SubSound
  <2>4. CASE subs[o][i].finally # "track"
    BY <1>5, <2>1, <2>4 DEF SubSound
  <2> QED
    BY <2>3, <2>4
<1>10. TrackingSound'
  <2> SUFFICES ASSUME NEW o \in Promise, tracking'[o] # None
               PROVE  TrackingSoundAt(o)'
    BY DEF TrackingSound
  <2>1. CASE o = p
    BY <1>2, <1>3, <1>8, <2>1 DEF TrackingSoundAt, t
  <2>2. CASE o # p
    BY <1>5, <1>8, <2>2 DEF IInv, TrackingSound, TrackingSoundAt
  <2> QED
    BY <2>1, <2>2
<1>11. AllOutcome'
  <2> SUFFICES ASSUME NEW o \in Promise, tracking'[o] # None, resolution[o] = Ok("array", o)
               PROVE  /\ Fulfilled(tracking'[o].results)
                      /\ \A x \in DOMAIN tracking'[o].of :
                            tracking'[o].results[x] = resolution[tracking'[o].of[x]]
    BY <1>5 DEF AllOutcome, Fulfilled
  <2>1. o # p
    <3>1. Ok("array", o) # None
      <4>1. Ok("array", o) \in Result
        BY DEF Ok, Result, ValueKind
      <4> QED
        BY <4>1, NoneAssumption
    <3> QED
      BY <1>6, <3>1
  <2> QED
    BY <1>8, <2>1 DEF IInv, AllOutcome
<1>12. Fresh' /\ JobSound' /\ ArrayStored' /\ ArrayReturned' /\ NoPanic'
  BY <1>5, <1>8 DEF IInv, Fresh, JobSound, ArrayStored, ArrayReturned, NoPanic
<1>13. BuildingSound'
  BY <1>4, <1>5, <1>8 DEF BuildingSound
<1> QED
  BY <1>5, <1>7, <1>9, <1>10, <1>11, <1>12, <1>13 DEF IInv, DeliveredOnce

LEMMA TrackDoneStep ==
    ASSUME IInv, TrackDone
    PROVE  IInv' /\ (DeliveredOnce => DeliveredOnce')
<1>1. /\ building' = <<>>
      /\ UNCHANGED <<created, resolution, subs, tracking, jobs, delivered, job, panicked>>
  BY DEF TrackDone
<1>2. TypeOK' /\ BuildingSound'
  BY <1>1 DEF IInv, TypeOK, BuildingSound
<1>3. Fresh' /\ JobSound' /\ SubsSound' /\ ArrayStored' /\ ArrayReturned' /\ AllOutcome' /\ NoPanic'
  BY <1>1 DEF IInv, Fresh, JobSound, SubsSound, ArrayStored, ArrayReturned, AllOutcome, NoPanic
<1>4. TrackingSound'
  BY <1>1 DEF IInv, TrackingSound, TrackingSoundAt
<1> QED
  BY <1>1, <1>2, <1>3, <1>4 DEF IInv, DeliveredOnce

-----------------------------------------------------------------------------
(***************************************************************************)
(* Jobs.                                                                   *)
(***************************************************************************)
LEMMA StartJobStep ==
    ASSUME IInv, NEW p \in Promise, StartJob(p)
    PROVE  IInv' /\ (DeliveredOnce => DeliveredOnce')
<1>1. /\ job' = [Idle EXCEPT !.pc = "loop", !.p = p, !.n = Len(subs[p])]
      /\ jobs[p] > 0
      /\ jobs' = [jobs EXCEPT ![p] = @ - 1]
      /\ delivered' = [delivered EXCEPT ![p] = @ + 1]
      /\ UNCHANGED <<created, resolution, subs, tracking, building, panicked>>
  BY DEF StartJob
<1>2. /\ jobs \in [Promise -> Nat] /\ delivered \in [Promise -> Nat]
      /\ subs[p] \in Seq(Sub) /\ Len(subs[p]) \in Nat
  BY DEF IInv, TypeOK
<1>3. job' = [pc |-> "loop", p |-> p, phase |-> "main", i |-> 1, n |-> Len(subs[p]), ret |-> None]
  BY <1>1 DEF Idle
<1>4. job' \in Job
  BY <1>2, <1>3 DEF Job
<1>5. jobs' \in [Promise -> Nat] /\ delivered' \in [Promise -> Nat]
      /\ \A q \in Promise : /\ jobs'[q] + delivered'[q] = jobs[q] + delivered[q]
                            /\ jobs'[q] > 0 => jobs[q] > 0
  <2>1. jobs[p] - 1 \in Nat /\ delivered[p] + 1 \in Nat
    BY <1>1, <1>2
  <2>2. jobs' \in [Promise -> Nat] /\ delivered' \in [Promise -> Nat]
    BY <1>1, <1>2, <2>1
  <2>3. \A q \in Promise : /\ jobs'[q] = IF q = p THEN jobs[p] - 1 ELSE jobs[q]
                           /\ delivered'[q] = IF q = p THEN delivered[p] + 1 ELSE delivered[q]
    BY <1>1, <1>2
  <2>4. \A q \in Promise : /\ jobs'[q] + delivered'[q] = jobs[q] + delivered[q]
                           /\ jobs'[q] > 0 => jobs[q] > 0
    <3> TAKE q \in Promise
    <3>1. jobs[q] \in Nat /\ delivered[q] \in Nat
      BY <1>2
    <3>2. CASE q = p
      <4>1. jobs'[q] = jobs[q] - 1 /\ delivered'[q] = delivered[q] + 1 /\ jobs[q] > 0
        BY <1>1, <2>3, <3>2
      <4> QED
        BY <3>1, <4>1
    <3>3. CASE q # p
      BY <2>3, <3>3
    <3> QED
      BY <3>2, <3>3
  <2> QED
    BY <2>2, <2>4
<1>6. TypeOK'
  BY <1>1, <1>4, <1>5 DEF IInv, TypeOK
<1>7. JobSound'
  <2>1. \A q \in Promise : jobs'[q] > 0 => resolution'[q] # None
    BY <1>1, <1>5 DEF IInv, JobSound
  <2>2. resolution'[p] # None /\ subs' = subs
    BY <1>1 DEF IInv, JobSound
  <2>3. /\ job'.pc = "loop" /\ job'.p = p /\ job'.i = 1 /\ job'.n = Len(subs[p])
    BY <1>3
  <2> QED
    BY <1>2, <2>1, <2>2, <2>3 DEF JobSound
<1>8. Fresh' /\ SubsSound' /\ BuildingSound' /\ ArrayStored' /\ ArrayReturned' /\ AllOutcome' /\ NoPanic'
  BY <1>1, <1>3 DEF IInv, Fresh, SubsSound, BuildingSound, ArrayStored, ArrayReturned, AllOutcome, NoPanic
<1>9. TrackingSound'
  BY <1>1 DEF IInv, TrackingSound, TrackingSoundAt
<1>10. DeliveredOnce => DeliveredOnce'
  BY <1>1, <1>5 DEF DeliveredOnce
<1> QED
  BY <1>6, <1>7, <1>8, <1>9, <1>10 DEF IInv

\* The sub a job is at.
LEMMA CurrentSubFacts ==
    ASSUME IInv, job.pc # "idle", job.i <= job.n
    PROVE  /\ job.p \in Promise /\ resolution[job.p] \in Result
           /\ CurrentSub \in Sub /\ SubSound(created, tracking, job.p, CurrentSub)
<1>1. job.p \in Promise /\ resolution[job.p] # None /\ job.i >= 1 /\ job.n <= Len(subs[job.p])
      /\ job.i \in Nat /\ job.n \in Nat
  BY DEF IInv, JobSound, TypeOK, Job
<1>2. subs[job.p] \in Seq(Sub) /\ resolution[job.p] \in Result
  BY <1>1 DEF IInv, TypeOK
<1>3. job.i \in 1..Len(subs[job.p])
  BY <1>1, <1>2
<1> QED
  BY <1>1, <1>2, <1>3 DEF CurrentSub, IInv, SubsSound

LEMMA LoopSteps ==
    ASSUME IInv, SkipSub \/ CallHandler \/ PassVal \/ EndMain \/ EndJob
    PROVE  IInv' /\ (DeliveredOnce => DeliveredOnce')
<1>1. UNCHANGED <<created, resolution, subs, tracking, jobs, delivered, building, panicked>>
  BY DEF SkipSub, CallHandler, PassVal, EndMain, EndJob
<1>2. job \in Job /\ job.i \in Nat /\ job.n \in Nat
  BY DEF IInv, TypeOK, Job
<1>3. CASE SkipSub
  <2>1. job' = [job EXCEPT !.i = @ + 1] /\ job.pc = "loop"
    BY <1>3 DEF SkipSub, AtSub
  <2>2. job' \in Job
    BY <1>2, <2>1 DEF Job
  <2>3. JobSound' /\ ArrayReturned'
    BY <1>1, <1>2, <2>1 DEF IInv, JobSound, ArrayReturned, Job
  <2> QED
    BY <1>1, <2>2, <2>3, JobStep
<1>4. CASE CallHandler
  <2>1. job' = [job EXCEPT !.pc = "user"] /\ job.pc = "loop" /\ job.i <= job.n
    BY <1>4 DEF CallHandler, AtSub
  <2>2. job' \in Job
    BY <1>2, <2>1 DEF Job
  <2>3. JobSound' /\ ArrayReturned'
    BY <1>1, <1>2, <2>1 DEF IInv, JobSound, ArrayReturned, Job
  <2> QED
    BY <1>1, <2>2, <2>3, JobStep
<1>5. CASE PassVal
  <2> DEFINE v == [resolution[job.p] EXCEPT !.ok = TRUE]
  <2>1. job' = [job EXCEPT !.pc = "settle", !.ret = v] /\ job.pc = "loop" /\ job.i <= job.n
    BY <1>5 DEF PassVal, AtSub
  <2>2. job.p \in Promise /\ resolution[job.p] \in Result
    BY <2>1, CurrentSubFacts
  <2>3. v \in Result /\ v.kind = resolution[job.p].kind /\ v.x = resolution[job.p].x
    BY <2>2 DEF Result
  <2> HIDE DEF v
  <2>4. job' \in Job /\ job'.pc = "settle" /\ job'.ret = v
    BY <1>2, <2>1, <2>3 DEF Job
  <2>5. JobSound'
    BY <1>1, <1>2, <2>1, <2>3 DEF IInv, JobSound, Job
  <2>6. ArrayReturned'
    BY <1>1, <2>2, <2>3, <2>4, NoneAssumption DEF IInv, ArrayReturned, ArrayStored
  <2> QED
    BY <1>1, <2>4, <2>5, <2>6, JobStep
<1>6. CASE EndMain
  <2>1. job' = [job EXCEPT !.phase = "finally", !.i = 1, !.n = Len(subs[job.p])] /\ job.pc = "loop"
    BY <1>6 DEF EndMain
  <2>2. job.p \in Promise /\ Len(subs[job.p]) \in Nat
    BY <2>1 DEF IInv, JobSound, TypeOK
  <2>3. job' \in Job
    BY <1>2, <2>1, <2>2 DEF Job
  <2>4. JobSound' /\ ArrayReturned'
    BY <1>1, <1>2, <2>1, <2>2 DEF IInv, JobSound, ArrayReturned, Job
  <2> QED
    BY <1>1, <2>3, <2>4, JobStep
<1>7. CASE EndJob
  <2>1. job' = Idle
    BY <1>7 DEF EndJob
  <2>2. job' \in Job
    BY <2>1 DEF Job, Idle
  <2>3. JobSound' /\ ArrayReturned'
    BY <1>1, <2>1 DEF IInv, JobSound, ArrayReturned, Idle
  <2> QED
    BY <1>1, <2>2, <2>3, JobStep
<1> QED
  BY <1>3, <1>4, <1>5, <1>6, <1>7

LEMMA ReturnHandlerStep ==
    ASSUME IInv, NEW r \in Anything, ReturnHandler(r)
    PROVE  IInv' /\ (DeliveredOnce => DeliveredOnce')
<1>1. r \in Result /\ r.kind # "array"
  BY AnythingResult DEF IInv
<1>2. /\ job' = [job EXCEPT !.pc = "settle", !.ret = r] /\ job.pc = "user"
      /\ UNCHANGED <<created, resolution, subs, tracking, jobs, delivered, building, panicked>>
  BY DEF ReturnHandler
<1>3. job \in Job
  BY DEF IInv, TypeOK
<1>4. job' \in Job
  BY <1>1, <1>2, <1>3 DEF Job
<1>5. JobSound' /\ ArrayReturned'
  BY <1>1, <1>2, <1>3 DEF IInv, JobSound, ArrayReturned, Job
<1> QED
  BY <1>2, <1>4, <1>5, JobStep

LEMMA SettleSubStep ==
    ASSUME IInv, SettleSub
    PROVE  IInv' /\ (DeliveredOnce => DeliveredOnce')
<1>1. /\ DoResolve(CurrentSub.sub, job.ret) /\ job.pc = "settle"
      /\ job' = [job EXCEPT !.pc = "loop", !.i = @ + 1, !.ret = None]
      /\ UNCHANGED <<created, tracking, delivered, building, panicked>>
  BY DEF SettleSub
<1>2. job.i <= job.n /\ job.ret \in Result
  BY <1>1 DEF IInv, JobSound
<1>3. CurrentSub.sub \in created
  BY <1>1, <1>2, CurrentSubFacts DEF SubSound
<1>4. ResolveStep(CurrentSub.sub, job.ret)
  BY <1>1, <1>3 DEF ResolveStep, IInv, TypeOK, ArrayReturned
<1>5. job \in Job /\ created \in SUBSET Promise
  BY DEF IInv, TypeOK
<1>6. job' \in Job /\ job'.pc = "loop" /\ job'.p = job.p /\ job'.i = job.i + 1 /\ job'.n = job.n
  <2>1. job.i \in Nat /\ job.i + 1 \in Nat
    BY <1>5 DEF Job
  <2>2. job'.pc = "loop" /\ job'.p = job.p /\ job'.i = job.i + 1 /\ job'.n = job.n
    BY <1>1, <1>5 DEF Job
  <2>3. job' \in Job
    BY <1>1, <1>5, <2>1 DEF Job
  <2> QED
    BY <2>2, <2>3
<1> QED
  BY <1>1, <1>2, <1>3, <1>4, <1>5, <1>6, ResolveAndJob

\* finally_track: the element is settled, and while Promise.all is pending every
\* recorded result is a fulfilment, so no unwrap fails.
LEMMA TrackResultStep ==
    ASSUME IInv, TrackResult
    PROVE  IInv' /\ (DeliveredOnce => DeliveredOnce')
<1> DEFINE o == CurrentSub.track[1]
           x == CurrentSub.track[2]
           r == resolution[tracking[o].of[x]]
           results == [tracking[o].results EXCEPT ![x] = r]
           open == resolution[o] = None
<1>1. job.pc = "loop" /\ job.i <= job.n /\ CurrentHandler = "track" /\ TrackWhen(open)
  BY DEF TrackResult, AtSub
<1>2. /\ job.p \in Promise /\ resolution[job.p] \in Result
      /\ CurrentSub \in Sub /\ SubSound(created, tracking, job.p, CurrentSub)
  BY <1>1, CurrentSubFacts
<1>3. CurrentSub.finally = "track"
  BY <1>1, <1>2 DEF CurrentHandler, SubSound
<1>4. /\ CurrentSub.track # <<>> /\ tracking[o] # None /\ x \in 1..Len(tracking[o].of)
      /\ tracking[o].of[x] = job.p
  BY <1>2, <1>3 DEF SubSound
<1>5. o \in Promise /\ tracking[o] \in Tracking /\ tracking \in [Promise -> Tracking \cup {None}]
  BY <1>2, <1>4 DEF Sub, IInv, TypeOK
<1>6. r = resolution[job.p] /\ r \in Result /\ r # None
  BY <1>2, <1>4, NoneAssumption
<1>7. TrackingSoundAt(o)
  BY <1>4, <1>5 DEF IInv, TrackingSound
<1>8. /\ tracking[o].results \in Seq(Result \cup {None})
      /\ tracking[o].of \in Seq(Promise)
      /\ Len(tracking[o].results) = Len(tracking[o].of)
  BY <1>5, <1>7 DEF Tracking, TrackingSoundAt
<1>9. /\ results \in Seq(Result \cup {None}) /\ Len(results) = Len(tracking[o].of)
      /\ \A y \in 1..Len(tracking[o].of) :
            results[y] = IF y = x THEN r ELSE tracking[o].results[y]
      /\ DOMAIN results = 1..Len(tracking[o].of)
  BY <1>4, <1>6, <1>8
<1>10. \A y \in 1..Len(tracking[o].of) :
          results[y] # None => results[y] = resolution[tracking[o].of[y]]
  BY <1>4, <1>7, <1>9 DEF TrackingSoundAt
<1>11. open /\ tracking[o].mode = "All" /\ r.ok =>
          \A y \in 1..Len(tracking[o].of) : results[y] # None => results[y].ok
  BY <1>7, <1>9 DEF TrackingSoundAt
<1>12. ~(open /\ FillPanics(o, results, r))
  BY <1>9, <1>11 DEF FillPanics, Fulfilled
<1>13. panicked' = FALSE
  BY <1>1, <1>6, <1>12 DEF TrackWhen
<1>14. /\ job' = [job EXCEPT !.pc = "settle", !.ret = Ok("value", Null)]
       /\ UNCHANGED <<created, delivered, building>>
  BY <1>1 DEF TrackWhen
<1>15. Ok("value", Null) \in Result
  BY NullAssumption DEF Ok, Result, ValueKind
<1>16. /\ job' \in Job /\ job'.pc = "settle" /\ job'.ret = Ok("value", Null)
       /\ job'.p = job.p /\ job'.i = job.i /\ job'.n = job.n
  BY <1>14, <1>15 DEF IInv, TypeOK, Job
<1>17. ArrayReturned'
  BY <1>16 DEF ArrayReturned, Ok
<1>18. CASE ~open
  <2>1. UNCHANGED <<resolution, subs, tracking, jobs>>
    BY <1>1, <1>18 DEF TrackWhen
  <2>2. panicked' = panicked
    BY <1>13 DEF IInv, NoPanic, TypeOK
  <2>3. JobSound'
    BY <1>1, <1>15, <1>16, <2>1 DEF IInv, JobSound
  <2> QED
    BY <1>14, <1>16, <1>17, <2>1, <2>2, <2>3, JobStep
<1>19. CASE open
  <2>1. /\ tracking' = [tracking EXCEPT ![o].results = results]
        /\ Followup(o, results, r)
    BY <1>1, <1>13, <1>19 DEF TrackWhen
  <2> HIDE DEF o, x, r, results, open
  <2>2. \/ UNCHANGED <<resolution, subs, jobs>> /\ (tracking[o].mode = "All" => r.ok)
        \/ DoResolve(o, r)
        \/ /\ DoResolve(o, Ok("array", o)) /\ tracking[o].mode = "All" /\ r.ok
           /\ \A y \in DOMAIN results : results[y] # None
    BY <2>1 DEF Followup
  <2>3. resolution[o] = None /\ TypeOK /\ Ok("array", o) \in Result
    BY <1>5, <1>19 DEF open, IInv, Ok, Result, ValueKind
  <2>4. /\ resolution' \in [Promise -> Result \cup {None}]
        /\ subs' \in [Promise -> Seq(Sub)]
        /\ jobs' \in [Promise -> Nat]
        /\ \A q \in Promise : q # o => resolution'[q] = resolution[q] /\ jobs'[q] = jobs[q]
        /\ \A q \in Promise : \/ subs'[q] = subs[q]
                              \/ subs'[q] = Append(subs[q], PassValSub(o))
    BY <1>5, <1>6, <2>2, <2>3, DoResolveEffect DEF TypeOK
  <2>5. \/ resolution'[o] = None /\ jobs'[o] = jobs[o]
        \/ /\ jobs'[o] = IF Scheduler THEN jobs[o] + 1 ELSE jobs[o]
           /\ \/ resolution'[o] = r
              \/ /\ resolution'[o] = Ok("array", o) /\ tracking[o].mode = "All" /\ r.ok
                 /\ \A y \in DOMAIN results : results[y] # None
    BY <1>5, <1>6, <2>2, <2>3, DoResolveEffect
  <2>6. tracking[o].mode = "All" /\ ~r.ok => resolution'[o] = r
    BY <1>5, <1>6, <2>2, <2>3, DoResolveEffect
  <2>7. \A q \in Promise : resolution[q] # None => resolution'[q] = resolution[q]
    BY <2>3, <2>4
  <2>8. /\ \A q \in Promise : q # o => tracking'[q] = tracking[q]
        /\ tracking'[o] = [tracking[o] EXCEPT !.results = results]
    BY <1>5, <2>1
  <2>9. /\ tracking'[o].mode = tracking[o].mode /\ tracking'[o].of = tracking[o].of
        /\ tracking'[o].results = results /\ tracking'[o] \in Tracking /\ tracking'[o] # None
    <3>1. PICK t \in Tracking : t = tracking[o]
      BY <1>5
    <3>2. LET u == [t EXCEPT !.results = results]
          IN  u.mode = t.mode /\ u.of = t.of /\ u.results = results /\ u \in Tracking
      BY ONLY <1>9, <3>1 DEF Tracking
    <3> QED
      BY ONLY <2>8, <3>1, <3>2, NoneAssumption, Zenon
  <2>10. tracking' \in [Promise -> Tracking \cup {None}]
    <3>1. tracking \in [Promise -> Tracking \cup {None}]
      BY <2>3 DEF TypeOK
    <3> QED
      BY ONLY <1>5, <2>1, <2>9, <3>1
  <2>11. TypeOK'
    BY <1>13, <1>14, <1>16, <2>4, <2>10 DEF IInv, TypeOK
  <2>12. o \in created
    BY <1>4, <1>5 DEF IInv, Fresh, o
  <2>13. Fresh'
    BY <1>14, <2>4, <2>8, <2>12 DEF IInv, Fresh
  <2>14. \A q \in Promise : Len(subs'[q]) >= Len(subs[q]) /\ Len(subs[q]) \in Nat
                            /\ Len(subs'[q]) \in Nat
    <3> TAKE q \in Promise
    <3>1. subs[q] \in Seq(Sub)
      BY DEF IInv, TypeOK
    <3> QED
      BY <3>1, <2>4
  <2>15. JobSound'
    <3>1. \A q \in Promise : jobs'[q] > 0 => resolution'[q] # None
      <4> SUFFICES ASSUME NEW q \in Promise, jobs'[q] > 0
                   PROVE  resolution'[q] # None
        OBVIOUS
      <4>1. jobs[q] > 0 => resolution[q] # None
        BY DEF IInv, JobSound
      <4>2. Ok("array", o) # None
        BY <2>3, NoneAssumption
      <4> QED
        BY <1>6, <2>3, <2>4, <2>5, <2>7, <4>1, <4>2
    <3>2. job.i >= 1 /\ job.n <= Len(subs[job.p]) /\ resolution[job.p] # None
      BY <1>1 DEF IInv, JobSound
    <3>3. job.n \in Nat /\ job.n <= Len(subs'[job.p]) /\ resolution'[job.p] # None
      BY <1>2, <2>7, <2>14, <3>2 DEF IInv, TypeOK, Job
    <3> QED
      BY <1>1, <1>2, <1>15, <1>16, <3>1, <3>2, <3>3 DEF JobSound
  <2>16. SubsSound'
    <3>1. \A q \in Promise : \A s \in Sub :
              SubSound(created, tracking, q, s) => SubSound(created', tracking', q, s)
      <4> SUFFICES ASSUME NEW q \in Promise, NEW s \in Sub, SubSound(created, tracking, q, s)
                   PROVE  SubSound(created', tracking', q, s)
        OBVIOUS
      <4>1. CASE s.finally = "track"
        <5>1. s.track[1] \in Promise
          BY <4>1 DEF SubSound, Sub
        <5>2. tracking'[s.track[1]] # None /\ tracking'[s.track[1]].of = tracking[s.track[1]].of
          BY <4>1, <5>1, <2>8, <2>9 DEF SubSound
        <5> QED
          BY <1>14, <4>1, <5>2 DEF SubSound
      <4>2. CASE s.finally # "track"
        BY <1>14, <4>2 DEF SubSound
      <4> QED
        BY <4>1, <4>2
    <3>2. PassValSub(o) \in Sub
      BY <1>5 DEF PassValSub, Sub, Handler
    <3>3. \A q \in Promise : SubSound(created', tracking', q, PassValSub(o))
      BY <1>14, <2>12 DEF SubSound, PassValSub
    <3> SUFFICES ASSUME NEW q \in Promise, NEW i \in 1..Len(subs'[q])
                 PROVE  SubSound(created', tracking', q, subs'[q][i])
      BY DEF SubsSound
    <3>4. subs[q] \in Seq(Sub)
      BY <2>3 DEF TypeOK
    <3>5. i \in 1..Len(subs[q]) => SubSound(created', tracking', q, subs[q][i])
      BY <3>1, <3>4 DEF IInv, SubsSound
    <3>6. CASE subs'[q] = subs[q]
      BY <3>5, <3>6
    <3>7. CASE subs'[q] = Append(subs[q], PassValSub(o))
      <4>1. subs'[q][i] = IF i \in 1..Len(subs[q]) THEN subs[q][i] ELSE PassValSub(o)
        BY <3>2, <3>4, <3>7
      <4> QED
        BY <3>3, <3>5, <4>1
    <3> QED
      BY <2>4, <3>6, <3>7
  <2>17. BuildingSound' /\ NoPanic'
    <3>1. \A q \in Promise : tracking[q] # None => tracking'[q] # None
      BY <2>8, <2>9
    <3> QED
      BY <1>13, <1>14, <3>1 DEF IInv, TypeOK, BuildingSound, NoPanic
  <2>18. TrackingSound'
    <3> SUFFICES ASSUME NEW q \in Promise, tracking'[q] # None
                 PROVE  TrackingSoundAt(q)'
      BY DEF TrackingSound
    <3>1. CASE q # o
      <4>1. tracking'[q] = tracking[q] /\ TrackingSoundAt(q) /\ tracking[q] \in Tracking
        BY <2>3, <2>8, <3>1 DEF IInv, TrackingSound, TypeOK
      <4>2. \A y \in 1..Len(tracking[q].of) : tracking[q].of[y] \in Promise
        BY <4>1 DEF Tracking
      <4>3. resolution'[q] = resolution[q]
        BY <2>4, <3>1
      <4>4. ASSUME NEW y \in 1..Len(tracking[q].of), tracking[q].results[y] # None
            PROVE  /\ tracking[q].results[y] = resolution'[tracking[q].of[y]]
                   /\ tracking[q].mode = "All" /\ resolution'[q] = None => tracking[q].results[y].ok
        <5>1. /\ tracking[q].results[y] = resolution[tracking[q].of[y]]
              /\ tracking[q].mode = "All" /\ resolution[q] = None => tracking[q].results[y].ok
          BY <4>1, <4>4 DEF TrackingSoundAt
        <5>2. resolution'[tracking[q].of[y]] = resolution[tracking[q].of[y]]
          BY <2>7, <4>2, <4>4, <5>1, Zenon
        <5> QED
          BY <4>3, <5>1, <5>2, Zenon
      <4> QED
        BY <4>1, <4>4, Zenon DEF TrackingSoundAt
    <3>2. CASE q = o
      <4>1. \A y \in 1..Len(tracking[o].of) : tracking[o].of[y] \in Promise
        BY <1>8
      <4>2. \A y \in 1..Len(tracking[o].of) :
                results[y] # None => results[y] = resolution'[tracking[o].of[y]]
        BY <1>10, <2>7, <4>1 DEF results, o, r, x
      <4>3. tracking[o].mode = "All" /\ resolution'[o] = None => r.ok
        BY <1>6, <2>6
      <4>4. tracking[o].mode = "All" /\ resolution'[o] = None =>
              \A y \in 1..Len(tracking[o].of) : results[y] # None => results[y].ok
        BY <1>11, <1>19, <4>3
      <4> QED
        BY <1>9, <2>9, <3>2, <4>2, <4>4 DEF TrackingSoundAt
    <3> QED
      BY <3>1, <3>2
  <2>19. ArrayStored'
    <3> SUFFICES ASSUME NEW p \in Promise, NEW q \in Promise,
                        resolution'[q] # None, resolution'[q].kind = "array", resolution'[q].x = p
                 PROVE  resolution'[p] # None
      BY DEF ArrayStored
    <3>1. CASE resolution'[q] = resolution[q]
      BY <2>7, <3>1 DEF IInv, ArrayStored
    <3>2. CASE resolution'[q] # resolution[q] /\ resolution'[q] = r
      BY <1>2, <1>6, <2>7, <3>2 DEF IInv, ArrayStored
    <3>3. CASE q = o /\ resolution'[q] = Ok("array", o)
      BY <3>3 DEF Ok
    <3> QED
      BY <2>3, <2>4, <2>5, <3>1, <3>2, <3>3
  <2>20. AllOutcome'
    <3> SUFFICES ASSUME NEW q \in Promise, tracking'[q] # None, resolution'[q] = Ok("array", q)
                 PROVE  /\ Fulfilled(tracking'[q].results)
                        /\ \A y \in DOMAIN tracking'[q].of :
                              tracking'[q].results[y] = resolution'[tracking'[q].of[y]]
      BY DEF AllOutcome, Fulfilled
    <3>1. CASE q # o
      <4>1. tracking'[q] = tracking[q] /\ resolution[q] = Ok("array", q)
            /\ tracking[q] \in Tracking /\ TrackingSoundAt(q)
        BY <2>3, <2>4, <2>8, <3>1 DEF IInv, TrackingSound, TypeOK
      <4>2. /\ Fulfilled(tracking[q].results)
            /\ \A y \in DOMAIN tracking[q].of :
                  tracking[q].results[y] = resolution[tracking[q].of[y]]
        BY <4>1 DEF IInv, AllOutcome
      <4>3. \A y \in DOMAIN tracking[q].of :
                tracking[q].results[y] # None /\ tracking[q].of[y] \in Promise
        BY <4>1, <4>2 DEF Fulfilled, Tracking, TrackingSoundAt
      <4> QED
        BY <2>7, <4>1, <4>2, <4>3
    <3>2. CASE q = o
      <4>1. resolution'[o] # r
        <5> SUFFICES ASSUME resolution'[o] = r
                     PROVE  FALSE
          OBVIOUS
        <5>1. r.kind = "array" /\ r.x = o
          BY <3>2 DEF Ok
        <5> QED
          BY <1>2, <1>5, <1>6, <2>3, <5>1 DEF IInv, ArrayStored
      <4>2. resolution'[o] # None
        BY <2>3, <3>2, NoneAssumption
      <4>3. tracking[o].mode = "All" /\ r.ok /\ \A y \in DOMAIN results : results[y] # None
        BY <2>5, <4>1, <4>2
      <4>4. Fulfilled(results)
        BY <1>9, <1>11, <1>19, <4>3 DEF Fulfilled
      <4>5. DOMAIN tracking[o].of = 1..Len(tracking[o].of)
            /\ \A y \in 1..Len(tracking[o].of) : tracking[o].of[y] \in Promise
        BY <1>8
      <4>6. \A y \in 1..Len(tracking[o].of) : results[y] = resolution'[tracking[o].of[y]]
        BY <1>9, <1>10, <2>7, <4>3, <4>5
      <4> QED
        BY <2>9, <3>2, <4>4, <4>5, <4>6
    <3> QED
      BY <3>1, <3>2
  <2>21. ASSUME DeliveredOnce
         PROVE  DeliveredOnce'
    <3> SUFFICES ASSUME NEW q \in Promise
                 PROVE  jobs'[q] + delivered'[q] = IF Scheduler /\ resolution'[q] # None THEN 1 ELSE 0
      BY DEF DeliveredOnce
    <3>1. jobs[q] + delivered[q] = IF Scheduler /\ resolution[q] # None THEN 1 ELSE 0
      BY <2>21 DEF DeliveredOnce
    <3>2. delivered'[q] = delivered[q] /\ jobs[q] \in Nat /\ delivered[q] \in Nat
      BY <1>14, <2>3 DEF TypeOK
    <3>3. CASE jobs'[q] = jobs[q] /\ (resolution'[q] = None <=> resolution[q] = None)
      BY <3>1, <3>2, <3>3
    <3>4. CASE /\ q = o /\ resolution[o] = None /\ resolution'[o] # None
               /\ jobs'[o] = IF Scheduler THEN jobs[o] + 1 ELSE jobs[o]
      BY <3>1, <3>2, <3>4, SchedulerAssumption
    <3>5. Ok("array", o) # None
      BY <2>3, NoneAssumption
    <3> QED
      BY <1>6, <2>3, <2>4, <2>5, <3>3, <3>4, <3>5
  <2> QED
    BY <1>17, <2>11, <2>13, <2>15, <2>16, <2>17, <2>18, <2>19, <2>20, <2>21 DEF IInv
<1> QED
  BY <1>18, <1>19

-----------------------------------------------------------------------------
(***************************************************************************)
(* The theorems.                                                           *)
(***************************************************************************)
LEMMA InitIInv == Init => IInv /\ DeliveredOnce
<1> SUFFICES ASSUME Init
             PROVE  IInv /\ DeliveredOnce
  OBVIOUS
<1>1. TypeOK
  <2>1. job \in Job
    BY DEF Init, Job, Idle
  <2>2. <<>> \in Seq(Sub)
    OBVIOUS
  <2>3. subs \in [Promise -> Seq(Sub)]
    BY <2>2 DEF Init
  <2> QED
    BY <2>1, <2>3 DEF Init, TypeOK
<1>2. JobSound
  BY DEF Init, JobSound, Idle
<1>3. SubsSound
  BY DEF Init, SubsSound
<1>4. Fresh /\ BuildingSound /\ TrackingSound /\ ArrayStored /\ AllOutcome /\ NoPanic
  BY DEF Init, Fresh, BuildingSound, TrackingSound, ArrayStored, AllOutcome, NoPanic
<1>5. ArrayReturned
  BY DEF Init, ArrayReturned, Idle
<1>6. DeliveredOnce
  BY DEF Init, DeliveredOnce
<1> QED
  BY <1>1, <1>2, <1>3, <1>4, <1>5, <1>6 DEF IInv

LEMMA NextIInv ==
    ASSUME IInv, [Next]_vars
    PROVE  IInv' /\ (DeliveredOnce => DeliveredOnce')
<1>1. CASE Script
  <2>1. ASSUME NEW p \in Promise, New(p)
        PROVE  IInv' /\ (DeliveredOnce => DeliveredOnce')
    BY <2>1, NewStep
  <2>2. ASSUME NEW p \in Promise, NEW r \in Anything, Settle(p, r) \/ StaticSettle(p, r)
        PROVE  IInv' /\ (DeliveredOnce => DeliveredOnce')
    BY <2>2, SettleStep
  <2>3. ASSUME NEW p \in Promise, NEW s \in Promise, NEW form \in Forms, Then(p, form, s)
        PROVE  IInv' /\ (DeliveredOnce => DeliveredOnce')
    BY <2>3, ThenStep
  <2>4. ASSUME NEW p \in Promise, NEW mode \in Modes, NEW arr \in Arrays,
               NewTracking(p, mode, arr)
        PROVE  IInv' /\ (DeliveredOnce => DeliveredOnce')
    BY <2>4, NewTrackingStep
  <2>5. ASSUME NEW s \in Promise, TrackElement(s)
        PROVE  IInv' /\ (DeliveredOnce => DeliveredOnce')
    BY <2>5, TrackElementStep
  <2> QED
    BY <1>1, <2>1, <2>2, <2>3, <2>4, <2>5, TrackDoneStep DEF Script
<1>2. CASE RunJob
  <2>1. ASSUME NEW p \in Promise, StartJob(p)
        PROVE  IInv' /\ (DeliveredOnce => DeliveredOnce')
    BY <2>1, StartJobStep
  <2>2. ASSUME NEW r \in Anything, ReturnHandler(r)
        PROVE  IInv' /\ (DeliveredOnce => DeliveredOnce')
    BY <2>2, ReturnHandlerStep
  <2> QED
    BY <1>2, <2>1, <2>2, LoopSteps, TrackResultStep, SettleSubStep DEF RunJob
<1>3. CASE UNCHANGED vars
  <2>1. UNCHANGED <<created, resolution, subs, tracking, jobs, delivered, building, panicked>>
        /\ job' = job
    BY <1>3 DEF vars
  <2>2. job' \in Job /\ JobSound' /\ ArrayReturned'
    BY <2>1 DEF IInv, TypeOK, JobSound, ArrayReturned
  <2> QED
    BY <2>1, <2>2, JobStep
<1> QED
  BY <1>1, <1>2, <1>3 DEF Next

\* The state stays well typed, whatever script does and in whatever order jobs run.
THEOREM TypeCorrect == Spec => []TypeOK
<1>1. IInv => TypeOK
  BY DEF IInv
<1> QED
  BY InitIInv, NextIInv, <1>1, PTL DEF Spec

\* One job, queued or started, for each settled promise and none for a pending
\* one: the handlers of a promise are run by one job (do_resolve and the jobs it
\* schedules).
THEOREM DeliveredOnceHolds == Spec => []DeliveredOnce
BY InitIInv, NextIInv, PTL DEF Spec

\* The unwraps in finally_track and in the loop that fills the array of
\* Promise.all never fail.
THEOREM NoPanicHolds == Spec => []NoPanic
<1>1. IInv => NoPanic
  BY DEF IInv
<1> QED
  BY InitIInv, NextIInv, <1>1, PTL DEF Spec

\* A Promise.all that is fulfilled with its array has the values of its elements,
\* index by index, all of them fulfilled.
THEOREM AllOutcomeHolds == Spec => []AllOutcome
<1>1. IInv => AllOutcome
  BY DEF IInv
<1> QED
  BY InitIInv, NextIInv, <1>1, PTL DEF Spec
=============================================================================
