---------------------------- MODULE EngineProofs ----------------------------
(* Theorems about Engine, for every value of its constants. *)
EXTENDS Engine, FiniteSetTheorems, TLAPS

-----------------------------------------------------------------------------
(* The inductive invariant. *)

Applied == {"applying", "resolving"}

\* There is a run to resolve in two places of the loop only, and no run in the end.
Phases ==
    /\ pc \in Applied => ended.lease \in 1 .. granted /\ ended.lease \notin DOMAIN runs
    /\ pc \notin Applied => ended = NoRun
    /\ pc = "closed" => DOMAIN runs = {}
    /\ pc = "resolving" => ended.outcome # "lost"

\* The leases granted, and the page each was granted for.
Holders ==
    /\ DOMAIN runs \subseteq 1 .. granted
    /\ \A u \in DOMAIN leases :
          /\ leases[u].lease \in 1 .. granted
          /\ leases[u].lease \in DOMAIN runs => runs[leases[u].lease].req.url = u
          /\ pc \in Applied /\ leases[u].lease = ended.lease => ended.req.url = u

\* What the outcome of a run says of its task.
OutcomeHolds ==
    pc \in Applied =>
        /\ ended.outcome = "lost" => ~InForce(ended.req.url, ended.lease)
        /\ ended.outcome = "retry" /\ pc = "applying" => ended.req.retries < RetryCount
        /\ ended.kept => ended.req.url \in stored

\* Items are in a store when a run says so.
StoredHolds == \A l \in DOMAIN runs : runs[l].at = "stored" => runs[l].req.url \in stored

\* A task fetches the page it is named after.
Keyed ==
    /\ \A u \in DOMAIN queue : queue[u].req.url = u
    /\ \A u \in DOMAIN leases : leases[u].req.url = u
    /\ pc = "resolving" => \A u \in DOMAIN ended.tasks : ended.tasks[u].req.url = u

\* Dedup knows every task, and the tasks to come are none the scheduler has.
Known ==
    /\ Pool \subseteq seen
    /\ pc = "resolving" =>
          /\ DOMAIN ended.tasks \ {ended.req.url} \subseteq seen
          /\ DOMAIN ended.tasks \cap Pool \subseteq {ended.req.url}
          /\ ended.outcome \in {"delay", "retry"} =>
                Stray(ended.req.url) \/ ended.req.url \in DOMAIN ended.tasks

IInv ==
    /\ TypeOK
    /\ Phases
    /\ Holders
    /\ EveryLeaseIsWorkedOn
    /\ OutcomeHolds
    /\ StoredHolds
    /\ Keyed
    /\ Known

\* With every page under the limit: a download has a slot, and holds its mark.
SlotsTaken ==
    /\ \A l \in DOMAIN runs : runs[l].at \in {"robots", "fetching"} => runs[l].req.slot
    /\ \A b \in Buckets : Cardinality(Downloading(b)) <= slots[b]

-----------------------------------------------------------------------------
(* Maps and hooks. *)

LEMMA EmptyIsMap ==
    ASSUME NEW K, NEW V
    PROVE  IsMap(Empty, K, V) /\ DOMAIN Empty = {}
BY DEF IsMap, Empty

Slots == [Buckets -> 0 .. Limit]

\* What every answer of the chain keeps of the request.
IsAnswer(answer, req) ==
    /\ answer.req \in Request
    /\ answer.req.url = req.url
    /\ answer.slots \in Slots
    /\ answer.flow \in Stopping \cup {"continue"}

LEMMA TakeSlotAnswer ==
    ASSUME NEW req \in Request, NEW held \in Slots
    PROVE  IsAnswer(TakeSlot(req, held), req) /\ TakeSlot(req, held).flow # "retry"
<1>1. BucketOf[req.url] \in Buckets
    BY HooksAssumption DEF Request, Buckets
<1>2. held[BucketOf[req.url]] \in 0 .. Limit
    BY <1>1 DEF Slots
<1>3. [req EXCEPT !.slot = TRUE] \in Request /\ [req EXCEPT !.slot = TRUE].url = req.url
    BY DEF Request
<1>4. held[BucketOf[req.url]] < Limit =>
          [held EXCEPT ![BucketOf[req.url]] = @ + 1] \in Slots
    BY <1>1, <1>2, HooksAssumption DEF Slots
<1> QED
    BY <1>2, <1>3, <1>4, HooksAssumption DEF TakeSlot, Answer, IsAnswer, Stopping

LEMMA ReleaseSlotAnswer ==
    ASSUME NEW req \in Request, NEW held \in Slots
    PROVE  IsAnswer(ReleaseSlot(req, held), req) /\ ReleaseSlot(req, held).flow = "continue"
           /\ ReleaseSlot(req, held).req.retries = req.retries
<1>1. BucketOf[req.url] \in Buckets
    BY HooksAssumption DEF Request, Buckets
<1>2. held[BucketOf[req.url]] \in 0 .. Limit
    BY <1>1 DEF Slots
<1>3. [req EXCEPT !.slot = FALSE] \in Request /\ [req EXCEPT !.slot = FALSE].url = req.url
      /\ [req EXCEPT !.slot = FALSE].retries = req.retries
    BY DEF Request
<1>4. held[BucketOf[req.url]] > 0 =>
          [held EXCEPT ![BucketOf[req.url]] = @ - 1] \in Slots
    BY <1>1, <1>2, HooksAssumption DEF Slots
<1> QED
    BY <1>2, <1>3, <1>4 DEF ReleaseSlot, Answer, IsAnswer

\* No hook before a download retries.
LEMMA BeforeDownloadAnswers ==
    ASSUME NEW req \in Request, NEW held \in Slots, NEW answer \in BeforeDownload(req, held)
    PROVE  IsAnswer(answer, req) /\ answer.flow # "retry"
<1> DEFINE taken == TakeSlot(req, held)
<1>1. IsAnswer(taken, req) /\ taken.flow # "retry"
    BY TakeSlotAnswer
<1>2. \/ \E f \in FirstBefore : answer = Answer(f, req, held)
      \/ answer = taken
      \/ \E f \in LastBefore : answer = Answer(f, taken.req, taken.slots)
    BY DEF BeforeDownload, Stops
<1> HIDE DEF taken
<1> QED
    BY <1>1, <1>2, HooksAssumption DEF Answer, IsAnswer, Stopping

\* A hook after a download retries only below the bound.
LEMMA AfterDownloadAnswers ==
    ASSUME NEW req \in Request, NEW held \in Slots, NEW answer \in AfterDownload(req, held)
    PROVE  /\ IsAnswer(answer, req)
           /\ answer.flow = "retry" => answer.req.retries < RetryCount
<1> DEFINE released == ReleaseSlot(req, held)
<1>1. IsAnswer(released, req) /\ released.flow = "continue" /\ released.req.retries = req.retries
    BY ReleaseSlotAnswer
<1>2. \/ \E f \in Retryable(FirstAfter, req) : answer = Answer(f, req, held)
      \/ answer = released
      \/ \E f \in Retryable(LastAfter, req) : answer = Answer(f, released.req, released.slots)
    BY DEF AfterDownload, Stops
<1> HIDE DEF released
<1> QED
    BY <1>1, <1>2, HooksAssumption DEF Answer, IsAnswer, Retryable

-----------------------------------------------------------------------------
(* The invariant, step by step. *)

LEMMA IInvInit == Init => IInv
<1> SUFFICES ASSUME Init PROVE IInv
    OBVIOUS
<1> USE DEF Init
<1>1. TypeOK
    <2>1. IsMap(queue, Urls, Tasks) /\ IsMap(runs, Leases, Run)
          /\ IsMap(leases, Urls, [lease : Leases, req : Request])
        BY EmptyIsMap
    <2>2. slots \in [Buckets -> 0 .. Limit] /\ granted \in 0 .. MaxLease
        BY EngineAssumption, HooksAssumption
    <2> QED
        BY <2>1, <2>2 DEF TypeOK
<1>2. DOMAIN queue = {} /\ DOMAIN leases = {} /\ DOMAIN runs = {}
    BY DEF Empty
<1> QED
    BY <1>1, <1>2 DEF IInv, Phases, Applied, Holders, EveryLeaseIsWorkedOn, OutcomeHolds,
                      StoredHolds, Keyed, Known, Pool

LEMMA AdvanceInv ==
    ASSUME IInv, pc = "polling", NEW l \in DOMAIN runs, NEW run \in Run,
           run.req.url = runs[l].req.url,
           stored \subseteq stored', stored' \subseteq Urls,
           run.at = "stored" => run.req.url \in stored',
           slots' \in Slots, Advance(l, run),
           UNCHANGED <<schedulerVars, seen, draining, stop>>
    PROVE  IInv'
<1> USE DEF Advance, schedulerVars
<1>1. TypeOK'
    BY DEF IInv, TypeOK, IsMap, Slots
<1>2. DOMAIN runs' = DOMAIN runs /\ \A k \in DOMAIN runs : runs'[k].req.url = runs[k].req.url
    BY DEF IInv, TypeOK, IsMap
<1>3. StoredHolds'
    BY <1>2 DEF IInv, StoredHolds, TypeOK, IsMap
<1> QED
    BY <1>1, <1>2, <1>3 DEF IInv, Phases, Applied, Holders, EveryLeaseIsWorkedOn, OutcomeHolds,
                            Keyed, Known, Pool, InForce

LEMMA EndInv ==
    ASSUME IInv, pc = "polling", NEW l \in DOMAIN runs, NEW outcome \in Outcomes,
           NEW req \in Request, req.url = runs[l].req.url,
           outcome = "lost" => ~InForce(req.url, l),
           outcome = "retry" => req.retries < RetryCount,
           slots' \in Slots, End(l, outcome, req),
           UNCHANGED <<schedulerVars, effectVars, draining, stop>>
    PROVE  IInv'
<1> USE DEF End, schedulerVars, effectVars
<1>1. runs[l] \in Run /\ l \in Leases
    BY DEF IInv, TypeOK, IsMap
<1>2. /\ IsMap(runs', Leases, Run)
      /\ DOMAIN runs' = DOMAIN runs \ {l}
      /\ \A k \in DOMAIN runs' : runs'[k] = runs[k]
    <2>1. IsMap(runs, Leases, Run) /\ runs' = Del(runs, {l})
        BY DEF IInv, TypeOK
    <2> QED
        BY <2>1 DEF IsMap, Del
<1>3. /\ ended'.lease = l /\ ended'.outcome = outcome /\ ended'.req = req
      /\ ended'.kept => runs[l].at = "stored"
      /\ pc' = "applying"
    OBVIOUS
<1>8. IsTaskRun(ended')
    BY <1>1, EmptyIsMap DEF IsTaskRun, Run
<1>4. TypeOK'
    BY <1>2, <1>3, <1>8 DEF IInv, TypeOK, Slots
<1>5. Phases' /\ Holders'
    BY <1>2, <1>3 DEF IInv, Phases, Holders, Applied
<1>6. OutcomeHolds' /\ StoredHolds'
    BY <1>2, <1>3 DEF IInv, OutcomeHolds, StoredHolds, InForce, Applied
<1>7. EveryLeaseIsWorkedOn' /\ Keyed' /\ Known'
    BY <1>2, <1>3 DEF IInv, EveryLeaseIsWorkedOn, Keyed, Known, Pool, Phases, Holders, Applied, NoRun
<1> QED
    BY <1>4, <1>5, <1>6, <1>7 DEF IInv

\* Steps of the loop that touch nothing but the loop.
LEMMA LoopInv ==
    ASSUME IInv, UNCHANGED <<schedulerVars, effectVars, slots, runs, ended>>,
           draining' \in BOOLEAN, stop' \in BOOLEAN,
           pc' \in {"seeding", "top", "claiming", "polling", "closed", pc},
           pc # pc' => pc \notin Applied \cup {"failed"},
           pc' = "closed" => DOMAIN runs = {}
    PROVE  IInv'
<1> USE DEF schedulerVars, effectVars
<1>1. TypeOK'
    BY DEF IInv, TypeOK
<1>2. Phases' /\ Holders' /\ EveryLeaseIsWorkedOn'
    BY DEF IInv, Phases, Applied, Holders, EveryLeaseIsWorkedOn
<1>3. OutcomeHolds' /\ StoredHolds' /\ Keyed' /\ Known'
    BY DEF IInv, OutcomeHolds, Applied, StoredHolds, Keyed, Known, Pool, InForce
<1> QED
    BY <1>1, <1>2, <1>3 DEF IInv

LEMMA LoopSteps ==
    ASSUME IInv, Seeded \/ Loop \/ BeginDrain \/ EndClaim \/ Stop
    PROVE  IInv'
<1>1. stop \in BOOLEAN /\ draining \in BOOLEAN
    BY DEF IInv, TypeOK
<1>2. CASE Seeded
    BY <1>1, <1>2, LoopInv DEF Seeded, Applied
<1>3. CASE Loop
    BY <1>1, <1>3, LoopInv DEF Loop, Applied
<1>4. CASE BeginDrain
    BY <1>1, <1>4, LoopInv DEF BeginDrain, Rest, Applied
<1>5. CASE EndClaim
    <2>1. pc = "claiming" /\ pc' \in {"top", "polling"} /\ UNCHANGED <<draining, stop>>
        BY <1>5 DEF EndClaim
    <2>2. UNCHANGED <<schedulerVars, effectVars, slots, runs, ended>>
        BY <1>5 DEF EndClaim
    <2> QED
        BY <1>1, <2>1, <2>2, LoopInv DEF Applied
<1>6. CASE Stop
    BY <1>1, <1>6, LoopInv DEF Stop, IInv, Phases
<1> QED
    BY <1>2, <1>3, <1>4, <1>5, <1>6

LEMMA SeedStep ==
    ASSUME IInv, NEW u \in Urls, Seed(u)
    PROVE  IInv'
<1> USE DEF Seed, loopVars
<1>1. IsMap(queue', Urls, Tasks) /\ DOMAIN queue' = DOMAIN queue \cup {u}
    <2>1. Immediate(NewRequest(u)) \in Tasks
        BY HooksAssumption DEF Immediate, NewRequest, Tasks, Request
    <2>2. IsMap(queue, Urls, Tasks) /\ queue' = Put(queue, Field(u, Immediate(NewRequest(u))))
        BY DEF IInv, TypeOK
    <2> QED
        BY <2>1, <2>2 DEF IsMap, Put, Field
<1>2. TypeOK'
    BY <1>1 DEF IInv, TypeOK
<1>3. Phases' /\ Holders' /\ EveryLeaseIsWorkedOn'
    BY DEF IInv, Phases, Applied, Holders, EveryLeaseIsWorkedOn
<1>4. OutcomeHolds' /\ StoredHolds' /\ Keyed' /\ Known'
    <2>1. queue'[u].req.url = u /\ \A v \in DOMAIN queue' \ {u} : queue'[v] = queue[v]
        BY <1>1 DEF Put, Field, Immediate, NewRequest
    <2> QED
        BY <1>1, <2>1 DEF IInv, OutcomeHolds, Applied, StoredHolds, Keyed, Known, Pool, InForce
<1> QED
    BY <1>2, <1>3, <1>4 DEF IInv

LEMMA ClaimStep ==
    ASSUME IInv, NEW u \in Urls, Claim(u)
    PROVE  IInv'
<1> DEFINE l == granted + 1
           run == [req |-> queue[u].req, at |-> "waiting", fetched |-> NewRequest(u)]
           lease == [lease |-> l, req |-> queue[u].req]
<1>1. /\ pc = "claiming" /\ u \in DOMAIN queue /\ granted' = l
      /\ leases' = Put(leases, Field(u, lease))
      /\ queue' = Del(queue, {u})
      /\ runs' = Put(runs, Field(l, run))
      /\ UNCHANGED <<stored, seen, slots, pc, draining, stop, ended>>
    BY DEF Claim, loopVars
<1>2. /\ l \in Leases /\ granted \in Nat /\ l \notin 1 .. granted
      /\ granted' \in 0 .. MaxLease
      /\ 1 .. granted' = (1 .. granted) \cup {l}
    BY EngineAssumption DEF Claim, IInv, TypeOK, Leases
<1>3. queue[u] \in Tasks /\ queue[u].req \in Request
    BY <1>1 DEF IInv, TypeOK, IsMap, Tasks
<1>4. run \in Run /\ run.at = "waiting" /\ run.req = queue[u].req
    BY <1>3, HooksAssumption DEF Run, NewRequest, Request
<1>5. lease \in [lease : Leases, req : Request] /\ lease.lease = l
    BY <1>2, <1>3
<1> HIDE DEF run, lease
<1>6. IsMap(queue', Urls, Tasks) /\ DOMAIN queue' = DOMAIN queue \ {u}
    <2>1. IsMap(queue, Urls, Tasks)
        BY DEF IInv, TypeOK
    <2> QED
        BY <1>1, <2>1 DEF IsMap, Del
<1>7. /\ IsMap(leases', Urls, [lease : Leases, req : Request])
      /\ DOMAIN leases' = DOMAIN leases \cup {u}
      /\ \A v \in DOMAIN leases' : leases'[v] = IF v = u THEN lease ELSE leases[v]
    <2>1. IsMap(leases, Urls, [lease : Leases, req : Request])
        BY DEF IInv, TypeOK
    <2> QED
        BY <1>1, <1>5, <2>1 DEF IsMap, Put, Field
<1>8. /\ IsMap(runs', Leases, Run)
      /\ DOMAIN runs' = DOMAIN runs \cup {l}
      /\ \A k \in DOMAIN runs' : runs'[k] = IF k = l THEN run ELSE runs[k]
    <2>1. IsMap(runs, Leases, Run)
        BY DEF IInv, TypeOK
    <2> QED
        BY <1>1, <1>2, <1>4, <2>1 DEF IsMap, Put, Field
<1> HIDE DEF l
<1>9. TypeOK'
    BY <1>1, <1>2, <1>6, <1>7, <1>8 DEF IInv, TypeOK
<1>10. ended = NoRun /\ pc' = "claiming"
    BY <1>1 DEF IInv, Phases, Applied
<1>11. Phases' /\ EveryLeaseIsWorkedOn'
    BY <1>1, <1>5, <1>7, <1>8, <1>10 DEF IInv, Phases, Applied, EveryLeaseIsWorkedOn
<1>12. Holders'
    <2>1. DOMAIN runs' \subseteq 1 .. granted'
        BY <1>2, <1>8 DEF IInv, Holders
    <2>2. queue[u].req.url = u
        BY <1>1 DEF IInv, Keyed
    <2>3. \A v \in DOMAIN leases' :
             /\ leases'[v].lease \in 1 .. granted'
             /\ leases'[v].lease \in DOMAIN runs' => runs'[leases'[v].lease].req.url = v
        BY <1>2, <1>4, <1>5, <1>7, <1>8, <2>2 DEF IInv, Holders
    <2> QED
        BY <1>10, <2>1, <2>3 DEF Holders, Applied
<1>13. OutcomeHolds' /\ StoredHolds' /\ Known'
    BY <1>1, <1>4, <1>6, <1>7, <1>8, <1>10
       DEF IInv, OutcomeHolds, Applied, StoredHolds, Known, Pool
<1>14. Keyed'
    <2>1. /\ \A v \in DOMAIN queue' : queue'[v] = queue[v]
          /\ lease.req = queue[u].req
        BY <1>1 DEF Del, lease
    <2>2. /\ \A v \in DOMAIN queue : queue[v].req.url = v
          /\ \A v \in DOMAIN leases : leases[v].req.url = v
        BY DEF IInv, Keyed
    <2>3. \A v \in DOMAIN queue' : queue'[v].req.url = v
        BY <1>6, <2>1, <2>2
    <2>4. \A v \in DOMAIN leases' : leases'[v].req.url = v
        BY <1>1, <1>7, <2>1, <2>2
    <2>5. pc' # "resolving"
        BY <1>1, <1>10
    <2> QED
        BY <2>3, <2>4, <2>5 DEF Keyed
<1> QED
    BY <1>9, <1>11, <1>12, <1>13, <1>14 DEF IInv

\* An error of the scheduler, in a claim or at the end of a run: the engine is
\* gone, the leases stay.
LEMMA FailedInv ==
    ASSUME IInv, pc' = "failed", ended' = NoRun, runs' = Empty,
           UNCHANGED <<effectVars, slots, draining, stop>>,
           IsMap(queue', Urls, Tasks),
           IsMap(leases', Urls, [lease : Leases, req : Request]),
           UNCHANGED granted,
           DOMAIN queue' \cup DOMAIN leases' \subseteq seen,
           \A u \in DOMAIN queue' : queue'[u].req.url = u,
           DOMAIN leases' \subseteq DOMAIN leases,
           \A u \in DOMAIN leases' : leases'[u] = leases[u]
    PROVE  IInv'
<1> USE DEF effectVars
<1>1. IsMap(runs', Leases, Run) /\ DOMAIN runs' = {}
    BY EmptyIsMap
<1>2. TypeOK'
    BY <1>1 DEF IInv, TypeOK
<1> QED
    BY <1>1, <1>2 DEF IInv, Phases, Applied, Holders, EveryLeaseIsWorkedOn, OutcomeHolds,
                      StoredHolds, Keyed, Known, Pool

LEMMA ClaimFailsStep ==
    ASSUME IInv, ClaimFails
    PROVE  IInv'
<1>1. pc' = "failed" /\ ended' = NoRun /\ runs' = Empty
    BY DEF ClaimFails, IInv, Phases, Applied
<1>2. UNCHANGED <<schedulerVars, effectVars, slots, draining, stop>>
    BY DEF ClaimFails
<1> QED
    BY <1>1, <1>2, FailedInv DEF schedulerVars, IInv, TypeOK, Keyed, Known, Pool

LEMMA ExpireStep ==
    ASSUME IInv, NEW u \in Urls, Expire(u)
    PROVE  IInv'
<1> USE DEF Expire, effectVars, loopVars
<1>1. /\ IsMap(leases', Urls, [lease : Leases, req : Request])
      /\ DOMAIN leases' = DOMAIN leases \ {u}
      /\ \A v \in DOMAIN leases' : leases'[v] = leases[v]
    <2>1. IsMap(leases, Urls, [lease : Leases, req : Request])
        BY DEF IInv, TypeOK
    <2> QED
        BY <2>1 DEF IsMap, Del
<1>2. /\ IsMap(queue', Urls, Tasks)
      /\ DOMAIN queue' = DOMAIN queue \cup {u}
      /\ \A v \in DOMAIN queue' : queue'[v].req.url = v
    <2>1. leases[u].req \in Request /\ leases[u].req.url = u
        BY DEF IInv, TypeOK, IsMap, Keyed
    <2>2. Immediate(leases[u].req) \in Tasks /\ Immediate(leases[u].req).req.url = u
        BY <2>1 DEF Immediate, Tasks
    <2>3. IsMap(queue, Urls, Tasks) /\ \A v \in DOMAIN queue : queue[v].req.url = v
        BY DEF IInv, TypeOK, Keyed
    <2> QED
        BY <2>2, <2>3 DEF IsMap, Put, Field
<1>3. TypeOK'
    BY <1>1, <1>2 DEF IInv, TypeOK
<1>4. Phases' /\ Holders' /\ EveryLeaseIsWorkedOn'
    BY <1>1 DEF IInv, Phases, Applied, Holders, EveryLeaseIsWorkedOn
<1>5. OutcomeHolds' /\ StoredHolds'
    BY <1>1 DEF IInv, OutcomeHolds, Applied, StoredHolds, InForce
<1>6. Keyed'
    BY <1>1, <1>2 DEF IInv, Keyed
<1>7. Known'
    <2>1. Pool' = Pool
        BY <1>1, <1>2 DEF Pool
    <2> QED
        BY <2>1 DEF IInv, Known
<1> QED
    BY <1>3, <1>4, <1>5, <1>6, <1>7 DEF IInv

LEMMA RunTypes ==
    ASSUME IInv, NEW l \in DOMAIN runs
    PROVE  /\ l \in Leases /\ runs[l] \in Run /\ runs[l].req \in Request
           /\ slots \in Slots
           /\ runs[l].at = "stored" => runs[l].req.url \in stored
           /\ stored \subseteq Urls
BY DEF IInv, TypeOK, IsMap, Run, Slots, StoredHolds

\* The answer of a chain that stops ends the run.
LEMMA StoppedInv ==
    ASSUME IInv, pc = "polling", NEW l \in DOMAIN runs, NEW answer,
           IsAnswer(answer, runs[l].req), answer.flow # "continue",
           answer.flow = "retry" => answer.req.retries < RetryCount,
           slots' = answer.slots, Stopped(l, answer),
           UNCHANGED <<schedulerVars, effectVars, draining, stop>>
    PROVE  IInv'
<1> DEFINE outcome == answer.flow
           req == answer.req
<1>1. /\ outcome \in Outcomes /\ outcome # "lost" /\ req \in Request
      /\ req.url = runs[l].req.url
      /\ outcome = "retry" => req.retries < RetryCount
      /\ slots' \in Slots
    BY DEF IsAnswer, Outcomes, Stopping
<1>2. End(l, outcome, req)
    BY DEF Stopped
<1> HIDE DEF outcome, req
<1> QED
    BY <1>1, <1>2, EndInv

LEMMA StartStep ==
    ASSUME IInv, NEW l \in Leases, Start(l)
    PROVE  IInv'
<1>1. pc = "polling" /\ l \in DOMAIN runs
      /\ UNCHANGED <<schedulerVars, effectVars, draining, stop>>
    BY DEF Start
<1>2. PICK answer \in BeforeDownload(runs[l].req, slots) :
          /\ slots' = answer.slots
          /\ IF answer.flow = "continue"
             THEN Advance(l, [runs[l] EXCEPT !.req = answer.req, !.at = "robots"])
             ELSE Stopped(l, answer)
    BY DEF Start
<1>3. IsAnswer(answer, runs[l].req) /\ answer.flow # "retry"
    BY <1>1, RunTypes, BeforeDownloadAnswers
<1>4. CASE answer.flow = "continue"
    <2> DEFINE run == [runs[l] EXCEPT !.req = answer.req, !.at = "robots"]
    <2>1. run \in Run /\ run.req.url = runs[l].req.url /\ run.at = "robots"
        BY <1>1, <1>3, RunTypes DEF Run, IsAnswer
    <2>2. Advance(l, run) /\ slots' \in Slots
        BY <1>2, <1>3, <1>4 DEF IsAnswer
    <2> HIDE DEF run
    <2> QED
        BY <1>1, <2>1, <2>2, RunTypes, AdvanceInv DEF effectVars
<1> QED
    BY <1>1, <1>2, <1>3, <1>4, StoppedInv

LEMMA RespondStep ==
    ASSUME IInv, NEW l \in Leases, Respond(l)
    PROVE  IInv'
<1>1. pc = "polling" /\ l \in DOMAIN runs
      /\ UNCHANGED <<schedulerVars, effectVars, draining, stop>>
    BY DEF Respond
<1>2. PICK answer \in AfterDownload(runs[l].req, slots) :
          /\ slots' = answer.slots
          /\ IF answer.flow = "continue"
             THEN Advance(l, [req |-> answer.req, at |-> "parsing", fetched |-> runs[l].req])
             ELSE Stopped(l, answer)
    BY DEF Respond
<1>3. IsAnswer(answer, runs[l].req) /\ (answer.flow = "retry" => answer.req.retries < RetryCount)
    BY <1>1, RunTypes, AfterDownloadAnswers
<1>4. CASE answer.flow = "continue"
    <2> DEFINE run == [req |-> answer.req, at |-> "parsing", fetched |-> runs[l].req]
    <2>1. run \in Run /\ run.req.url = runs[l].req.url /\ run.at = "parsing"
        BY <1>1, <1>3, RunTypes DEF Run, IsAnswer
    <2>2. Advance(l, run) /\ slots' \in Slots
        BY <1>2, <1>3, <1>4 DEF IsAnswer
    <2> HIDE DEF run
    <2> QED
        BY <1>1, <2>1, <2>2, RunTypes, AdvanceInv DEF effectVars
<1> QED
    BY <1>1, <1>2, <1>3, <1>4, StoppedInv

LEMMA FetchFailsStep ==
    ASSUME IInv, NEW l \in Leases, FetchFails(l)
    PROVE  IInv'
<1>1. pc = "polling" /\ l \in DOMAIN runs
      /\ UNCHANGED <<schedulerVars, effectVars, draining, stop>>
    BY DEF FetchFails
<1>2. PICK answer \in AfterDownload(runs[l].req, slots) :
          /\ slots' = answer.slots
          /\ IF answer.flow = "continue"
             THEN \/ Advance(l, [runs[l] EXCEPT !.req = answer.req, !.at = "output"])
                  \/ End(l, "error", answer.req)
             ELSE Stopped(l, answer)
    BY DEF FetchFails
<1>3. IsAnswer(answer, runs[l].req) /\ (answer.flow = "retry" => answer.req.retries < RetryCount)
    BY <1>1, RunTypes, AfterDownloadAnswers
<1>4. slots' \in Slots /\ answer.req \in Request /\ answer.req.url = runs[l].req.url
    BY <1>2, <1>3 DEF IsAnswer
<1>5. CASE Advance(l, [runs[l] EXCEPT !.req = answer.req, !.at = "output"])
    <2> DEFINE run == [runs[l] EXCEPT !.req = answer.req, !.at = "output"]
    <2>1. run \in Run /\ run.req.url = runs[l].req.url /\ run.at = "output"
        BY <1>1, <1>4, RunTypes DEF Run
    <2>2. Advance(l, run)
        BY <1>5
    <2> HIDE DEF run
    <2> QED
        BY <1>1, <1>4, <2>1, <2>2, RunTypes, AdvanceInv DEF effectVars
<1>6. CASE End(l, "error", answer.req)
    BY <1>1, <1>4, <1>6, EndInv DEF Outcomes
<1>7. CASE answer.flow # "continue" /\ Stopped(l, answer)
    BY <1>1, <1>2, <1>3, <1>7, StoppedInv
<1> QED
    BY <1>2, <1>5, <1>6, <1>7

\* The steps of a run in which no hook may stop it.
LEMMA PlainRunStep ==
    ASSUME IInv, NEW l \in Leases,
           \/ CheckRobots(l) \/ Parse(l) \/ Store(l)
           \/ Succeed(l) \/ OutputFails(l) \/ HeartbeatFails(l)
    PROVE  IInv'
<1>1. pc = "polling" /\ l \in DOMAIN runs /\ slots' = slots
      /\ UNCHANGED <<schedulerVars, seen, draining, stop>>
    BY DEF CheckRobots, Parse, Store, Succeed, OutputFails, HeartbeatFails, effectVars
<1>2. /\ runs[l] \in Run /\ runs[l].req \in Request /\ slots' \in Slots
      /\ stored \subseteq Urls /\ runs[l].req.url \in Urls
    BY <1>1, RunTypes DEF Request
<1>3. ASSUME NEW at \in {"fetching", "output", "stored"},
             Advance(l, [runs[l] EXCEPT !.at = at]),
             stored' = IF at = "stored" THEN stored \cup {runs[l].req.url} ELSE stored
      PROVE  IInv'
    <2> DEFINE run == [runs[l] EXCEPT !.at = at]
    <2>1. run \in Run /\ run.req = runs[l].req /\ run.at = at
        BY <1>2 DEF Run
    <2>2. Advance(l, run)
        BY <1>3
    <2> HIDE DEF run
    <2> QED
        BY <1>1, <1>2, <1>3, <2>1, <2>2, AdvanceInv
<1>4. ASSUME NEW outcome \in {"success", "drop", "delay", "error", "lost"},
             outcome = "lost" => ~InForce(runs[l].req.url, l),
             End(l, outcome, runs[l].req), stored' = stored
      PROVE  IInv'
    <2> DEFINE req == runs[l].req
    <2>1. req \in Request /\ End(l, outcome, req) /\ req.url = runs[l].req.url
        BY <1>2, <1>4
    <2> HIDE DEF req
    <2> QED
        BY <1>1, <1>2, <1>4, <2>1, EndInv DEF effectVars, Outcomes
<1>5. CASE CheckRobots(l)
    BY <1>3, <1>4, <1>5 DEF CheckRobots, effectVars
<1>6. CASE Parse(l)
    BY <1>3, <1>4, <1>6 DEF Parse, effectVars
<1>7. CASE Store(l)
    BY <1>3, <1>7 DEF Store
<1>8. CASE Succeed(l) \/ OutputFails(l)
    BY <1>4, <1>8 DEF Succeed, OutputFails, effectVars
<1>9. CASE HeartbeatFails(l)
    BY <1>4, <1>9 DEF HeartbeatFails, effectVars
<1> QED
    BY <1>5, <1>6, <1>7, <1>8, <1>9

\* What apply_task_run puts in the place of a task.
LEMMA SuccessorsTasks ==
    ASSUME IInv, pc = "applying", NEW tasks \in Successors(ended)
    PROVE  /\ IsMap(tasks, Urls, Tasks)
           /\ \A v \in DOMAIN tasks : tasks[v].req.url = v
           /\ DOMAIN tasks =
                 IF ended.outcome = "success" THEN Follows(ended.req.url) \ seen
                 ELSE IF ended.outcome \in {"delay", "retry"} /\ ~Stray(ended.req.url)
                 THEN {ended.req.url} ELSE {}
<1> DEFINE u == ended.req.url
<1>1. /\ u \in Urls /\ ended.req \in Request /\ ended.fetched \in Request
      /\ ended.outcome = "retry" => ended.req.retries < RetryCount
    BY DEF IInv, TypeOK, IsTaskRun, Phases, Applied, NoRun, OutcomeHolds, Request
<1>2. Follows(u) \in SUBSET Urls
    BY <1>1, EngineAssumption DEF Follows
<1>3. CASE ended.outcome = "success"
    <2>1. tasks = [v \in Follows(u) \ seen |-> Immediate(FollowRequest(v, ended.fetched))]
        BY <1>3 DEF Successors
    <2>2. \A v \in Urls : /\ Immediate(FollowRequest(v, ended.fetched)) \in Tasks
                          /\ Immediate(FollowRequest(v, ended.fetched)).req.url = v
        BY <1>1 DEF Immediate, FollowRequest, Tasks, Request
    <2> QED
        BY <1>2, <1>3, <2>1, <2>2 DEF IsMap
<1>4. CASE ended.outcome = "delay"
    <2>1. tasks = IF Stray(u) THEN Empty ELSE Field(u, [req |-> ended.req, delayed |-> TRUE])
        BY <1>4 DEF Successors, Again
    <2>2. [req |-> ended.req, delayed |-> TRUE] \in Tasks
        BY <1>1 DEF Tasks
    <2> QED
        BY <1>1, <1>4, <2>1, <2>2, EmptyIsMap DEF IsMap, Field
<1>5. CASE ended.outcome = "retry"
    <2>1. PICK d \in BOOLEAN :
             tasks = IF Stray(u) THEN Empty
                     ELSE Field(u, [req |-> [ended.req EXCEPT !.retries = @ + 1], delayed |-> d])
        BY <1>5 DEF Successors, Again
    <2>2. [ended.req EXCEPT !.retries = @ + 1] \in Request
          /\ [ended.req EXCEPT !.retries = @ + 1].url = u
        BY <1>1, <1>5, HooksAssumption DEF Request
    <2>3. [req |-> [ended.req EXCEPT !.retries = @ + 1], delayed |-> d] \in Tasks
        BY <2>2 DEF Tasks
    <2> QED
        BY <1>1, <1>5, <2>1, <2>2, <2>3, EmptyIsMap DEF IsMap, Field
<1>6. CASE ended.outcome \notin {"success", "delay", "retry"}
    BY <1>6, EmptyIsMap DEF Successors
<1> QED
    BY <1>3, <1>4, <1>5, <1>6

LEMMA PrepareStep ==
    ASSUME IInv, Prepare
    PROVE  IInv'
<1> USE DEF schedulerVars
<1>1. /\ pc = "applying" /\ pc' = "resolving" /\ ended.outcome # "lost"
      /\ UNCHANGED <<schedulerVars, stored, slots, draining, stop, runs>>
      /\ seen' = IF ended.outcome = "success" THEN seen \cup Follows(ended.req.url) ELSE seen
    BY DEF Prepare
<1>2. PICK tasks \in Successors(ended) : ended' = [ended EXCEPT !.tasks = tasks]
    BY DEF Prepare
<1>3. IsTaskRun(ended)
    BY <1>1 DEF IInv, TypeOK, Phases, Applied, NoRun
<1>4. /\ ended'.lease = ended.lease /\ ended'.outcome = ended.outcome
      /\ ended'.req = ended.req /\ ended'.kept = ended.kept /\ ended'.tasks = tasks
      /\ ended'.fetched = ended.fetched
      /\ ended' = [lease |-> ended'.lease, outcome |-> ended'.outcome, req |-> ended'.req,
                   fetched |-> ended'.fetched, kept |-> ended'.kept, tasks |-> ended'.tasks]
    BY <1>2, <1>3 DEF IsTaskRun
<1>5. /\ IsMap(tasks, Urls, Tasks)
      /\ \A v \in DOMAIN tasks : tasks[v].req.url = v
      /\ DOMAIN tasks =
            IF ended.outcome = "success" THEN Follows(ended.req.url) \ seen
            ELSE IF ended.outcome \in {"delay", "retry"} /\ ~Stray(ended.req.url)
            THEN {ended.req.url} ELSE {}
    BY <1>1, SuccessorsTasks
<1>6. IsTaskRun(ended')
    BY <1>3, <1>4, <1>5 DEF IsTaskRun
<1>7. seen' \subseteq Urls /\ seen \subseteq seen'
    <2>1. ended.req.url \in Urls /\ seen \subseteq Urls
        BY <1>3 DEF IInv, TypeOK, IsTaskRun, Request
    <2> QED
        BY <1>1, <2>1, EngineAssumption DEF Follows
<1>8. TypeOK'
    BY <1>1, <1>6, <1>7 DEF IInv, TypeOK
<1>9. Phases' /\ Holders' /\ EveryLeaseIsWorkedOn'
    BY <1>1, <1>4 DEF IInv, Phases, Applied, Holders, EveryLeaseIsWorkedOn
<1>10. OutcomeHolds' /\ StoredHolds' /\ Keyed'
    BY <1>1, <1>4, <1>5 DEF IInv, OutcomeHolds, Applied, StoredHolds, Keyed, InForce
<1>11. Known'
    <2>1. Pool' = Pool /\ Pool \subseteq seen
        BY <1>1 DEF Pool, IInv, Known
    <2>2. DOMAIN tasks \ {ended.req.url} \subseteq seen'
          /\ DOMAIN tasks \cap Pool \subseteq {ended.req.url}
        BY <1>1, <1>5, <2>1
    <2> QED
        BY <1>1, <1>4, <1>5, <1>7, <2>1, <2>2 DEF Known
<1> QED
    BY <1>8, <1>9, <1>10, <1>11 DEF IInv

\* What resolving a task does to the scheduler.
LEMMA CommitScheduler ==
    ASSUME IInv, pc = "resolving", Commit, UNCHANGED effectVars
    PROVE  /\ IsMap(queue', Urls, Tasks)
           /\ IsMap(leases', Urls, [lease : Leases, req : Request])
           /\ granted' = granted
           /\ DOMAIN leases' = DOMAIN leases \ {ended.req.url}
           /\ \A u \in DOMAIN leases' : leases'[u] = leases[u]
           /\ DOMAIN queue' = DOMAIN queue \cup
                 (IF ended.outcome = "error" THEN {ended.req.url} ELSE DOMAIN ended.tasks)
           /\ \A u \in DOMAIN queue' : queue'[u].req.url = u
           /\ Pool' \subseteq seen
<1> DEFINE u == ended.req.url
           back == IF ended.outcome = "error" THEN Field(u, Immediate(leases[u].req))
                   ELSE ended.tasks
<1>1. /\ u \in DOMAIN leases /\ leases' = Del(leases, {u}) /\ granted' = granted
      /\ queue' = Put(queue, back)
    BY DEF Commit, InForce
<1>2. /\ IsMap(leases', Urls, [lease : Leases, req : Request])
      /\ DOMAIN leases' = DOMAIN leases \ {u}
      /\ \A v \in DOMAIN leases' : leases'[v] = leases[v]
    <2>1. IsMap(leases, Urls, [lease : Leases, req : Request])
        BY DEF IInv, TypeOK
    <2> QED
        BY <1>1, <2>1 DEF IsMap, Del
<1>3. u \in Urls /\ leases[u].req \in Request /\ leases[u].req.url = u /\ u \in seen
    BY <1>1 DEF IInv, TypeOK, IsMap, Keyed, Known, Pool
<1>4. /\ IsMap(ended.tasks, Urls, Tasks)
      /\ \A v \in DOMAIN ended.tasks : ended.tasks[v].req.url = v
      /\ DOMAIN ended.tasks \ {u} \subseteq seen
    BY SMTT(30) DEF IInv, TypeOK, IsTaskRun, Phases, Applied, NoRun, Keyed, Known
<1>5. /\ IsMap(back, Urls, Tasks)
      /\ DOMAIN back = IF ended.outcome = "error" THEN {u} ELSE DOMAIN ended.tasks
      /\ \A v \in DOMAIN back : back[v].req.url = v
    <2>1. Immediate(leases[u].req) \in Tasks /\ Immediate(leases[u].req).req.url = u
        BY <1>3 DEF Immediate, Tasks
    <2> QED
        BY <1>3, <1>4, <2>1 DEF IsMap, Field
<1> HIDE DEF back
<1>6. /\ IsMap(queue', Urls, Tasks)
      /\ DOMAIN queue' = DOMAIN queue \cup DOMAIN back
      /\ \A v \in DOMAIN queue' : queue'[v].req.url = v
    <2>1. IsMap(queue, Urls, Tasks) /\ \A v \in DOMAIN queue : queue[v].req.url = v
        BY DEF IInv, TypeOK, Keyed
    <2> QED
        BY <1>1, <1>5, <2>1 DEF IsMap, Put
<1>7. Pool' \subseteq seen
    BY <1>2, <1>3, <1>4, <1>5, <1>6 DEF Pool, IInv, Known
<1> QED
    BY <1>1, <1>2, <1>5, <1>6, <1>7

\* The loop goes on after a run whose lease is gone.
LEMMA OnwardInv ==
    ASSUME IInv, pc \in Applied, pc' = Onward, ended' = NoRun,
           UNCHANGED <<effectVars, slots, draining, stop, runs>>,
           IsMap(queue', Urls, Tasks),
           IsMap(leases', Urls, [lease : Leases, req : Request]),
           UNCHANGED granted,
           Pool' \subseteq seen,
           \A u \in DOMAIN queue' : queue'[u].req.url = u,
           DOMAIN leases' \subseteq DOMAIN leases,
           \A u \in DOMAIN leases' :
               leases'[u] = leases[u] /\ leases[u].lease # ended.lease
    PROVE  IInv'
<1> USE DEF effectVars
<1>1. pc' \in {"polling", "closed", "top"} /\ (pc' = "closed" => DOMAIN runs = {})
    BY DEF Onward, Rest
<1>2. TypeOK'
    BY <1>1 DEF IInv, TypeOK
<1>3. Phases' /\ Holders' /\ EveryLeaseIsWorkedOn'
    BY <1>1 DEF IInv, Phases, Applied, Holders, EveryLeaseIsWorkedOn
<1>4. OutcomeHolds' /\ StoredHolds' /\ Keyed' /\ Known'
    BY <1>1 DEF IInv, OutcomeHolds, Applied, StoredHolds, Keyed, Known
<1> QED
    BY <1>2, <1>3, <1>4 DEF IInv

\* Two tasks never have one lease, so the ended run's is its own task's.
LEMMA EndedLease ==
    ASSUME IInv, pc \in Applied, NEW u \in DOMAIN leases, leases[u].lease = ended.lease
    PROVE  u = ended.req.url /\ InForce(ended.req.url, ended.lease)
BY DEF IInv, Holders, InForce

LEMMA ResolveStep ==
    ASSUME IInv, Resolve
    PROVE  IInv'
<1>1. pc = "resolving" /\ pc \in Applied /\ pc' = Onward /\ ended' = NoRun
      /\ UNCHANGED <<effectVars, slots, draining, stop, runs>>
    BY DEF Resolve, Applied
<1>2. CASE Commit
    <2>1. \A u \in DOMAIN leases' : u \in DOMAIN leases /\ leases'[u] = leases[u]
                                    /\ leases[u].lease # ended.lease
        BY <1>1, <1>2, CommitScheduler, EndedLease
    <2> QED
        BY <1>1, <1>2, <2>1, CommitScheduler, OnwardInv
<1>3. CASE Refuse
    <2>1. UNCHANGED <<queue, leases, granted>>
        BY <1>3 DEF Refuse, schedulerVars
    <2>2. \A u \in DOMAIN leases : leases[u].lease # ended.lease
        BY <1>1, <1>3, EndedLease DEF Refuse
    <2>3. Pool' \subseteq seen /\ IsMap(queue', Urls, Tasks)
          /\ IsMap(leases', Urls, [lease : Leases, req : Request])
          /\ \A u \in DOMAIN queue' : queue'[u].req.url = u
        BY <2>1 DEF IInv, TypeOK, Known, Keyed, Pool
    <2> QED
        BY <1>1, <2>1, <2>2, <2>3, OnwardInv
<1> QED
    BY <1>2, <1>3 DEF Resolve

LEMMA GiveUpStep ==
    ASSUME IInv, GiveUp
    PROVE  IInv'
<1>1. pc \in Applied /\ pc' = Onward /\ ended' = NoRun
      /\ UNCHANGED <<effectVars, slots, draining, stop, runs>>
      /\ UNCHANGED <<queue, leases, granted>>
    BY DEF GiveUp, Applied, schedulerVars
<1>2. ~InForce(ended.req.url, ended.lease)
    BY DEF GiveUp, IInv, OutcomeHolds, Applied
<1>3. \A u \in DOMAIN leases : leases[u].lease # ended.lease
    BY <1>1, <1>2, EndedLease
<1>4. Pool' \subseteq seen /\ IsMap(queue', Urls, Tasks)
      /\ IsMap(leases', Urls, [lease : Leases, req : Request])
      /\ \A u \in DOMAIN queue' : queue'[u].req.url = u
    BY <1>1 DEF IInv, TypeOK, Known, Keyed, Pool
<1> QED
    BY <1>1, <1>3, <1>4, OnwardInv

LEMMA ResolveFailsStep ==
    ASSUME IInv, ResolveFails
    PROVE  IInv'
<1>1. pc = "resolving" /\ pc' = "failed" /\ ended' = NoRun /\ runs' = Empty
      /\ UNCHANGED <<effectVars, slots, draining, stop>>
    BY DEF ResolveFails
<1>2. CASE Commit
    BY <1>1, <1>2, CommitScheduler, FailedInv DEF Pool
<1>3. CASE UNCHANGED schedulerVars
    BY <1>1, <1>3, FailedInv DEF schedulerVars, IInv, TypeOK, Keyed, Known, Pool
<1> QED
    BY <1>2, <1>3 DEF ResolveFails

LEMMA IInvNext == IInv /\ [Next]_vars => IInv'
<1> SUFFICES ASSUME IInv, [Next]_vars PROVE IInv'
    OBVIOUS
<1>1. CASE EngineStep
    BY <1>1, SeedStep, ClaimStep, LoopSteps, ClaimFailsStep, PrepareStep, ResolveStep,
       GiveUpStep, ResolveFailsStep DEF EngineStep
<1>2. CASE \E l \in Leases : RunStep(l)
    BY <1>2, StartStep, RespondStep, FetchFailsStep, PlainRunStep DEF RunStep
<1>3. CASE Stop \/ \E u \in Urls : Expire(u)
    BY <1>3, LoopSteps, ExpireStep
<1>4. CASE Over \/ UNCHANGED vars
    BY <1>4 DEF Over, vars, schedulerVars, effectVars, loopVars, IInv, TypeOK, Phases, Holders,
                EveryLeaseIsWorkedOn, OutcomeHolds, StoredHolds, Keyed, Known, Pool, InForce
<1> QED
    BY <1>1, <1>2, <1>3, <1>4 DEF Next

-----------------------------------------------------------------------------
(* The theorems. *)

\* The inductive invariant of the loop, its runs and the scheduler behind it.
THEOREM Inductive == Spec => []IInv
BY IInvInit, IInvNext, PTL DEF Spec

\* The variables keep their types, for any site, chain of hooks and limits; so
\* the retries of a request never pass their bound.
THEOREM TypeCorrect == Spec => []TypeOK
<1>1. IInv => TypeOK
    BY DEF IInv
<1> QED
    BY <1>1, Inductive, PTL

\* No path of a task through the engine loses its lease.
THEOREM LeasesAreWorkedOn == Spec => []EveryLeaseIsWorkedOn
<1>1. IInv => EveryLeaseIsWorkedOn
    BY DEF IInv
<1> QED
    BY <1>1, Inductive, PTL

\* An engine that was stopped leaves no task inflight.
THEOREM StopsAreClean == Spec => []CleanStop
<1>1. IInv => CleanStop
    <2> SUFFICES ASSUME IInv, pc = "closed", NEW u \in DOMAIN leases PROVE FALSE
        BY DEF CleanStop
    <2>1. DOMAIN runs = {} /\ ended.lease = 0
        BY DEF IInv, Phases, Applied, NoRun
    <2>2. leases[u].lease \in {ended.lease}
        BY <2>1 DEF IInv, EveryLeaseIsWorkedOn
    <2> QED
        BY <2>1, <2>2 DEF IInv, Holders
<1> QED
    BY <1>1, Inductive, PTL

\* The step that resolves a task is the only one that takes it out.
LEMMA LeavesStep == IInv /\ [Next]_vars =>
    \A u \in Pool \ Pool' :
        /\ ended.lease # 0 /\ ended.req.url = u
        /\ \/ ended.outcome = "drop"
           \/ ended.outcome = "success" /\ (ended.kept => u \in stored)
           \/ ended.outcome \in {"delay", "retry"} /\ Stray(u)
<1> SUFFICES ASSUME IInv, [Next]_vars, NEW u \in Pool \ Pool'
    PROVE  /\ ended.lease # 0 /\ ended.req.url = u
           /\ \/ ended.outcome = "drop"
              \/ ended.outcome = "success" /\ (ended.kept => u \in stored)
              \/ ended.outcome \in {"delay", "retry"} /\ Stray(u)
    OBVIOUS
<1>1. pc = "resolving" /\ Commit /\ UNCHANGED effectVars
    <2>1. CASE Resolve \/ ResolveFails
        <3>1. ~UNCHANGED schedulerVars
            BY DEF schedulerVars, Pool
        <3> QED
            BY <2>1, <3>1 DEF Resolve, ResolveFails, Refuse
    <2>2. ~(\E v \in Urls : Seed(v) \/ Claim(v) \/ Expire(v))
        <3>1. ASSUME NEW v \in Urls, Seed(v) PROVE Pool \subseteq Pool'
            <4>1. DOMAIN queue' = DOMAIN queue \cup {v} /\ leases' = leases
                BY <3>1 DEF Seed, Put, Field
            <4> QED
                BY <4>1 DEF Pool
        <3>2. ASSUME NEW v \in Urls, Claim(v) PROVE Pool \subseteq Pool'
            <4>1. DOMAIN queue' = DOMAIN queue \ {v}
                BY <3>2 DEF Claim, Del
            <4>2. DOMAIN leases' = DOMAIN leases \cup {v}
                BY <3>2 DEF Claim, Put, Field
            <4> QED
                BY <4>1, <4>2 DEF Pool
        <3>3. ASSUME NEW v \in Urls, Expire(v) PROVE Pool \subseteq Pool'
            <4>1. DOMAIN queue' = DOMAIN queue \cup {v}
                BY <3>3 DEF Expire, Put, Field
            <4>2. DOMAIN leases' = DOMAIN leases \ {v}
                BY <3>3 DEF Expire, Del
            <4> QED
                BY <4>1, <4>2 DEF Pool
        <3> QED
            BY <3>1, <3>2, <3>3
    <2>3. ~UNCHANGED <<queue, leases>>
        BY DEF Pool
    <2>4. CASE \E l \in Leases : RunStep(l)
        BY <2>3, <2>4 DEF RunStep, Start, CheckRobots, Respond, FetchFails, Parse, Store, Succeed,
              OutputFails, HeartbeatFails, schedulerVars
    <2> QED
        BY <2>1, <2>2, <2>3, <2>4
           DEF Next, EngineStep, Seeded, Loop, BeginDrain, EndClaim, ClaimFails, Prepare, GiveUp,
               Stop, Over, vars, schedulerVars
<1>2. ended.req.url = u /\ (ended.outcome # "error" => u \notin DOMAIN ended.tasks)
      /\ ended.outcome # "error"
    BY <1>1, CommitScheduler DEF Pool
<1>3. IsTaskRun(ended) /\ ended.lease # 0 /\ ended.outcome # "lost"
    BY <1>1 DEF IInv, TypeOK, Phases, Applied, NoRun
<1>4. \/ ended.outcome \in {"drop", "success"}
      \/ ended.outcome \in {"delay", "retry"} /\ Stray(u)
    BY <1>1, <1>2, <1>3 DEF IsTaskRun, Outcomes, IInv, Known
<1> QED
    BY <1>1, <1>2, <1>3, <1>4 DEF IInv, OutcomeHolds, Applied

\* A task leaves the scheduler for good only dropped, or done with its items in a
\* store, or as a stray the domain filter refuses when it comes back, whatever
\* domains the spider allows.
THEOREM TasksLeaveWhenDone == Spec => TaskLeavesWhenDone
BY Inductive, LeavesStep, PTL DEF Spec, TaskLeavesWhenDone

-----------------------------------------------------------------------------
(* The concurrency limit. *)

LEMMA DownloadingFinite ==
    ASSUME TypeOK, NEW b
    PROVE  /\ IsFiniteSet(Downloading(b)) /\ Cardinality(Downloading(b)) \in Nat
           /\ \A l \in DOMAIN runs : l \in Leases
<1>1. IsFiniteSet(Leases)
    BY EngineAssumption, FS_Interval DEF Leases
<1>2. Downloading(b) \subseteq Leases
    BY DEF Downloading, TypeOK, IsMap
<1> QED
    BY <1>1, <1>2, FS_Subset, FS_CardinalityType DEF TypeOK, IsMap

\* Downloads may end without giving back their slots.
LEMMA SlotsKept ==
    ASSUME IInv, SlotsTaken,
           \A l \in DOMAIN runs' : runs'[l].at \in {"robots", "fetching"} =>
               /\ l \in DOMAIN runs
               /\ runs[l].at \in {"robots", "fetching"}
               /\ runs'[l].req = runs[l].req,
           slots' \in Slots,
           \A b \in Buckets : slots'[b] >= slots[b]
    PROVE  SlotsTaken'
<1>1. ASSUME NEW b \in Buckets
      PROVE  Cardinality(Downloading(b)') <= slots'[b]
    <2>1. Downloading(b)' \subseteq Downloading(b)
        BY DEF Downloading
    <2>2. Cardinality(Downloading(b)') <= Cardinality(Downloading(b))
          /\ Cardinality(Downloading(b)') \in Nat /\ Cardinality(Downloading(b)) \in Nat
        BY <2>1, DownloadingFinite, FS_Subset, FS_CardinalityType DEF IInv
    <2>3. slots[b] \in Nat /\ slots'[b] \in Nat
        BY DEF IInv, TypeOK, Slots
    <2> QED
        BY <2>2, <2>3 DEF SlotsTaken
<1> QED
    BY <1>1 DEF SlotsTaken

\* A download that ends and finds its mark gives back one slot.
LEMMA SlotsReleased ==
    ASSUME IInv, SlotsTaken, Limited = Urls, NEW l \in DOMAIN runs, runs[l].at = "fetching",
           \A k \in DOMAIN runs' : runs'[k].at \in {"robots", "fetching"} =>
               k \in DOMAIN runs \ {l} /\ runs'[k] = runs[k],
           slots' = ReleaseSlot(runs[l].req, slots).slots
    PROVE  SlotsTaken'
<1>1. runs[l].req \in Request /\ runs[l].req.slot /\ slots \in Slots
    BY RunTypes DEF SlotsTaken
<1>2. ASSUME NEW b \in Buckets
      PROVE  Cardinality(Downloading(b)') <= slots'[b]
    <2>1. /\ IsFiniteSet(Downloading(b)) /\ Cardinality(Downloading(b)) \in Nat
          /\ Cardinality(Downloading(b)) <= slots[b]
        BY DownloadingFinite DEF IInv, SlotsTaken
    <2>2. slots[b] \in Nat
        BY DEF IInv, TypeOK, Slots
    <2>3. Downloading(b)' \subseteq Downloading(b) \ {l}
        BY DEF Downloading
    <2>4. CASE BucketOf[runs[l].req.url] = b
        <3>1. l \in Downloading(b)
            BY <1>1, <2>4 DEF Downloading, Request
        <3>2. IsFiniteSet(Downloading(b) \ {l})
              /\ Cardinality(Downloading(b) \ {l}) = Cardinality(Downloading(b)) - 1
            BY <2>1, <3>1, FS_RemoveElement
        <3>3. Cardinality(Downloading(b)) # 0
            BY <2>1, <3>1, FS_EmptySet
        <3>4. Cardinality(Downloading(b)') <= Cardinality(Downloading(b)) - 1
              /\ Cardinality(Downloading(b)') \in Nat
            BY <2>3, <3>2, FS_Subset, FS_CardinalityType
        <3>5. slots'[b] = slots[b] - 1
            BY <1>1, <2>1, <2>2, <2>4, <3>3 DEF ReleaseSlot, Answer, Slots
        <3> QED
            BY <2>1, <2>2, <3>4, <3>5
    <2>5. CASE BucketOf[runs[l].req.url] # b
        <3>1. slots'[b] = slots[b]
            BY <1>1, <2>5 DEF ReleaseSlot, Answer, Slots
        <3>2. Cardinality(Downloading(b)') <= Cardinality(Downloading(b))
              /\ Cardinality(Downloading(b)') \in Nat
            BY <2>1, <2>3, FS_Subset, FS_CardinalityType
        <3> QED
            BY <2>1, <2>2, <3>1, <3>2
    <2> QED
        BY <2>4, <2>5
<1> QED
    BY <1>2 DEF SlotsTaken

\* What the chain does with the slots: before a download it takes one and marks
\* the request, or goes no further.
LEMMA SlotsBefore ==
    ASSUME Limited = Urls, NEW req \in Request, NEW held \in Slots,
           NEW answer \in BeforeDownload(req, held)
    PROVE  /\ \A b \in Buckets : answer.slots[b] >= held[b]
           /\ answer.flow = "continue" =>
                 /\ answer.req.slot /\ answer.req.url = req.url
                 /\ answer.slots = [held EXCEPT ![BucketOf[req.url]] = @ + 1]
<1> DEFINE taken == TakeSlot(req, held)
<1>1. BucketOf[req.url] \in Buckets /\ req.url \in Limited
    BY HooksAssumption DEF Request, Buckets
<1>2. \A b \in Buckets : held[b] \in Nat
    BY HooksAssumption DEF Slots
<1>3. /\ \A b \in Buckets : taken.slots[b] >= held[b]
      /\ taken.flow = "continue" =>
                 /\ taken.req.slot /\ taken.req.url = req.url
                 /\ taken.slots = [held EXCEPT ![BucketOf[req.url]] = @ + 1]
    BY <1>1, <1>2 DEF TakeSlot, Answer, Slots, Request
<1>4. \/ \E f \in FirstBefore : answer = Answer(f, req, held)
      \/ answer = taken
      \/ \E f \in LastBefore : answer = Answer(f, taken.req, taken.slots)
    BY DEF BeforeDownload, Stops
<1> HIDE DEF taken
<1> QED
    BY <1>2, <1>3, <1>4, HooksAssumption DEF Answer, Stopping

\* After a download it gives the slot back, or stops before it gets there.
LEMMA SlotsAfter ==
    ASSUME NEW req, NEW held, NEW answer \in AfterDownload(req, held)
    PROVE  \/ answer.flow # "continue" /\ answer.slots = held
           \/ answer.slots = ReleaseSlot(req, held).slots
<1> DEFINE released == ReleaseSlot(req, held)
<1>1. \/ \E f \in Retryable(FirstAfter, req) : answer = Answer(f, req, held)
      \/ answer = released
      \/ \E f \in Retryable(LastAfter, req) : answer = Answer(f, released.req, released.slots)
    BY DEF AfterDownload, Stops
<1> HIDE DEF released
<1>2. \/ answer.flow # "continue" /\ answer.slots = held
      \/ answer.slots = released.slots
    BY <1>1, HooksAssumption DEF Answer, Retryable, Stopping
<1> QED
    BY <1>2 DEF released

\* A download that takes its slot.
LEMMA SlotsStart ==
    ASSUME IInv, SlotsTaken, NEW l \in DOMAIN runs, runs[l].at = "waiting", NEW run \in Run,
           run.req.slot, run.req.url = runs[l].req.url,
           runs' = [runs EXCEPT ![l] = run],
           slots' = [slots EXCEPT ![BucketOf[runs[l].req.url]] = @ + 1]
    PROVE  SlotsTaken'
<1>1. ASSUME NEW b \in Buckets
      PROVE  Cardinality(Downloading(b)') <= slots'[b]
    <2>1. /\ IsFiniteSet(Downloading(b)) /\ Cardinality(Downloading(b)) \in Nat
          /\ Cardinality(Downloading(b)) <= slots[b] /\ slots[b] \in Nat /\ slots \in Slots
        BY DownloadingFinite DEF IInv, SlotsTaken, TypeOK, Slots
    <2>2. l \notin Downloading(b)
        BY DEF Downloading
    <2>3. CASE BucketOf[runs[l].req.url] = b
        <3>1. Downloading(b)' \subseteq Downloading(b) \cup {l}
            BY DEF Downloading
        <3>2. IsFiniteSet(Downloading(b) \cup {l})
              /\ Cardinality(Downloading(b) \cup {l}) = Cardinality(Downloading(b)) + 1
            BY <2>1, <2>2, FS_AddElement
        <3>3. Cardinality(Downloading(b)') <= Cardinality(Downloading(b)) + 1
              /\ Cardinality(Downloading(b)') \in Nat
            BY <3>1, <3>2, FS_Subset, FS_CardinalityType
        <3>4. slots'[b] = slots[b] + 1
            BY <2>1, <2>3 DEF Slots
        <3> QED
            BY <2>1, <3>3, <3>4
    <2>4. CASE BucketOf[runs[l].req.url] # b
        <3>1. Downloading(b)' \subseteq Downloading(b)
            BY <2>4 DEF Downloading
        <3>2. Cardinality(Downloading(b)') <= Cardinality(Downloading(b))
              /\ Cardinality(Downloading(b)') \in Nat
            BY <2>1, <3>1, FS_Subset, FS_CardinalityType
        <3>3. slots'[b] = slots[b]
            BY <2>1, <2>4 DEF Slots
        <3> QED
            BY <2>1, <3>2, <3>3
    <2> QED
        BY <2>3, <2>4
<1>2. \A k \in DOMAIN runs' : runs'[k].at \in {"robots", "fetching"} => runs'[k].req.slot
    BY DEF SlotsTaken
<1> QED
    BY <1>1, <1>2 DEF SlotsTaken

LEMMA StartSlots ==
    ASSUME Limited = Urls, IInv, SlotsTaken, NEW l \in Leases, Start(l)
    PROVE  SlotsTaken'
<1>1. l \in DOMAIN runs /\ runs[l].at = "waiting"
      /\ runs[l] \in Run /\ runs[l].req \in Request /\ slots \in Slots
    BY RunTypes DEF Start
<1>2. PICK answer \in BeforeDownload(runs[l].req, slots) :
          /\ slots' = answer.slots
          /\ IF answer.flow = "continue"
             THEN Advance(l, [runs[l] EXCEPT !.req = answer.req, !.at = "robots"])
             ELSE Stopped(l, answer)
    BY DEF Start
<1>3. IsAnswer(answer, runs[l].req)
    BY <1>1, BeforeDownloadAnswers
<1>4. /\ \A b \in Buckets : answer.slots[b] >= slots[b]
      /\ answer.flow = "continue" =>
            /\ answer.req.slot /\ answer.req.url = runs[l].req.url
            /\ answer.slots = [slots EXCEPT ![BucketOf[runs[l].req.url]] = @ + 1]
    BY <1>1, SlotsBefore
<1>5. CASE answer.flow = "continue"
    <2> DEFINE run == [runs[l] EXCEPT !.req = answer.req, !.at = "robots"]
    <2>1. run \in Run /\ run.req = answer.req
        BY <1>1, <1>3 DEF Run, IsAnswer
    <2>2. runs' = [runs EXCEPT ![l] = run]
        BY <1>2, <1>5 DEF Advance
    <2> HIDE DEF run
    <2> QED
        BY <1>1, <1>2, <1>4, <1>5, <2>1, <2>2, SlotsStart
<1>6. CASE answer.flow # "continue"
    <2>1. runs' = Del(runs, {l})
        BY <1>2, <1>6 DEF Stopped, End
    <2>2. slots' \in Slots /\ \A b \in Buckets : slots'[b] >= slots[b]
        BY <1>2, <1>3, <1>4 DEF IsAnswer
    <2>3. \A k \in DOMAIN runs' : k \in DOMAIN runs /\ runs'[k] = runs[k]
        BY <2>1 DEF Del
    <2> QED
        BY <2>2, <2>3, SlotsKept
<1> QED
    BY <1>5, <1>6

LEMMA AfterSlots ==
    ASSUME Limited = Urls, IInv, SlotsTaken, NEW l \in Leases, Respond(l) \/ FetchFails(l)
    PROVE  SlotsTaken'
<1>1. l \in DOMAIN runs /\ runs[l].at = "fetching" /\ slots \in Slots
      /\ runs[l] \in Run /\ IsMap(runs, Leases, Run)
    BY RunTypes DEF Respond, FetchFails, IInv, TypeOK
<1>2. PICK answer \in AfterDownload(runs[l].req, slots) :
          /\ slots' = answer.slots
          /\ \/ answer.flow = "continue" /\ \E run : run.at \in {"parsing", "output"} /\ Advance(l, run)
             \/ \E outcome, req : End(l, outcome, req)
    <2>1. CASE Respond(l)
        <3>1. PICK answer \in AfterDownload(runs[l].req, slots) :
                  /\ slots' = answer.slots
                  /\ IF answer.flow = "continue"
                     THEN Advance(l, [req |-> answer.req, at |-> "parsing",
                                      fetched |-> runs[l].req])
                     ELSE Stopped(l, answer)
            BY <2>1 DEF Respond
        <3>2. [req |-> answer.req, at |-> "parsing", fetched |-> runs[l].req].at = "parsing"
            OBVIOUS
        <3> QED
            BY <3>1, <3>2 DEF Stopped
    <2>2. CASE FetchFails(l)
        <3>1. PICK answer \in AfterDownload(runs[l].req, slots) :
                  /\ slots' = answer.slots
                  /\ IF answer.flow = "continue"
                     THEN \/ Advance(l, [runs[l] EXCEPT !.req = answer.req, !.at = "output"])
                          \/ End(l, "error", answer.req)
                     ELSE Stopped(l, answer)
            BY <2>2 DEF FetchFails
        <3> DEFINE run == [runs[l] EXCEPT !.req = answer.req, !.at = "output"]
        <3>2. run.at = "output"
            BY <1>1 DEF Run
        <3>3. \/ answer.flow = "continue" /\ Advance(l, run)
              \/ End(l, "error", answer.req)
              \/ End(l, answer.flow, answer.req)
            BY <3>1 DEF Stopped
        <3> HIDE DEF run
        <3> QED
            BY <3>1, <3>2, <3>3
    <2> QED
        BY <2>1, <2>2
<1>3. \A k \in DOMAIN runs' : runs'[k].at \in {"robots", "fetching"} =>
          k \in DOMAIN runs \ {l} /\ runs'[k] = runs[k]
    <2>1. CASE \E run : run.at \in {"parsing", "output"} /\ Advance(l, run)
        BY <1>1, <2>1 DEF Advance, IsMap
    <2>2. CASE \E outcome, req : End(l, outcome, req)
        BY <1>1, <2>2 DEF End, Del
    <2> QED
        BY <1>2, <2>1, <2>2
<1>4. CASE slots' = slots
    <2>1. \A b \in Buckets : slots'[b] >= slots[b]
        BY <1>1, <1>4, HooksAssumption DEF Slots
    <2> QED
        BY <1>1, <1>3, <1>4, <2>1, SlotsKept
<1>5. CASE slots' = ReleaseSlot(runs[l].req, slots).slots
    BY <1>1, <1>3, <1>5, SlotsReleased
<1> QED
    BY <1>2, <1>4, <1>5, SlotsAfter

\* The other steps leave the slots alone and start no download.
LEMMA OtherSlots ==
    ASSUME IInv, [Next]_vars, \A l \in Leases : ~(Start(l) \/ Respond(l) \/ FetchFails(l))
    PROVE  /\ slots' = slots
           /\ \A l \in DOMAIN runs' : runs'[l].at \in {"robots", "fetching"} =>
                 /\ l \in DOMAIN runs
                 /\ runs[l].at \in {"robots", "fetching"}
                 /\ runs'[l].req = runs[l].req
<1>1. IsMap(runs, Leases, Run)
    BY DEF IInv, TypeOK
<1>2. CASE UNCHANGED <<slots, runs>>
    BY <1>2
<1>3. CASE ClaimFails \/ ResolveFails
    BY <1>3 DEF ClaimFails, ResolveFails, Empty
<1>4. ASSUME NEW u \in Urls, Claim(u)
      PROVE  slots' = slots /\ \A l \in DOMAIN runs' :
                 runs'[l].at # "waiting" => l \in DOMAIN runs /\ runs'[l] = runs[l]
    <2> DEFINE run == [req |-> queue[u].req, at |-> "waiting", fetched |-> NewRequest(u)]
    <2>1. run.at = "waiting" /\ slots' = slots
          /\ runs' = Put(runs, Field(granted', run))
        BY <1>4 DEF Claim
    <2> HIDE DEF run
    <2> QED
        BY <2>1 DEF Put, Field
<1>5. ASSUME NEW l \in Leases, CheckRobots(l) \/ Parse(l) \/ Store(l) \/ Succeed(l)
                               \/ OutputFails(l) \/ HeartbeatFails(l)
      PROVE  /\ slots' = slots
             /\ \A k \in DOMAIN runs' : runs'[k].at \in {"robots", "fetching"} =>
                   /\ k \in DOMAIN runs
                   /\ runs[k].at \in {"robots", "fetching"}
                   /\ runs'[k].req = runs[k].req
    <2>1. l \in DOMAIN runs /\ slots' = slots
        BY <1>5 DEF CheckRobots, Parse, Store, Succeed, OutputFails, HeartbeatFails
    <2>2. \/ runs' = Del(runs, {l})
          \/ runs[l].at = "robots" /\ runs' = [runs EXCEPT ![l] = [runs[l] EXCEPT !.at = "fetching"]]
          \/ \E at \in {"output", "stored"} : runs' = [runs EXCEPT ![l] = [runs[l] EXCEPT !.at = at]]
        BY <1>5 DEF CheckRobots, Parse, Store, Succeed, OutputFails, HeartbeatFails, Advance, End
    <2> QED
        BY <1>1, <2>1, <2>2 DEF IsMap, Run, Del
<1> QED
    BY <1>2, <1>3, <1>4, <1>5
       DEF Next, EngineStep, RunStep, Seed, Seeded, Loop, BeginDrain, EndClaim, Prepare, Resolve,
           GiveUp, Stop, Expire, Over, vars

LEMMA SlotsNext ==
    ASSUME Limited = Urls, IInv, SlotsTaken, [Next]_vars
    PROVE  SlotsTaken'
<1>1. CASE \E l \in Leases : Start(l) \/ Respond(l) \/ FetchFails(l)
    BY <1>1, StartSlots, AfterSlots
<1>2. CASE \A l \in Leases : ~(Start(l) \/ Respond(l) \/ FetchFails(l))
    <2>1. slots' \in Slots /\ \A b \in Buckets : slots'[b] >= slots[b]
        BY <1>2, OtherSlots, HooksAssumption DEF IInv, TypeOK, Slots
    <2> QED
        BY <1>2, <2>1, OtherSlots, SlotsKept
<1> QED
    BY <1>1, <1>2

LEMMA SlotsInit == Init => SlotsTaken
<1> SUFFICES ASSUME Init PROVE SlotsTaken
    OBVIOUS
<1>1. DOMAIN runs = {}
    BY DEF Init, Empty
<1>2. ASSUME NEW b \in Buckets PROVE Cardinality(Downloading(b)) <= slots[b]
    <2>1. Downloading(b) = {}
        BY <1>1 DEF Downloading
    <2>2. slots[b] = 0 /\ Cardinality({}) = 0
        BY FS_EmptySet DEF Init
    <2> QED
        BY <2>1, <2>2
<1> QED
    BY <1>1, <1>2 DEF SlotsTaken

\* The downloads of a bucket never pass its limit, if no request overrides it:
\* every download has a slot of its own, whatever slots are lost beside it.
THEOREM LimitHolds == Limited = Urls => (Spec => []DownloadsWithinLimit)
<1>1. IInv /\ SlotsTaken => DownloadsWithinLimit
    <2> SUFFICES ASSUME IInv, SlotsTaken, NEW b \in Buckets
        PROVE  Cardinality(Downloading(b)) <= Limit
        BY DEF DownloadsWithinLimit
    <2>1. slots[b] \in Nat /\ slots[b] <= Limit /\ Limit \in Nat
        BY HooksAssumption DEF IInv, TypeOK
    <2> QED
        BY <2>1, DownloadingFinite DEF IInv, SlotsTaken
<1> SUFFICES ASSUME Limited = Urls PROVE Spec => []DownloadsWithinLimit
    OBVIOUS
<1>2. IInv /\ SlotsTaken /\ [Next]_vars => SlotsTaken'
    BY SlotsNext
<1> QED
    BY <1>1, <1>2, SlotsInit, Inductive, PTL DEF Spec

-----------------------------------------------------------------------------
(* The contract of the scheduler. *)

\* A step that leaves the scheduler alone and works under no new lease.
LEMMA ForgetStep ==
    ASSUME UNCHANGED schedulerVars, Handed' \subseteq Handed
    PROVE  TaskPool!Next
BY DEF schedulerVars, Running, TaskPool!Next, TaskPool!Forget

\* A run that ends, or goes on with the same page, is the same pair.
LEMMA AdvanceHanded ==
    ASSUME IInv, pc = "polling", NEW l \in DOMAIN runs, NEW run, Advance(l, run),
           run.req.url = runs[l].req.url
    PROVE  Handed' \subseteq Handed
BY DEF Advance, Handed, IInv, TypeOK, IsMap

LEMMA EndHanded ==
    ASSUME IInv, pc = "polling", NEW l \in DOMAIN runs, NEW outcome, NEW req,
           End(l, outcome, req), req.url = runs[l].req.url
    PROVE  Handed' \subseteq Handed
<1>1. runs' = Del(runs, {l}) /\ ended'.lease = l /\ ended'.req = req
    BY DEF End
<1>2. DOMAIN runs' = DOMAIN runs \ {l} /\ \A k \in DOMAIN runs' : runs'[k] = runs[k]
    BY <1>1 DEF Del
<1> QED
    BY <1>1, <1>2 DEF Handed

LEMMA AnswerHanded ==
    ASSUME IInv, pc = "polling", NEW l \in DOMAIN runs, NEW answer, NEW run,
           answer.req.url = runs[l].req.url, run.req = answer.req,
           Advance(l, run) \/ Stopped(l, answer) \/ End(l, "error", answer.req)
    PROVE  Handed' \subseteq Handed
BY AdvanceHanded, EndHanded DEF Stopped

\* Each step of a run is a step of its worker only.
LEMMA RunStepHanded ==
    ASSUME IInv, NEW l \in Leases, RunStep(l)
    PROVE  UNCHANGED schedulerVars /\ Handed' \subseteq Handed
<1>1. pc = "polling" /\ l \in DOMAIN runs /\ UNCHANGED schedulerVars
      /\ runs[l] \in Run /\ runs[l].req \in Request /\ slots \in Slots
    BY RunTypes DEF RunStep, Start, CheckRobots, Respond, FetchFails, Parse, Store, Succeed,
                    OutputFails, HeartbeatFails
<1>2. \/ \E at : Advance(l, [runs[l] EXCEPT !.at = at])
      \/ \E outcome : End(l, outcome, runs[l].req)
      \/ Start(l) \/ Respond(l) \/ FetchFails(l)
    BY DEF RunStep, CheckRobots, Parse, Store, Succeed, OutputFails, HeartbeatFails
<1>3. ASSUME NEW at, Advance(l, [runs[l] EXCEPT !.at = at])
      PROVE  Handed' \subseteq Handed
    <2> DEFINE run == [runs[l] EXCEPT !.at = at]
    <2>1. run.req = runs[l].req /\ Advance(l, run)
        BY <1>1, <1>3 DEF Run
    <2> HIDE DEF run
    <2> QED
        BY <1>1, <2>1, AdvanceHanded
<1>4. CASE \E outcome : End(l, outcome, runs[l].req)
    BY <1>1, <1>4, EndHanded
<1>5. CASE Start(l)
    <2>1. PICK answer \in BeforeDownload(runs[l].req, slots) :
              \/ Advance(l, [runs[l] EXCEPT !.req = answer.req, !.at = "robots"])
              \/ Stopped(l, answer)
        BY <1>5 DEF Start
    <2> DEFINE run == [runs[l] EXCEPT !.req = answer.req, !.at = "robots"]
    <2>2. answer.req.url = runs[l].req.url /\ run.req = answer.req
        BY <1>1, BeforeDownloadAnswers DEF IsAnswer, Run
    <2>3. Advance(l, run) \/ Stopped(l, answer)
        BY <2>1
    <2> HIDE DEF run
    <2> QED
        BY <1>1, <2>2, <2>3, AnswerHanded
<1>6. CASE Respond(l)
    <2>1. PICK answer \in AfterDownload(runs[l].req, slots) :
              \/ Advance(l, [req |-> answer.req, at |-> "parsing", fetched |-> runs[l].req])
              \/ Stopped(l, answer)
        BY <1>6 DEF Respond
    <2> DEFINE run == [req |-> answer.req, at |-> "parsing", fetched |-> runs[l].req]
    <2>2. answer.req.url = runs[l].req.url /\ run.req = answer.req
        BY <1>1, AfterDownloadAnswers DEF IsAnswer
    <2>3. Advance(l, run) \/ Stopped(l, answer)
        BY <2>1
    <2> HIDE DEF run
    <2> QED
        BY <1>1, <2>2, <2>3, AnswerHanded
<1>7. CASE FetchFails(l)
    <2>1. PICK answer \in AfterDownload(runs[l].req, slots) :
              \/ Advance(l, [runs[l] EXCEPT !.req = answer.req, !.at = "output"])
              \/ End(l, "error", answer.req)
              \/ Stopped(l, answer)
        BY <1>7 DEF FetchFails
    <2> DEFINE run == [runs[l] EXCEPT !.req = answer.req, !.at = "output"]
    <2>2. answer.req.url = runs[l].req.url /\ run.req = answer.req
        BY <1>1, AfterDownloadAnswers DEF IsAnswer, Run
    <2>3. Advance(l, run) \/ End(l, "error", answer.req) \/ Stopped(l, answer)
        BY <2>1
    <2> HIDE DEF run
    <2> QED
        BY <1>1, <2>2, <2>3, AnswerHanded
<1> QED
    BY <1>1, <1>2, <1>3, <1>4, <1>5, <1>6, <1>7

LEMMA SeedRefines ==
    ASSUME IInv, NEW u \in Urls, Seed(u)
    PROVE  TaskPool!Submit(u)
<1>1. DOMAIN queue' = DOMAIN queue \cup {u} /\ UNCHANGED <<leases, granted, runs, ended>>
    BY DEF Seed, Put, Field
<1>2. u \notin DOMAIN queue /\ u \notin DOMAIN Running
    BY DEF Seed, IInv, Known, Pool, Running
<1>3. Running' = Running /\ Handed' = Handed
    BY <1>1 DEF Running, Handed
<1> QED
    BY <1>1, <1>2, <1>3 DEF TaskPool!Submit, TaskPool!Pool

LEMMA ClaimRefines ==
    ASSUME IInv, NEW u \in Urls, Claim(u)
    PROVE  TaskPool!Claim(u, {})
<1> DEFINE run == [req |-> queue[u].req, at |-> "waiting", fetched |-> NewRequest(u)]
           lease == [lease |-> granted', req |-> queue[u].req]
<1>1. /\ u \in DOMAIN queue /\ granted' = granted + 1
      /\ DOMAIN queue' = DOMAIN queue \ {u}
      /\ leases' = Put(leases, Field(u, lease))
      /\ runs' = Put(runs, Field(granted', run))
      /\ pc = "claiming" /\ ended' = ended
    BY DEF Claim, Del
<1>2. lease.lease = granted' /\ run.req.url = u
    BY <1>1 DEF IInv, Keyed
<1> HIDE DEF run, lease
<1>3. /\ DOMAIN leases' = DOMAIN leases \cup {u}
      /\ \A v \in DOMAIN leases' : leases'[v] = IF v = u THEN lease ELSE leases[v]
    BY <1>1 DEF Put, Field
<1>4. /\ DOMAIN runs' = DOMAIN runs \cup {granted'}
      /\ \A k \in DOMAIN runs' : runs'[k] = IF k = granted' THEN run ELSE runs[k]
    BY <1>1 DEF Put, Field
<1>5. Running' = [j \in (DOMAIN Running \ {}) \cup {u} |-> IF j = u THEN granted' ELSE Running[j]]
    BY <1>2, <1>3 DEF Running
<1>6. granted' \notin DOMAIN runs
    BY <1>1 DEF IInv, Holders, TypeOK
<1>7. Handed' = Handed \cup {<<u, granted'>>}
    <2>1. ended = NoRun
        BY <1>1 DEF IInv, Phases, Applied
    <2>2. {<<runs'[k].req.url, k>> : k \in DOMAIN runs'} =
              {<<runs[k].req.url, k>> : k \in DOMAIN runs} \cup {<<u, granted'>>}
        BY <1>2, <1>4, <1>6
    <2> QED
        BY <1>1, <2>1, <2>2 DEF Handed
<1> QED
    BY <1>1, <1>5, <1>7 DEF TaskPool!Claim

LEMMA ExpireRefines ==
    ASSUME IInv, NEW u \in Urls, Expire(u)
    PROVE  TaskPool!GiveBack({u})
<1>1. /\ u \in DOMAIN leases /\ leases' = Del(leases, {u})
      /\ DOMAIN queue' = DOMAIN queue \cup {u}
      /\ UNCHANGED <<granted, runs, ended>>
    BY DEF Expire, Put, Field
<1>2. DOMAIN leases' = DOMAIN leases \ {u} /\ \A v \in DOMAIN leases' : leases'[v] = leases[v]
    BY <1>1 DEF Del
<1>3. Running' = [i \in DOMAIN Running \ {u} |-> Running[i]] /\ u \in DOMAIN Running
    BY <1>1, <1>2 DEF Running
<1>4. Handed' = Handed
    BY <1>1 DEF Handed
<1> QED
    BY <1>1, <1>3, <1>4 DEF TaskPool!GiveBack, TaskPool!Without

\* The engine resolves a task under the lease it was handed, and puts no task the
\* scheduler has.
LEMMA CommitRefines ==
    ASSUME IInv, pc = "resolving", Commit, ended' = NoRun, runs' = runs \/ runs' = Empty
    PROVE  \/ TaskPool!GiveBack({ended.req.url})
           \/ TaskPool!Finish(ended.req.url, DOMAIN ended.tasks)
<1> DEFINE u == ended.req.url
           back == IF ended.outcome = "error" THEN Field(u, Immediate(leases[u].req))
                   ELSE ended.tasks
<1>1. /\ u \in DOMAIN leases /\ leases[u].lease = ended.lease /\ granted' = granted
      /\ leases' = Del(leases, {u}) /\ queue' = Put(queue, back)
    BY DEF Commit, InForce
<1>2. DOMAIN back = IF ended.outcome = "error" THEN {u} ELSE DOMAIN ended.tasks
    BY DEF Field
<1> HIDE DEF back
<1>3. DOMAIN queue' = DOMAIN queue \cup DOMAIN back
    BY <1>1 DEF Put
<1>4. DOMAIN leases' = DOMAIN leases \ {u} /\ \A v \in DOMAIN leases' : leases'[v] = leases[v]
    BY <1>1 DEF Del
<1>5. Running' = [i \in DOMAIN Running \ {u} |-> Running[i]] /\ u \in DOMAIN Running
      /\ Running[u] = ended.lease
    BY <1>1, <1>4 DEF Running
<1>6. ended.lease \notin DOMAIN runs /\ IsTaskRun(ended) /\ ended # NoRun /\ ended.lease # 0
    BY DEF IInv, TypeOK, Phases, Applied, NoRun
<1>7. <<u, Running[u]>> \in Handed /\ Handed' \subseteq Handed \ {<<u, Running[u]>>}
    BY <1>5, <1>6 DEF Handed, Empty
<1>8. CASE ended.outcome = "error"
    BY <1>1, <1>2, <1>3, <1>5, <1>7, <1>8 DEF TaskPool!GiveBack, TaskPool!Without
<1>9. CASE ended.outcome # "error"
    <2>1. u \in Urls /\ DOMAIN ended.tasks \subseteq Urls
        BY <1>6 DEF IsTaskRun, IsMap, Request
    <2>2. DOMAIN ended.tasks \cap Pool \subseteq {u}
        BY DEF IInv, Known
    <2>3. DOMAIN Running = DOMAIN leases
        BY DEF Running
    <2>4. DOMAIN ended.tasks \subseteq Urls \ (TaskPool!Pool \ {u})
        BY <2>1, <2>2, <2>3 DEF Pool, TaskPool!Pool
    <2> QED
        BY <1>1, <1>2, <1>3, <1>5, <1>7, <1>9, <2>4 DEF TaskPool!Finish, TaskPool!Without
<1> QED
    BY <1>8, <1>9

LEMMA RefinesNext == IInv /\ [Next]_vars => [TaskPool!Next]_(TaskPool!vars)
<1> SUFFICES ASSUME IInv, [Next]_vars PROVE TaskPool!Next \/ UNCHANGED TaskPool!vars
    OBVIOUS
<1>1. CASE \E u \in Urls : Seed(u) \/ Claim(u) \/ Expire(u)
    BY <1>1, SeedRefines, ClaimRefines, ExpireRefines DEF TaskPool!Next
<1>2. CASE \E l \in Leases : RunStep(l)
    BY <1>2, RunStepHanded, ForgetStep
<1>3. CASE (Resolve \/ ResolveFails) /\ Commit
    <2>1. pc = "resolving" /\ ended' = NoRun /\ (runs' = runs \/ runs' = Empty)
        BY <1>3 DEF Resolve, ResolveFails
    <2>2. ended.req.url \in Urls /\ DOMAIN ended.tasks \subseteq Urls
        BY <2>1 DEF IInv, TypeOK, Phases, Applied, NoRun, IsTaskRun, IsMap, Request
    <2> QED
        BY <1>3, <2>1, <2>2, CommitRefines DEF TaskPool!Next
<1>4. CASE UNCHANGED schedulerVars /\ UNCHANGED runs /\ ended' \in {ended, NoRun}
    BY <1>4, ForgetStep DEF Handed
<1>5. CASE UNCHANGED schedulerVars /\ runs' = Empty /\ ended' \in {ended, NoRun}
    BY <1>5, ForgetStep DEF Handed, Empty
<1>6. CASE Prepare
    <2>1. UNCHANGED schedulerVars /\ runs' = runs /\ pc = "applying"
        BY <1>6 DEF Prepare
    <2>2. IsTaskRun(ended) /\ ended # NoRun
        BY <2>1 DEF IInv, TypeOK, Phases, Applied, NoRun
    <2>3. ended'.req = ended.req /\ ended'.lease = ended.lease
        BY <1>6, <2>2 DEF Prepare, IsTaskRun
    <2> QED
        BY <2>1, <2>2, <2>3, ForgetStep DEF Handed
<1> QED
    BY <1>1, <1>2, <1>3, <1>4, <1>5, <1>6
       DEF Next, EngineStep, Seeded, Loop, BeginDrain, EndClaim, ClaimFails, Resolve, Refuse,
           GiveUp, ResolveFails, Stop, Over, vars, schedulerVars

\* The engine keeps to the contract of the scheduler: each of its steps is one
\* the contract allows, and so are those of the scheduler behind it.
THEOREM Implements == Spec => ImplementsTaskPool
<1>1. Init => TaskPool!Init
    <2> SUFFICES ASSUME Init PROVE TaskPool!Init
        OBVIOUS
    <2>1. DOMAIN queue = {} /\ DOMAIN leases = {} /\ DOMAIN runs = {} /\ granted = 0
          /\ ended = NoRun
        BY DEF Init, Empty
    <2>2. Running = [i \in {} |-> 0] /\ Handed = {}
        BY <2>1 DEF Running, Handed
    <2> QED
        BY <2>1, <2>2 DEF TaskPool!Init
<1> QED
    BY <1>1, RefinesNext, Inductive, PTL DEF Spec, ImplementsTaskPool, TaskPool!Spec

=============================================================================
