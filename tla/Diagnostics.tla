---------------------------- MODULE Diagnostics ----------------------------
(***************************************************************************)
(* The cached health check behind one HTTP endpoint of WikiNext:           *)
(* AppServices::readiness (GET /readyz) and AppServices::search_status     *)
(* (GET /status/search) of crates/app/src/runtime.rs, under the timeout    *)
(* layer of crates/server/src/lib.rs.  The two handlers have the same      *)
(* shape - lock the cache, answer from it while it is fresh, otherwise     *)
(* probe every dependency with the lock held and store the report - and    *)
(* differ only in what they probe, so they are one module whose constants  *)
(* name the dependencies.                                                  *)
(*                                                                         *)
(* A handler is a Rust future.  It is dropped at its current await when    *)
(* the request's deadline passes or its client goes away, which releases   *)
(* the cache lock (or its place in the lock's queue) and abandons the      *)
(* probe, without writing the cache.                                       *)
(*                                                                         *)
(* Time is counted in ticks.  No variable holds a clock: every age is      *)
(* relative and bounded by the deadline that it is compared with.          *)
(***************************************************************************)
EXTENDS Naturals, FiniteSets

CONSTANTS
  Requests,       \* the clients of the endpoint, each with one request at a time
  Components,     \* the dependencies this endpoint probes
  Stages,         \* the calls that one probe of each component makes in turn
  StageTimeout,   \* the deadline of one such call, 0 where it has none
  AnswerTime,     \* ticks within which a component that is up answers a call
  CacheTtl,       \* DIAGNOSTIC_CACHE_TTL
  RequestTimeout  \* server.request_timeout

\* A component that is up beats the deadline of a call; storage calls have none.
ASSUME ParametersAssumption ==
  /\ IsFiniteSet(Requests)
  /\ Stages \in [Components -> Nat \ {0}]
  /\ StageTimeout \in [Components -> Nat]
  /\ AnswerTime \in Nat
  /\ \A c \in Components : StageTimeout[c] = 0 \/ AnswerTime < StageTimeout[c]
  /\ CacheTtl \in Nat \ {0}
  /\ RequestTimeout \in Nat \ {0}

VARIABLES
  pc,        \* where each client is: idle, waiting in the handler, or answered
  age,       \* ticks since each pending request arrived
  ahead,     \* the requests ahead of each one in the queue of the cache lock
  probe,     \* the running probe of each component, or its result
  stage,     \* the call each probe is at
  stageAge,  \* ticks since that call was made
  cache,     \* the verdict of the cached report
  cacheAge,  \* ticks since it was stored
  up,        \* environment: whether each component works
  since      \* ticks since up last changed (observed by the properties only)

probeVars == <<probe, stage, stageAge>>
cacheVars == <<cache, cacheAge>>
envVars   == <<up, since>>
vars == <<pc, age, ahead, probe, stage, stageAge, cache, cacheAge, up, since>>

-----------------------------------------------------------------------------
(* Ages beyond these bounds make no difference to any guard or property.   *)

Horizon == RequestTimeout + CacheTtl

Later(n, bound) == IF n < bound THEN n + 1 ELSE n

-----------------------------------------------------------------------------
Pending == {"queued", "probing"}
Answers == {"ok", "unavailable", "gateway_timeout"}   \* HTTP 200, 503, 504

InQueue == {r \in Requests : pc[r] \in Pending}

\* tokio's Mutex is fair: the lock belongs to the head of the queue.
HoldsLock(r) == pc[r] \in Pending /\ ahead[r] = {}

\* Mutants of Fresh: off by one; a failed report that never expires.
FreshTooLong == cache # "empty" /\ cacheAge <= CacheTtl
FreshFailure == cache = "unhealthy" \/ (cache = "healthy" /\ cacheAge < CacheTtl)

Fresh == cache # "empty" /\ cacheAge < CacheTtl

ReportHealthy == \A c \in Components : probe[c] = "ok"

ProbesDone == \A c \in Components : probe[c] # "running"

Status(healthy) == IF healthy THEN "ok" ELSE "unavailable"

\* Mutant of LeaveLock: the guard is never released.
LeaveLockLeaked(r) == ahead' = [ahead EXCEPT ![r] = {}]

\* Dropping the guard, or the place in the queue, of request r.
LeaveLock(r) ==
  ahead' = [s \in Requests |-> IF s = r THEN {} ELSE ahead[s] \ {r}]

NoProbe ==
  /\ probe' = [c \in Components |-> "off"]
  /\ stage' = [c \in Components |-> 1]
  /\ stageAge' = [c \in Components |-> 0]

Answer(r, status) ==
  /\ pc' = [pc EXCEPT ![r] = status]
  /\ age' = [age EXCEPT ![r] = 0]
  /\ LeaveLock(r)

\* Mutant of DropHandler: an abandoned probe is stored as a failed report.
DropHandlerCaching(r, status) ==
  /\ Answer(r, status)
  /\ IF pc[r] = "probing"
       THEN NoProbe /\ cache' = "unhealthy" /\ cacheAge' = 0
       ELSE UNCHANGED <<probeVars, cacheVars>>
  /\ UNCHANGED envVars

\* A handler's future is dropped wherever it waits.
DropHandler(r, status) ==
  /\ Answer(r, status)
  /\ IF pc[r] = "probing" THEN NoProbe ELSE UNCHANGED probeVars
  /\ UNCHANGED <<cacheVars, envVars>>

Init ==
  /\ pc = [r \in Requests |-> "idle"]
  /\ age = [r \in Requests |-> 0]
  /\ ahead = [r \in Requests |-> {}]
  /\ probe = [c \in Components |-> "off"]
  /\ stage = [c \in Components |-> 1]
  /\ stageAge = [c \in Components |-> 0]
  /\ cache = "empty"
  /\ cacheAge = 0
  \* connect() has just found every component working, or it failed since.
  /\ up \in [Components -> BOOLEAN]
  /\ since = [c \in Components |-> 0]

-----------------------------------------------------------------------------
(* The handler.                                                            *)

\* A request reaches the handler and calls lock().await.
Arrive(r) ==
  /\ pc[r] = "idle"
  /\ pc' = [pc EXCEPT ![r] = "queued"]
  /\ ahead' = [ahead EXCEPT ![r] = InQueue]
  /\ UNCHANGED <<age, probeVars, cacheVars, envVars>>

\* The lock is acquired and the cached report is fresh: answer from it.
ServeCached(r) ==
  /\ pc[r] = "queued"
  /\ HoldsLock(r)
  /\ Fresh
  /\ Answer(r, Status(cache = "healthy"))
  /\ UNCHANGED <<probeVars, cacheVars, envVars>>

\* Mutant of StartProbe: the cache is not looked at again under the lock.
StartProbeUnchecked(r) ==
  /\ pc[r] = "queued"
  /\ HoldsLock(r)
  /\ pc' = [pc EXCEPT ![r] = "probing"]
  /\ probe' = [c \in Components |-> "running"]
  /\ UNCHANGED <<age, ahead, stage, stageAge, cacheVars, envVars>>

\* The lock is acquired and there is no fresh report: probe every component.
StartProbe(r) ==
  /\ pc[r] = "queued"
  /\ HoldsLock(r)
  /\ ~Fresh
  /\ pc' = [pc EXCEPT ![r] = "probing"]
  /\ probe' = [c \in Components |-> "running"]
  /\ UNCHANGED <<age, ahead, stage, stageAge, cacheVars, envVars>>

\* Mutant of StageOk: one call too many.
StageOkOneMore(c) ==
  /\ probe[c] = "running"
  /\ up[c]
  /\ IF stage[c] <= Stages[c]
       THEN stage' = [stage EXCEPT ![c] = @ + 1] /\ UNCHANGED probe
       ELSE probe' = [probe EXCEPT ![c] = "ok"] /\ UNCHANGED stage
  /\ stageAge' = [stageAge EXCEPT ![c] = 0]
  /\ UNCHANGED <<pc, age, ahead, cacheVars, envVars>>

\* A call of the probe of c returns what a working component returns.
StageOk(c) ==
  /\ probe[c] = "running"
  /\ up[c]
  /\ IF stage[c] < Stages[c]
       THEN /\ stage' = [stage EXCEPT ![c] = @ + 1]
            /\ UNCHANGED probe
       ELSE /\ probe' = [probe EXCEPT ![c] = "ok"]
            /\ UNCHANGED stage
  /\ stageAge' = [stageAge EXCEPT ![c] = 0]
  /\ UNCHANGED <<pc, age, ahead, cacheVars, envVars>>

\* A call fails: refused, an I/O error, the wrong version, not ready.
StageFail(c) ==
  /\ probe[c] = "running"
  /\ ~up[c]
  /\ probe' = [probe EXCEPT ![c] = "failed"]
  /\ UNCHANGED <<pc, age, ahead, stage, stageAge, cacheVars, envVars>>

StageExpired(c) ==
  probe[c] = "running" /\ StageTimeout[c] # 0 /\ stageAge[c] >= StageTimeout[c]

\* The deadline of the call passes.
StageTimesOut(c) ==
  /\ StageExpired(c)
  /\ probe' = [probe EXCEPT ![c] = "failed"]
  /\ UNCHANGED <<pc, age, ahead, stage, stageAge, cacheVars, envVars>>

\* Every result is in: store the report, stamped now, and answer with it.
Finish(r) ==
  /\ pc[r] = "probing"
  /\ ProbesDone
  /\ cache' = IF ReportHealthy THEN "healthy" ELSE "unhealthy"
  /\ cacheAge' = 0
  /\ Answer(r, Status(ReportHealthy))
  /\ NoProbe
  /\ UNCHANGED envVars

-----------------------------------------------------------------------------
(* The HTTP layers around the handler, and the client.                     *)

RequestExpired(r) == pc[r] \in Pending /\ age[r] >= RequestTimeout

\* Mutant of RequestTimesOut: only the wait for the lock has a deadline.
RequestTimesOutQueued(r) ==
  /\ RequestExpired(r)
  /\ pc[r] = "queued"
  /\ DropHandler(r, "gateway_timeout")

\* TimeoutLayer drops the handler and answers 504.
RequestTimesOut(r) ==
  /\ RequestExpired(r)
  /\ DropHandler(r, "gateway_timeout")

\* The client closes its connection: hyper drops the handler.
Disconnect(r) ==
  /\ pc[r] \in Pending
  /\ DropHandler(r, "gone")

-----------------------------------------------------------------------------
(* The environment.                                                        *)

\* A component breaks down or is repaired, at most once in a tick.
Flip(c) ==
  /\ since[c] # 0
  /\ up' = [up EXCEPT ![c] = ~@]
  /\ since' = [since EXCEPT ![c] = 0]
  /\ UNCHANGED <<pc, age, ahead, probeVars, cacheVars>>

\* A component that has been up for the whole call owes its answer.
AnswerDue(c) ==
  /\ probe[c] = "running"
  /\ up[c]
  /\ since[c] >= stageAge[c]
  /\ stageAge[c] >= AnswerTime

\* The handler of r has something to do that takes no time.
Runnable(r) ==
  \/ pc[r] = "queued" /\ HoldsLock(r)
  \/ pc[r] = "probing" /\ ProbesDone
  \/ RequestExpired(r)

\* Time passes when nothing is due: a timer fires in the tick it is set for.
\* An answered client may ask again in the next tick, so that no behaviour packs
\* infinitely many requests into one.
Tick ==
  /\ \A r \in Requests : ~Runnable(r)
  /\ \A c \in Components : ~StageExpired(c) /\ ~AnswerDue(c)
  /\ pc' = [r \in Requests |-> IF pc[r] \in Pending THEN pc[r] ELSE "idle"]
  /\ age' = [r \in Requests |-> IF pc[r] \in Pending THEN age[r] + 1 ELSE age[r]]
  /\ stageAge' = [c \in Components |->
                    IF probe[c] = "running" THEN stageAge[c] + 1 ELSE stageAge[c]]
  /\ cacheAge' = IF cache = "empty" THEN cacheAge ELSE Later(cacheAge, CacheTtl)
  /\ since' = [c \in Components |-> Later(since[c], Horizon)]
  /\ UNCHANGED <<ahead, probe, stage, cache, up>>

-----------------------------------------------------------------------------
RequestNext(r) ==
  \/ Arrive(r)
  \/ ServeCached(r)
  \/ StartProbe(r)
  \/ Finish(r)
  \/ RequestTimesOut(r)
  \/ Disconnect(r)

ComponentNext(c) ==
  \/ StageOk(c)
  \/ StageFail(c)
  \/ StageTimesOut(c)
  \/ Flip(c)

Next ==
  \/ \E r \in Requests : RequestNext(r)
  \/ \E c \in Components : ComponentNext(c)
  \/ Tick

Spec == Init /\ [][Next]_vars

\* The runtime polls a woken future, the timers fire, time passes and a component
\* that is up answers.  Nobody has to send a request, hang up, break a component
\* or repair it, and a broken component need not even refuse a call: it may
\* leave it hanging.
Fairness ==
  /\ \A r \in Requests :
       /\ WF_vars(ServeCached(r))
       /\ WF_vars(StartProbe(r))
       /\ WF_vars(Finish(r))
       /\ WF_vars(RequestTimesOut(r))
  /\ \A c \in Components :
       /\ WF_vars(StageOk(c))
       /\ WF_vars(StageTimesOut(c))
  /\ WF_vars(Tick)

FairSpec == Spec /\ Fairness

-----------------------------------------------------------------------------
(* Correctness.                                                            *)

DownFor(c) == IF up[c] THEN 0 ELSE since[c]
UpFor(c)   == IF up[c] THEN since[c] ELSE 0

TypeOK ==
  /\ pc \in [Requests -> {"idle", "gone"} \cup Pending \cup Answers]
  /\ age \in [Requests -> 0 .. RequestTimeout]
  /\ ahead \in [Requests -> SUBSET Requests]
  /\ probe \in [Components -> {"off", "running", "ok", "failed"}]
  /\ stage \in [Components -> Nat \ {0}]
  /\ \A c \in Components : stage[c] <= Stages[c]
  /\ stageAge \in [Components -> 0 .. RequestTimeout]
  /\ cache \in {"empty", "healthy", "unhealthy"}
  /\ cacheAge \in 0 .. CacheTtl
  /\ up \in [Components -> BOOLEAN]
  /\ since \in [Components -> 0 .. Horizon]

\* However handlers are dropped, the lock is never lost: while any request
\* waits, one of them holds it.  (The MutexGuard held across the await of
\* readiness() is released on every way out.)
LockNeverLost == InQueue # {} => \E r \in Requests : HoldsLock(r)

\* One probe at a time, and no probe while a fresh report exists: the requests
\* that queued behind a probe are answered from its report, they do not repeat
\* it (no stampede on PostgreSQL when the cache expires).
SingleFlight ==
  /\ \A r, s \in Requests : pc[r] = "probing" /\ pc[s] = "probing" => r = s
  /\ \A r \in Requests : pc[r] = "probing" => ~Fresh

\* The lock's queue serves the request with the least time left first: nobody
\* is overtaken by a request that arrived later.
OldestFirst ==
  \A r, s \in Requests : pc[r] \in Pending /\ s \in ahead[r] => age[s] >= age[r]

\* Whatever was cached, cancelled, broken or repaired in between, a request is
\* told 200 only if every component worked within RequestTimeout + CacheTtl
\* before the answer: the age of a report is counted from the end of its probe
\* (checked_at), so the length of a probe comes on top of the cache's TTL.
\* And it is told 503 only if some component was down within that time.
NoStaleAnswer ==
  [][\A r \in Requests :
       /\ pc'[r] = "ok" /\ pc[r] # "ok" =>
            \A c \in Components : DownFor(c) < Horizon
       /\ pc'[r] = "unavailable" /\ pc[r] # "unavailable" =>
            \E c \in Components : UpFor(c) < Horizon]_vars

\* Every request gets an answer unless its client leaves, although a call to
\* the storage has no deadline and may hang with the lock held.
EveryRequestAnswered ==
  \A r \in Requests : pc[r] \in Pending ~> pc[r] \notin Pending

AllUp == \A c \in Components : up[c]
NobodyLeaves == \A r \in Requests : pc[r] # "gone"

\* Once every component works for good, and clients wait for their answers, every
\* answer is 200 from some time on, where working components answer at once.
RecoversOnceUp ==
  <>[](AllUp /\ NobodyLeaves) =>
    <>[](\A r \in Requests : pc[r] \notin {"unavailable", "gateway_timeout"})

\* docs/development.md:131: the endpoint says that the application is ready,
\* which depends on these components.  Once they work for good, a client that
\* keeps asking is told so again and again.
ReportsReady ==
  <>[](AllUp /\ NobodyLeaves) /\ []<>(InQueue # {}) =>
    []<>(\E r \in Requests : pc[r] = "ok")

-----------------------------------------------------------------------------
(* The inductive invariant behind the safety properties above.             *)

\* The queue of the lock is a strict total order on the requests in it, from
\* which a prober has nobody ahead.
QueueInv ==
  /\ \A r \in Requests :
       /\ ahead[r] \subseteq InQueue \ {r}
       /\ pc[r] \notin Pending => ahead[r] = {} /\ age[r] = 0
       /\ pc[r] = "probing" => ahead[r] = {}
  /\ \A r, s \in InQueue : r # s => (r \in ahead[s] <=> s \notin ahead[r])
  /\ \A r, s \in InQueue : s \in ahead[r] => ahead[s] \subseteq ahead[r]
  /\ OldestFirst

\* Every running call belongs to a request, and is no older than it.
ProbeInv ==
  /\ \A r \in Requests : pc[r] = "probing" =>
       /\ ~Fresh
       /\ \A c \in Components : probe[c] # "off" /\ stageAge[c] <= age[r]
  /\ (\A r \in Requests : pc[r] # "probing") =>
       \A c \in Components : probe[c] = "off" /\ stage[c] = 1 /\ stageAge[c] = 0

\* A result is as true as the request that waits for it is old, and a report as
\* its age and the longest probe allow.
AccuracyInv ==
  /\ \A r \in Requests, c \in Components : pc[r] = "probing" =>
       /\ probe[c] = "ok" => DownFor(c) <= age[r]
       /\ probe[c] = "failed" => UpFor(c) <= age[r]
       /\ probe[c] = "running" /\ stageAge[c] > AnswerTime /\ up[c] =>
            since[c] < stageAge[c]
  /\ cache = "healthy" =>
       \A c \in Components : DownFor(c) <= RequestTimeout + cacheAge
  /\ cache = "unhealthy" =>
       \E c \in Components : UpFor(c) <= RequestTimeout + cacheAge

IInv == TypeOK /\ QueueInv /\ ProbeInv /\ AccuracyInv

-----------------------------------------------------------------------------
\* The cache keeps its promise to the services that are probed.
Gate == INSTANCE ProbeGate
          WITH probing <- \E r \in Requests : pc[r] = "probing",
               report <- cache,
               reportAge <- cacheAge

GateSpec == Gate!Spec

=============================================================================
