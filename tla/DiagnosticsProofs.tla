------------------------- MODULE DiagnosticsProofs -------------------------
(***************************************************************************)
(* What holds of a cached health endpoint for every number of clients, any *)
(* set of components and any deadlines, proved from the inductive          *)
(* invariant IInv of module Diagnostics.                                   *)
(***************************************************************************)
EXTENDS Diagnostics, FiniteSetTheorems, WellFoundedInduction, TLAPS

-----------------------------------------------------------------------------
(* The state is well typed.  The bound on the age of a call is the bound   *)
(* on the age of the request that made it, hence ProbeInv.                 *)

\* The bounds that the parameters define are natural numbers.
LEMMA Bounds ==
  /\ RequestTimeout \in Nat \ {0}
  /\ CacheTtl \in Nat \ {0}
  /\ AnswerTime \in Nat
  /\ Horizon \in Nat
  /\ Horizon = RequestTimeout + CacheTtl
BY ParametersAssumption DEF Horizon

\* Dropping a handler leaves a well-typed state.
LEMMA DropType ==
  ASSUME TypeOK, NEW r \in Requests,
         NEW status \in {"gateway_timeout", "gone"}, DropHandler(r, status)
  PROVE  TypeOK'
<1>1. pc' \in [Requests -> {"idle", "gone"} \cup Pending \cup Answers]
  BY DEF DropHandler, Answer, TypeOK, Pending, Answers
<1>2. age' \in [Requests -> 0 .. RequestTimeout]
  BY Bounds DEF DropHandler, Answer, TypeOK
<1>3. ahead' \in [Requests -> SUBSET Requests]
  BY DEF DropHandler, Answer, LeaveLock, TypeOK
<1>4. /\ probe' \in [Components -> {"off", "running", "ok", "failed"}]
      /\ stage' \in [Components -> Nat \ {0}]
      /\ \A c \in Components : stage'[c] <= Stages[c]
      /\ stageAge' \in [Components -> 0 .. RequestTimeout]
  BY Bounds, ParametersAssumption DEF DropHandler, NoProbe, probeVars, TypeOK
<1> QED
  BY <1>1, <1>2, <1>3, <1>4 DEF DropHandler, cacheVars, envVars, TypeOK, Pending, Answers

\* TypeOK is preserved by every step.
LEMMA TypeStep ==
  ASSUME TypeOK, ProbeInv, [Next]_vars
  PROVE  TypeOK'
<1> USE Bounds
<1>1. ASSUME NEW r \in Requests, Arrive(r)
      PROVE  TypeOK'
  BY <1>1 DEF Arrive, InQueue, probeVars, cacheVars, envVars, TypeOK, Pending, Answers
<1>2. ASSUME NEW r \in Requests, ServeCached(r)
      PROVE  TypeOK'
  BY <1>2 DEF ServeCached, Answer, LeaveLock, Status, probeVars, cacheVars, envVars,
              TypeOK, Pending, Answers
<1>3. ASSUME NEW r \in Requests, StartProbe(r)
      PROVE  TypeOK'
  BY <1>3 DEF StartProbe, cacheVars, envVars, TypeOK, Pending, Answers
<1>4. ASSUME NEW r \in Requests, Finish(r)
      PROVE  TypeOK'
  BY <1>4, ParametersAssumption
     DEF Finish, Answer, LeaveLock, NoProbe, Status, envVars, TypeOK, Pending, Answers
<1>5. ASSUME NEW r \in Requests, RequestTimesOut(r)
      PROVE  TypeOK'
  BY <1>5, DropType DEF RequestTimesOut
<1>6. ASSUME NEW r \in Requests, Disconnect(r)
      PROVE  TypeOK'
  BY <1>6, DropType DEF Disconnect
<1>7. ASSUME NEW c \in Components, StageOk(c)
      PROVE  TypeOK'
  <2>1. stage' \in [Components -> Nat \ {0}] /\ \A d \in Components : stage'[d] <= Stages[d]
    <3>1. CASE stage[c] < Stages[c]
      <4>1. \A d \in Components : stage'[d] = IF d = c THEN stage[c] + 1 ELSE stage[d]
        BY <1>7, <3>1 DEF StageOk, TypeOK
      <4>2. stage[c] \in Nat /\ Stages[c] \in Nat
        BY ParametersAssumption DEF TypeOK
      <4>3. stage' = [stage EXCEPT ![c] = stage[c] + 1]
        BY <1>7, <3>1 DEF StageOk
      <4>4. stage' \in [Components -> Nat \ {0}]
        BY <4>2, <4>3 DEF TypeOK
      <4>5. stage[c] + 1 <= Stages[c]
        BY <3>1, <4>2
      <4> QED
        BY <4>1, <4>4, <4>5 DEF TypeOK
    <3>2. CASE ~(stage[c] < Stages[c])
      BY <1>7, <3>2 DEF StageOk, TypeOK
    <3> QED
      BY <3>1, <3>2
  <2>2. probe' \in [Components -> {"off", "running", "ok", "failed"}]
    BY <1>7 DEF StageOk, TypeOK
  <2>3. stageAge' \in [Components -> 0 .. RequestTimeout]
    BY <1>7 DEF StageOk, TypeOK
  <2> QED
    BY <1>7, <2>1, <2>2, <2>3 DEF StageOk, cacheVars, envVars, TypeOK, Pending, Answers
<1>8. ASSUME NEW c \in Components, StageFail(c)
      PROVE  TypeOK'
  BY <1>8 DEF StageFail, cacheVars, envVars, TypeOK, Pending, Answers
<1>9. ASSUME NEW c \in Components, StageTimesOut(c)
      PROVE  TypeOK'
  BY <1>9 DEF StageTimesOut, cacheVars, envVars, TypeOK, Pending, Answers
<1>10. ASSUME NEW c \in Components, Flip(c)
       PROVE  TypeOK'
  BY <1>10 DEF Flip, probeVars, cacheVars, TypeOK, Pending, Answers
<1>11. ASSUME Tick
       PROVE  TypeOK'
  <2>1. \A r \in Requests : pc[r] \in Pending => age[r] < RequestTimeout
    BY <1>11 DEF Tick, Runnable, RequestExpired, TypeOK
  <2>2. age' \in [Requests -> 0 .. RequestTimeout]
    BY <1>11, <2>1 DEF Tick, TypeOK
  <2>3. \A c \in Components : probe[c] = "running" => stageAge[c] < RequestTimeout
    <3> SUFFICES ASSUME NEW c \in Components, probe[c] = "running"
                 PROVE  stageAge[c] < RequestTimeout
      OBVIOUS
    <3>1. PICK r \in Requests : pc[r] = "probing"
      BY DEF ProbeInv
    <3>2. stageAge[c] <= age[r]
      BY <3>1 DEF ProbeInv
    <3>3. age[r] < RequestTimeout
      BY <3>1, <2>1 DEF Pending
    <3> QED
      BY <3>2, <3>3 DEF TypeOK
  <2>4. stageAge' \in [Components -> 0 .. RequestTimeout]
    BY <1>11, <2>3 DEF Tick, TypeOK
  <2>5. cacheAge' \in 0 .. CacheTtl /\ since' \in [Components -> 0 .. Horizon]
    BY <1>11 DEF Tick, Later, TypeOK
  <2>6. pc' \in [Requests -> {"idle", "gone"} \cup Pending \cup Answers]
    BY <1>11 DEF Tick, TypeOK
  <2> QED
    BY <1>11, <2>2, <2>4, <2>5, <2>6 DEF Tick, TypeOK, Pending, Answers
<1>12. CASE UNCHANGED vars
  BY <1>12 DEF vars, TypeOK, Pending, Answers
<1> QED
  BY <1>1, <1>2, <1>3, <1>4, <1>5, <1>6, <1>7, <1>8, <1>9, <1>10, <1>11, <1>12
     DEF Next, RequestNext, ComponentNext

-----------------------------------------------------------------------------
(* The queue of the lock.                                                  *)

\* A request that leaves the queue, from any place in it, leaves a queue.
LEMMA AnswerQueue ==
  ASSUME TypeOK, QueueInv, NEW r \in Requests,
         NEW status \in Answers \cup {"gone"}, Answer(r, status)
  PROVE  QueueInv'
<1> DEFINE rest == InQueue \ {r}
<1>1. /\ \A s \in Requests : s # r => pc'[s] = pc[s] /\ age'[s] = age[s]
      /\ pc'[r] \notin Pending /\ age'[r] = 0
      /\ pc'[r] # "probing"
  BY DEF Answer, TypeOK, Answers, Pending
<1>2. InQueue' = rest
  BY <1>1 DEF InQueue
<1>3. /\ ahead'[r] = {}
      /\ \A s \in Requests : s # r => ahead'[s] = ahead[s] \ {r}
  BY DEF Answer, LeaveLock
<1>4. \A s \in Requests :
        /\ ahead'[s] \subseteq InQueue' \ {s}
        /\ pc'[s] \notin Pending => ahead'[s] = {} /\ age'[s] = 0
        /\ pc'[s] = "probing" => ahead'[s] = {}
  BY <1>1, <1>2, <1>3 DEF QueueInv
<1>5. \A s, t \in InQueue' : s # t => (s \in ahead'[t] <=> t \notin ahead'[s])
  BY <1>2, <1>3 DEF QueueInv, InQueue
<1>6. \A s, t \in InQueue' : t \in ahead'[s] => ahead'[t] \subseteq ahead'[s]
  BY <1>2, <1>3 DEF QueueInv, InQueue
<1>7. OldestFirst'
  BY <1>1, <1>3 DEF QueueInv, OldestFirst, InQueue
<1> QED
  BY <1>4, <1>5, <1>6, <1>7 DEF QueueInv

\* QueueInv is preserved by every step.
LEMMA QueueStep ==
  ASSUME TypeOK, QueueInv, [Next]_vars
  PROVE  QueueInv'
<1>1. ASSUME NEW r \in Requests, Arrive(r)
      PROVE  QueueInv'
  <2>1. /\ \A s \in Requests : s # r => pc'[s] = pc[s] /\ ahead'[s] = ahead[s]
        /\ pc[r] = "idle" /\ pc'[r] = "queued" /\ ahead'[r] = InQueue
        /\ age' = age
    BY <1>1 DEF Arrive, TypeOK
  <2>2. InQueue' = InQueue \cup {r} /\ r \notin InQueue
    BY <2>1 DEF InQueue, Pending
  <2>3. \A s \in Requests :
          /\ ahead'[s] \subseteq InQueue' \ {s}
          /\ pc'[s] \notin Pending => ahead'[s] = {} /\ age'[s] = 0
          /\ pc'[s] = "probing" => ahead'[s] = {}
    BY <2>1, <2>2 DEF QueueInv, Pending
  <2>4. \A s, t \in InQueue' : s # t => (s \in ahead'[t] <=> t \notin ahead'[s])
    BY <2>1, <2>2 DEF QueueInv, InQueue
  <2>5. \A s, t \in InQueue' : t \in ahead'[s] => ahead'[t] \subseteq ahead'[s]
    BY <2>1, <2>2 DEF QueueInv, InQueue
  <2>6. age[r] = 0
    BY <2>1 DEF QueueInv, Pending
  <2>7. OldestFirst'
    BY <2>1, <2>2, <2>6 DEF QueueInv, OldestFirst, InQueue, TypeOK
  <2> QED
    BY <2>3, <2>4, <2>5, <2>7 DEF QueueInv
<1>2. ASSUME NEW r \in Requests, ServeCached(r)
      PROVE  QueueInv'
  BY <1>2, AnswerQueue DEF ServeCached, Status, Answers
<1>3. ASSUME NEW r \in Requests, StartProbe(r)
      PROVE  QueueInv'
  <2>1. /\ \A s \in Requests : s # r => pc'[s] = pc[s]
        /\ pc[r] = "queued" /\ pc'[r] = "probing" /\ ahead[r] = {}
        /\ ahead' = ahead /\ age' = age
    BY <1>3 DEF StartProbe, HoldsLock, TypeOK
  <2>2. InQueue' = InQueue
    BY <2>1 DEF InQueue, Pending
  <2> QED
    BY <2>1, <2>2 DEF QueueInv, OldestFirst, Pending
<1>4. ASSUME NEW r \in Requests, Finish(r)
      PROVE  QueueInv'
  BY <1>4, AnswerQueue DEF Finish, Status, Answers
<1>5. ASSUME NEW r \in Requests, RequestTimesOut(r)
      PROVE  QueueInv'
  BY <1>5, AnswerQueue DEF RequestTimesOut, DropHandler, Answers
<1>6. ASSUME NEW r \in Requests, Disconnect(r)
      PROVE  QueueInv'
  BY <1>6, AnswerQueue DEF Disconnect, DropHandler
<1>7. ASSUME NEW c \in Components, ComponentNext(c)
      PROVE  QueueInv'
  BY <1>7 DEF ComponentNext, StageOk, StageFail, StageTimesOut, Flip,
              QueueInv, OldestFirst, InQueue
<1>8. ASSUME Tick
      PROVE  QueueInv'
  <2>1. /\ ahead' = ahead
        /\ \A r \in Requests : pc[r] \in Pending => pc'[r] = pc[r] /\ age'[r] = age[r] + 1
        /\ \A r \in Requests : pc[r] \notin Pending =>
             pc'[r] = "idle" /\ age'[r] = age[r]
    BY <1>8 DEF Tick, TypeOK
  <2>2. \A r \in Requests :
          pc'[r] \in Pending <=> pc[r] \in Pending
    BY <2>1 DEF Pending
  <2>3. InQueue' = InQueue
    BY <2>2 DEF InQueue
  <2>4. \A r \in Requests :
          /\ ahead'[r] \subseteq InQueue' \ {r}
          /\ pc'[r] \notin Pending => ahead'[r] = {} /\ age'[r] = 0
          /\ pc'[r] = "probing" => ahead'[r] = {}
    BY <2>1, <2>2, <2>3 DEF QueueInv, Pending
  <2>5. OldestFirst'
    <3> SUFFICES ASSUME NEW r \in Requests, NEW s \in Requests,
                        pc'[r] \in Pending, s \in ahead'[r]
                 PROVE  age'[s] >= age'[r]
      BY DEF OldestFirst
    <3>1. pc[r] \in Pending /\ s \in ahead[r]
      BY <2>1, <2>2
    <3>2. pc[s] \in Pending
      BY <3>1 DEF QueueInv, InQueue
    <3>3. age[s] >= age[r]
      BY <3>1 DEF QueueInv, OldestFirst
    <3> QED
      BY <2>1, <3>1, <3>2, <3>3, Bounds DEF TypeOK
  <2> QED
    BY <2>1, <2>3, <2>4, <2>5 DEF QueueInv
<1>9. CASE UNCHANGED vars
  BY <1>9 DEF vars, QueueInv, OldestFirst, InQueue
<1> QED
  BY <1>1, <1>2, <1>3, <1>4, <1>5, <1>6, <1>7, <1>8, <1>9 DEF Next, RequestNext

-----------------------------------------------------------------------------
(* The probe belongs to the request that holds the lock.                   *)

\* The lock has one holder.
LEMMA OneHolder ==
  ASSUME QueueInv, NEW r \in Requests, NEW s \in Requests, HoldsLock(r), HoldsLock(s)
  PROVE  r = s
BY DEF QueueInv, HoldsLock, InQueue

\* A request that probes holds the lock.
LEMMA ProberHolds ==
  ASSUME QueueInv, NEW r \in Requests, pc[r] = "probing"
  PROVE  HoldsLock(r)
BY DEF QueueInv, HoldsLock, Pending

\* A request that leaves takes its own probe with it and no other.
LEMMA AnswerProbers ==
  ASSUME TypeOK, QueueInv, NEW r \in Requests,
         NEW status \in Answers \cup {"gone"}, Answer(r, status)
  PROVE  /\ \A s \in Requests :
              pc'[s] = "probing" <=> (pc[s] = "probing" /\ s # r)
         /\ \A s \in Requests : pc'[s] = "probing" => age'[s] = age[s]
         /\ HoldsLock(r) => \A s \in Requests : pc'[s] # "probing"
<1>1. /\ \A s \in Requests : s # r => pc'[s] = pc[s] /\ age'[s] = age[s]
      /\ pc'[r] # "probing"
  BY DEF Answer, TypeOK, Answers
<1> QED
  BY <1>1, OneHolder, ProberHolds

\* ProbeInv is preserved by every step.
LEMMA ProbeStep ==
  ASSUME TypeOK, QueueInv, ProbeInv, [Next]_vars
  PROVE  ProbeInv'
<1>1. ASSUME NEW r \in Requests, Arrive(r)
      PROVE  ProbeInv'
  <2>1. \A s \in Requests : pc'[s] = "probing" <=> pc[s] = "probing"
    BY <1>1 DEF Arrive, TypeOK
  <2> QED
    BY <1>1, <2>1 DEF Arrive, probeVars, cacheVars, ProbeInv, Fresh
<1>2. ASSUME NEW r \in Requests, ServeCached(r)
      PROVE  ProbeInv'
  <2>1. \A s \in Requests : pc'[s] # "probing"
    BY <1>2, AnswerProbers DEF ServeCached, Status, Answers
  <2>2. \A s \in Requests : pc[s] # "probing"
    BY <1>2, OneHolder, ProberHolds DEF ServeCached
  <2> QED
    BY <1>2, <2>1, <2>2 DEF ServeCached, probeVars, ProbeInv
<1>3. ASSUME NEW r \in Requests, StartProbe(r)
      PROVE  ProbeInv'
  <2>1. \A s \in Requests : pc[s] # "probing"
    BY <1>3, OneHolder, ProberHolds DEF StartProbe
  <2>2. \A s \in Requests : pc'[s] = "probing" <=> s = r
    BY <1>3, <2>1 DEF StartProbe, TypeOK
  <2>3. \A c \in Components : probe'[c] = "running" /\ stageAge'[c] = 0
    BY <1>3, <2>1 DEF StartProbe, ProbeInv
  <2>4. age'[r] \in Nat
    BY <1>3, Bounds DEF StartProbe, TypeOK
  <2> QED
    BY <1>3, <2>2, <2>3, <2>4 DEF StartProbe, cacheVars, ProbeInv, Fresh
<1>4. ASSUME NEW r \in Requests, Finish(r)
      PROVE  ProbeInv'
  <2>1. \A s \in Requests : pc'[s] # "probing"
    BY <1>4, AnswerProbers, ProberHolds DEF Finish, Status, Answers
  <2> QED
    BY <1>4, <2>1 DEF Finish, NoProbe, ProbeInv
<1>5. ASSUME NEW r \in Requests, NEW status \in {"gateway_timeout", "gone"},
             DropHandler(r, status)
      PROVE  ProbeInv'
  <2>1. Answer(r, status) /\ status \in Answers \cup {"gone"}
    BY <1>5 DEF DropHandler, Answers
  <2>2. CASE pc[r] = "probing"
    <3>1. \A s \in Requests : pc'[s] # "probing"
      BY <2>1, <2>2, AnswerProbers, ProberHolds
    <3> QED
      BY <1>5, <2>2, <3>1 DEF DropHandler, NoProbe, ProbeInv
  <2>3. CASE pc[r] # "probing"
    <3>1. \A s \in Requests : pc'[s] = "probing" <=> pc[s] = "probing"
      BY <2>1, <2>3, AnswerProbers
    <3>2. \A s \in Requests : pc'[s] = "probing" => age'[s] = age[s]
      BY <2>1, AnswerProbers
    <3> QED
      BY <1>5, <2>3, <3>1, <3>2 DEF DropHandler, probeVars, cacheVars, ProbeInv, Fresh
  <2> QED
    BY <2>2, <2>3
<1>6. ASSUME NEW c \in Components, StageOk(c)
      PROVE  ProbeInv'
  <2>1. PICK r \in Requests : pc[r] = "probing"
    BY <1>6 DEF StageOk, ProbeInv
  <2>2. \A d \in Components : /\ probe'[d] \in {probe[d], "ok"}
                              /\ stageAge'[d] \in {stageAge[d], 0}
    BY <1>6 DEF StageOk, TypeOK
  <2>3. \A s \in Requests : age[s] \in Nat
    BY Bounds DEF TypeOK
  <2> QED
    BY <1>6, <2>1, <2>2, <2>3 DEF StageOk, cacheVars, ProbeInv, Fresh
<1>7. ASSUME NEW c \in Components, StageFail(c) \/ StageTimesOut(c)
      PROVE  ProbeInv'
  <2>1. PICK r \in Requests : pc[r] = "probing"
    BY <1>7 DEF StageFail, StageTimesOut, StageExpired, ProbeInv
  <2>2. \A d \in Components : probe'[d] \in {probe[d], "failed"}
    BY <1>7 DEF StageFail, StageTimesOut, TypeOK
  <2> QED
    BY <1>7, <2>1, <2>2 DEF StageFail, StageTimesOut, cacheVars, ProbeInv, Fresh
<1>8. ASSUME NEW c \in Components, Flip(c)
      PROVE  ProbeInv'
  BY <1>8 DEF Flip, probeVars, cacheVars, ProbeInv, Fresh
<1>9. ASSUME Tick
      PROVE  ProbeInv'
  <2>1. \A s \in Requests : pc'[s] = "probing" <=> pc[s] = "probing"
    BY <1>9 DEF Tick, TypeOK, Pending
  <2>2. \A s \in Requests : pc[s] = "probing" => age'[s] = age[s] + 1
    BY <1>9 DEF Tick, Pending
  <2>3. \A c \in Components : stageAge'[c] <= stageAge[c] + 1
    BY <1>9, Bounds DEF Tick, TypeOK
  <2>4. ~Fresh => ~Fresh'
    BY <1>9, Bounds DEF Tick, Fresh, Later, TypeOK
  <2>5. ASSUME NEW s \in Requests, pc'[s] = "probing"
        PROVE  /\ ~Fresh'
               /\ \A c \in Components : probe'[c] # "off" /\ stageAge'[c] <= age'[s]
    <3>1. pc[s] = "probing"
      BY <2>1, <2>5
    <3>2. ~Fresh /\ \A c \in Components : probe[c] # "off" /\ stageAge[c] <= age[s]
      BY <3>1 DEF ProbeInv
    <3>3. /\ age[s] \in Nat /\ age'[s] \in Nat
          /\ \A c \in Components : stageAge[c] \in Nat /\ stageAge'[c] \in Nat
      BY <1>9, Bounds DEF Tick, TypeOK
    <3> QED
      BY <1>9, <2>2, <2>3, <2>4, <3>1, <3>2, <3>3 DEF Tick
  <2>6. ASSUME \A s \in Requests : pc'[s] # "probing"
        PROVE  \A c \in Components : probe'[c] = "off" /\ stage'[c] = 1 /\ stageAge'[c] = 0
    BY <1>9, <2>1, <2>6 DEF Tick, ProbeInv
  <2> QED
    BY <2>5, <2>6 DEF ProbeInv
<1>10. CASE UNCHANGED vars
  BY <1>10 DEF vars, ProbeInv, Fresh
<1> QED
  BY <1>1, <1>2, <1>3, <1>4, <1>5, <1>6, <1>7, <1>8, <1>9, <1>10
     DEF Next, RequestNext, ComponentNext, RequestTimesOut, Disconnect

-----------------------------------------------------------------------------
(* A result is no older than the request that waits for it.                *)

\* What AccuracyInv says of the request r that probes c.
Accurate(r, c) ==
  /\ probe[c] = "ok" => DownFor(c) <= age[r]
  /\ probe[c] = "failed" => UpFor(c) <= age[r]
  /\ probe[c] = "running" /\ stageAge[c] > AnswerTime /\ up[c] =>
       since[c] < stageAge[c]

\* What AccuracyInv says of the report.
ReportAccurate ==
  /\ cache = "healthy" =>
       \A c \in Components : DownFor(c) <= RequestTimeout + cacheAge
  /\ cache = "unhealthy" =>
       \E c \in Components : UpFor(c) <= RequestTimeout + cacheAge

\* AccuracyInv in two parts.
LEMMA AccuracyParts ==
  AccuracyInv <=>
    /\ \A r \in Requests, c \in Components : pc[r] = "probing" => Accurate(r, c)
    /\ ReportAccurate
BY DEF AccuracyInv, Accurate, ReportAccurate

\* The primed form of AccuracyParts.
LEMMA AccuracyPartsPrimed ==
  AccuracyInv' <=>
    /\ \A r \in Requests, c \in Components : pc'[r] = "probing" => Accurate(r, c)'
    /\ ReportAccurate'
BY DEF AccuracyInv, Accurate, ReportAccurate

\* A step that touches no probe, report or component, and starts no probe.
LEMMA AccuracyUntouched ==
  ASSUME AccuracyInv, UNCHANGED <<probeVars, cacheVars, envVars>>,
         \A r \in Requests : pc'[r] = "probing" => pc[r] = "probing" /\ age'[r] = age[r]
  PROVE  AccuracyInv'
<1>1. ASSUME NEW r \in Requests, NEW c \in Components, pc'[r] = "probing"
      PROVE  Accurate(r, c)'
  <2>1. pc[r] = "probing" /\ age'[r] = age[r]
    BY <1>1
  <2>2. Accurate(r, c)
    BY <2>1, AccuracyParts
  <2> QED
    BY <2>1, <2>2 DEF Accurate, DownFor, UpFor, probeVars, envVars
<1>2. ReportAccurate'
  BY AccuracyParts DEF ReportAccurate, DownFor, UpFor, cacheVars, envVars
<1> QED
  BY <1>1, <1>2, AccuracyPartsPrimed

\* A step after which nobody probes, and that touches no report or component.
LEMMA AccuracyNoProber ==
  ASSUME AccuracyInv, UNCHANGED <<cacheVars, envVars>>,
         \A r \in Requests : pc'[r] # "probing"
  PROVE  AccuracyInv'
BY AccuracyParts, AccuracyPartsPrimed
   DEF ReportAccurate, DownFor, UpFor, cacheVars, envVars

\* A call that runs out of time belongs to a component that has not been up for
\* all of it.
LEMMA FailureAccurate ==
  ASSUME TypeOK, ProbeInv, AccuracyInv, NEW c \in Components,
         StageFail(c) \/ StageTimesOut(c), NEW r \in Requests, pc[r] = "probing"
  PROVE  UpFor(c) <= age[r]
<1>1. age[r] \in Nat /\ stageAge[c] \in Nat /\ since[c] \in Nat /\ up[c] \in BOOLEAN
  BY Bounds DEF TypeOK
<1>2. CASE StageFail(c)
  BY <1>1, <1>2 DEF StageFail, UpFor
<1>3. CASE StageTimesOut(c)
  <2>1. probe[c] = "running" /\ stageAge[c] > AnswerTime
    BY <1>1, <1>3, ParametersAssumption DEF StageTimesOut, StageExpired
  <2>2. up[c] => since[c] < stageAge[c]
    BY <2>1 DEF AccuracyInv
  <2>3. stageAge[c] <= age[r]
    BY DEF ProbeInv
  <2> QED
    BY <1>1, <2>2, <2>3 DEF UpFor
<1> QED
  BY <1>2, <1>3

\* The report that Finish stores is accurate.
LEMMA FinishAccurate ==
  ASSUME TypeOK, ProbeInv, AccuracyInv, NEW r \in Requests, Finish(r)
  PROVE  /\ ReportHealthy => \A c \in Components : DownFor(c) <= RequestTimeout
         /\ ~ReportHealthy => \E c \in Components : UpFor(c) <= RequestTimeout
<1>1. pc[r] = "probing" /\ age[r] \in Nat /\ age[r] <= RequestTimeout
  BY Bounds DEF Finish, TypeOK
<1>2. \A c \in Components : DownFor(c) \in Nat /\ UpFor(c) \in Nat
  BY Bounds DEF TypeOK, DownFor, UpFor
<1>3. CASE ReportHealthy
  <2>1. \A c \in Components : DownFor(c) <= age[r]
    BY <1>1, <1>3 DEF ReportHealthy, AccuracyInv
  <2> QED
    BY <1>1, <1>2, <1>3, <2>1, Bounds
<1>4. CASE ~ReportHealthy
  <2>1. PICK c \in Components : probe[c] # "ok"
    BY <1>4 DEF ReportHealthy
  <2>2. probe[c] = "failed"
    BY <1>1, <2>1 DEF Finish, ProbesDone, ProbeInv, TypeOK
  <2>3. UpFor(c) <= age[r]
    BY <1>1, <2>2 DEF AccuracyInv
  <2> QED
    BY <1>1, <1>2, <1>4, <2>3, Bounds
<1> QED
  BY <1>3, <1>4

\* AccuracyInv is preserved by every step.
LEMMA AccuracyStep ==
  ASSUME TypeOK, QueueInv, ProbeInv, AccuracyInv, [Next]_vars
  PROVE  AccuracyInv'
<1> DEFINE Nats == /\ \A r \in Requests : age[r] \in Nat
                   /\ \A c \in Components : /\ stageAge[c] \in Nat /\ since[c] \in Nat
                                             /\ up[c] \in BOOLEAN
                   /\ cacheAge \in Nat
<1>0. Nats
  BY Bounds DEF TypeOK
<1>1. ASSUME NEW r \in Requests, Arrive(r)
      PROVE  AccuracyInv'
  <2>1. \A s \in Requests : pc'[s] = "probing" => pc[s] = "probing" /\ age'[s] = age[s]
    BY <1>1 DEF Arrive, TypeOK
  <2> QED
    BY <1>1, <2>1, AccuracyUntouched DEF Arrive
<1>2. ASSUME NEW r \in Requests, ServeCached(r)
      PROVE  AccuracyInv'
  <2>1. \A s \in Requests : pc'[s] # "probing"
    BY <1>2, AnswerProbers DEF ServeCached, Status, Answers
  <2> QED
    BY <1>2, <2>1, AccuracyNoProber DEF ServeCached
<1>3. ASSUME NEW r \in Requests, StartProbe(r)
      PROVE  AccuracyInv'
  <2>1. \A s \in Requests : pc[s] # "probing"
    BY <1>3, OneHolder, ProberHolds DEF StartProbe
  <2>2. ASSUME NEW s \in Requests, NEW c \in Components, pc'[s] = "probing"
        PROVE  Accurate(s, c)'
    <3>1. probe'[c] = "running" /\ stageAge'[c] = 0
      BY <1>3, <2>1 DEF StartProbe, ProbeInv
    <3> QED
      BY <3>1, Bounds DEF Accurate
  <2>3. ReportAccurate'
    BY <1>3, AccuracyParts DEF StartProbe, ReportAccurate, DownFor, UpFor, cacheVars, envVars
  <2> QED
    BY <2>2, <2>3, AccuracyPartsPrimed
<1>4. ASSUME NEW r \in Requests, Finish(r)
      PROVE  AccuracyInv'
  <2>1. \A s \in Requests : pc'[s] # "probing"
    BY <1>4, AnswerProbers, ProberHolds DEF Finish, Status, Answers
  <2>2. \A c \in Components : DownFor(c)' = DownFor(c) /\ UpFor(c)' = UpFor(c)
    BY <1>4 DEF Finish, envVars, DownFor, UpFor
  <2>3. cacheAge' = 0 /\ cache' = IF ReportHealthy THEN "healthy" ELSE "unhealthy"
    BY <1>4 DEF Finish
  <2>4. ReportAccurate'
    BY <1>4, <2>2, <2>3, FinishAccurate, Bounds DEF ReportAccurate
  <2> QED
    BY <2>1, <2>4, AccuracyPartsPrimed
<1>5. ASSUME NEW r \in Requests, NEW status \in {"gateway_timeout", "gone"},
             DropHandler(r, status)
      PROVE  AccuracyInv'
  <2>1. Answer(r, status) /\ status \in Answers \cup {"gone"}
    BY <1>5 DEF DropHandler, Answers
  <2>2. CASE pc[r] = "probing"
    <3>1. \A s \in Requests : pc'[s] # "probing"
      BY <2>1, <2>2, AnswerProbers, ProberHolds
    <3> QED
      BY <1>5, <3>1, AccuracyNoProber DEF DropHandler
  <2>3. CASE pc[r] # "probing"
    BY <1>5, <2>1, <2>3, AnswerProbers, AccuracyUntouched DEF DropHandler
  <2> QED
    BY <2>2, <2>3
<1>6. ASSUME NEW c \in Components, StageOk(c)
      PROVE  AccuracyInv'
  <2>1. ASSUME NEW r \in Requests, NEW d \in Components, pc'[r] = "probing"
        PROVE  Accurate(r, d)'
    <3>1. pc[r] = "probing" /\ Accurate(r, d) /\ age' = age /\ UNCHANGED envVars
      BY <1>6, <2>1, AccuracyParts DEF StageOk
    <3>2. CASE d = c
      <4>1. up'[c] /\ stageAge'[c] = 0 /\ probe'[c] \in {"running", "ok"}
        BY <1>6 DEF StageOk, TypeOK, envVars
      <4> QED
        BY <1>0, <3>1, <3>2, <4>1, Bounds DEF Accurate, DownFor
    <3>3. CASE d # c
      <4>1. probe'[d] = probe[d] /\ stageAge'[d] = stageAge[d]
        BY <1>6, <3>3 DEF StageOk, TypeOK
      <4> QED
        BY <3>1, <4>1 DEF Accurate, DownFor, UpFor, envVars
    <3> QED
      BY <3>2, <3>3
  <2>2. ReportAccurate'
    BY <1>6, AccuracyParts DEF StageOk, ReportAccurate, DownFor, UpFor, cacheVars, envVars
  <2> QED
    BY <2>1, <2>2, AccuracyPartsPrimed
<1>7. ASSUME NEW c \in Components, StageFail(c) \/ StageTimesOut(c)
      PROVE  AccuracyInv'
  <2>1. ASSUME NEW r \in Requests, NEW d \in Components, pc'[r] = "probing"
        PROVE  Accurate(r, d)'
    <3>1. /\ pc[r] = "probing" /\ Accurate(r, d)
          /\ age' = age /\ stageAge' = stageAge /\ UNCHANGED envVars
      BY <1>7, <2>1, AccuracyParts DEF StageFail, StageTimesOut
    <3>2. CASE d = c
      <4>1. probe'[c] = "failed"
        BY <1>7 DEF StageFail, StageTimesOut, TypeOK
      <4>2. UpFor(c) <= age[r]
        BY <1>7, <3>1, FailureAccurate
      <4> QED
        BY <3>1, <3>2, <4>1, <4>2 DEF Accurate, UpFor, envVars
    <3>3. CASE d # c
      <4>1. probe'[d] = probe[d]
        BY <1>7, <3>3 DEF StageFail, StageTimesOut, TypeOK
      <4> QED
        BY <3>1, <4>1 DEF Accurate, DownFor, UpFor, envVars
    <3> QED
      BY <3>2, <3>3
  <2>2. ReportAccurate'
    BY <1>7, AccuracyParts
       DEF StageFail, StageTimesOut, ReportAccurate, DownFor, UpFor, cacheVars, envVars
  <2> QED
    BY <2>1, <2>2, AccuracyPartsPrimed
<1>8. ASSUME NEW c \in Components, Flip(c)
      PROVE  AccuracyInv'
  <2>1. /\ \A d \in Components : d # c => up'[d] = up[d] /\ since'[d] = since[d]
        /\ since'[c] = 0
        /\ UNCHANGED <<pc, age, probeVars, cacheVars>>
    BY <1>8 DEF Flip, TypeOK
  <2>2. /\ DownFor(c)' = 0 /\ UpFor(c)' = 0
        /\ \A d \in Components : d # c => DownFor(d)' = DownFor(d) /\ UpFor(d)' = UpFor(d)
    BY <2>1 DEF DownFor, UpFor
  <2>3. ASSUME NEW r \in Requests, NEW d \in Components, pc'[r] = "probing"
        PROVE  Accurate(r, d)'
    <3>1. Accurate(r, d)
      BY <2>1, <2>3, AccuracyParts
    <3> QED
      BY <1>0, <2>1, <2>2, <3>1, Bounds DEF Accurate, probeVars
  <2>4. ReportAccurate'
    <3>1. ReportAccurate /\ 0 <= RequestTimeout + cacheAge
      BY <1>0, AccuracyParts, Bounds
    <3>2. cache' = cache /\ cacheAge' = cacheAge
      BY <2>1 DEF cacheVars
    <3> QED
      BY <2>2, <3>1, <3>2 DEF ReportAccurate
  <2> QED
    BY <2>3, <2>4, AccuracyPartsPrimed
<1>9. ASSUME Tick
      PROVE  AccuracyInv'
  <2>1. \A c \in Components :
          /\ since'[c] \in Nat /\ since'[c] <= since[c] + 1 /\ since'[c] <= Horizon
          /\ up'[c] = up[c] /\ probe'[c] = probe[c]
    BY <1>0, <1>9, Bounds DEF Tick, Later, TypeOK
  <2>2. ASSUME NEW r \in Requests, NEW c \in Components, pc'[r] = "probing"
        PROVE  Accurate(r, c)'
    <3>1. pc[r] = "probing" /\ age'[r] = age[r] + 1
      BY <1>9, <2>2 DEF Tick, Pending, TypeOK
    <3>2. Accurate(r, c)
      BY <3>1, AccuracyParts
    <3>3. probe[c] = "ok" => DownFor(c)' <= age'[r]
      BY <1>0, <2>1, <3>1, <3>2 DEF Accurate, DownFor
    <3>4. probe[c] = "failed" => UpFor(c)' <= age'[r]
      BY <1>0, <2>1, <3>1, <3>2 DEF Accurate, UpFor
    <3>5. ASSUME probe[c] = "running", stageAge'[c] > AnswerTime, up[c]
          PROVE  since'[c] < stageAge'[c]
      <4>1. stageAge'[c] = stageAge[c] + 1
        BY <1>9, <3>5 DEF Tick
      <4>2. ~AnswerDue(c)
        BY <1>9 DEF Tick
      <4>3. stageAge[c] >= AnswerTime
        BY <1>0, <3>5, <4>1, Bounds
      <4>4. since[c] < stageAge[c]
        BY <1>0, <3>5, <4>2, <4>3 DEF AnswerDue
      <4> QED
        BY <1>0, <2>1, <4>1, <4>4
    <3> QED
      BY <2>1, <3>3, <3>4, <3>5 DEF Accurate
  <2>3. ReportAccurate'
    <3>1. ReportAccurate /\ cache' = cache
      BY <1>9, AccuracyParts DEF Tick
    <3>2. CASE cache = "empty"
      BY <3>1, <3>2 DEF ReportAccurate
    <3>3. CASE cache # "empty" /\ cacheAge < CacheTtl
      <4>1. cacheAge' = cacheAge + 1
        BY <1>9, <3>3 DEF Tick, Later
      <4>2. \A c \in Components : /\ DownFor(c) \in Nat /\ DownFor(c)' <= DownFor(c) + 1
                                  /\ UpFor(c) \in Nat /\ UpFor(c)' <= UpFor(c) + 1
                                  /\ DownFor(c)' \in Nat /\ UpFor(c)' \in Nat
        BY <1>0, <2>1 DEF DownFor, UpFor
      <4> QED
        BY <1>0, <3>1, <4>1, <4>2, Bounds DEF ReportAccurate
    <3>4. CASE cache # "empty" /\ ~(cacheAge < CacheTtl)
      <4>1. cacheAge' = CacheTtl
        BY <1>9, <3>4, Bounds DEF Tick, Later, TypeOK
      <4>2. \A c \in Components : DownFor(c)' <= Horizon /\ UpFor(c)' <= Horizon
        BY <2>1, Bounds DEF DownFor, UpFor
      <4>3. cache = "unhealthy" => Components # {}
        BY <3>1 DEF ReportAccurate
      <4> QED
        BY <3>1, <4>1, <4>2, <4>3, Bounds DEF ReportAccurate
    <3> QED
      BY <3>2, <3>3, <3>4
  <2> QED
    BY <2>2, <2>3, AccuracyPartsPrimed
<1>10. CASE UNCHANGED vars
  <2>1. \A r \in Requests : pc'[r] = "probing" => pc[r] = "probing" /\ age'[r] = age[r]
    BY <1>10 DEF vars
  <2> QED
    BY <1>10, <2>1, AccuracyUntouched DEF vars, probeVars, cacheVars, envVars
<1> QED
  BY <1>1, <1>2, <1>3, <1>4, <1>5, <1>6, <1>7, <1>8, <1>9, <1>10
     DEF Next, RequestNext, ComponentNext, RequestTimesOut, Disconnect

-----------------------------------------------------------------------------
(* The theorems.                                                           *)

\* The initial states satisfy the inductive invariant.
LEMMA InitIInv == Init => IInv
<1> SUFFICES ASSUME Init
             PROVE  IInv
  OBVIOUS
<1>1. TypeOK
  BY Bounds, ParametersAssumption DEF Init, TypeOK, Pending, Answers
<1>2. InQueue = {}
  BY DEF Init, InQueue, Pending
<1>3. QueueInv
  BY <1>2 DEF Init, QueueInv, OldestFirst, Pending
<1>4. ProbeInv
  BY DEF Init, ProbeInv
<1>5. AccuracyInv
  BY DEF Init, AccuracyInv
<1> QED
  BY <1>1, <1>3, <1>4, <1>5 DEF IInv

\* IInv is an invariant of the specification.
THEOREM Invariance == Spec => []IInv
<1>1. IInv /\ [Next]_vars => IInv'
  BY TypeStep, QueueStep, ProbeStep, AccuracyStep DEF IInv
<1> QED
  BY InitIInv, <1>1, PTL DEF Spec

\* The state of the endpoint is always well typed: in particular no request
\* outlives RequestTimeout, and no call outlives the request that made it.
THEOREM TypeCorrect == Spec => []TypeOK
<1>1. IInv => TypeOK
  BY DEF IInv
<1> QED
  BY <1>1, Invariance, PTL

\* In every state, while requests wait for the lock of the cache, one of them
\* holds it: no timeout, hang-up or failure on the way loses the lock.  The head
\* of the queue is a request whose set of predecessors is minimal.
THEOREM LockIsNeverLost == Spec => []LockNeverLost
<1>1. IInv => LockNeverLost
  <2> SUFFICES ASSUME TypeOK, QueueInv, InQueue # {}
               PROVE  \E r \in Requests : HoldsLock(r)
    BY DEF IInv, LockNeverLost
  <2> DEFINE Fronts == {ahead[r] : r \in InQueue}
  <2>1. Fronts # {}
    OBVIOUS
  <2>2. Fronts \subseteq FiniteSubsetsOf(Requests)
    <3>1. \A r \in InQueue : ahead[r] \subseteq Requests
      BY DEF TypeOK, InQueue
    <3>2. \A r \in InQueue : IsFiniteSet(ahead[r])
      BY <3>1, FS_Subset, ParametersAssumption
    <3> QED
      BY <3>1, <3>2 DEF FiniteSubsetsOf
  <2>3. PICK front \in Fronts :
          \A other \in Fronts : ~(<<other, front>> \in StrictSubsetOrdering(Requests))
    <3>1. IsWellFoundedOn(StrictSubsetOrdering(Requests), FiniteSubsetsOf(Requests))
      BY FS_StrictSubsetOrderingWellFounded
    <3> HIDE DEF Fronts
    <3> QED
      BY <2>1, <2>2, <3>1, WFMin
  <2>4. PICK r \in InQueue : front = ahead[r]
    OBVIOUS
  <2>5. ahead[r] = {}
    <3> SUFFICES ASSUME NEW s \in ahead[r]
                 PROVE  FALSE
      OBVIOUS
    <3>1. s \in InQueue /\ s # r
      BY <2>4 DEF QueueInv, InQueue
    <3>2. ahead[s] \subseteq ahead[r] /\ s \notin ahead[s]
      BY <2>4, <3>1 DEF QueueInv, InQueue
    <3>3. <<ahead[s], ahead[r]>> \in StrictSubsetOrdering(Requests)
      BY <2>4, <3>1, <3>2 DEF StrictSubsetOrdering, TypeOK, InQueue
    <3> QED
      BY <2>3, <2>4, <3>1, <3>3
  <2> QED
    BY <2>4, <2>5 DEF HoldsLock, InQueue
<1> QED
  BY <1>1, Invariance, PTL

\* At most one request probes the components at any time, and only while there is
\* no fresh report.
THEOREM ProbesAreSingleFlight == Spec => []SingleFlight
<1>1. IInv => SingleFlight
  BY OneHolder, ProberHolds DEF IInv, SingleFlight, ProbeInv
<1> QED
  BY <1>1, Invariance, PTL

\* The lock is served in the order of arrival.
THEOREM LockServesOldest == Spec => []OldestFirst
<1>1. IInv => OldestFirst
  BY DEF IInv, QueueInv
<1> QED
  BY <1>1, Invariance, PTL

\* An answer that a step gives to r comes from the report or from a probe.
LEMMA AnswersExplained ==
  ASSUME TypeOK, [Next]_vars, NEW r \in Requests, NEW healthy \in BOOLEAN,
         pc'[r] = Status(healthy), pc[r] # Status(healthy)
  PROVE  \/ Fresh /\ healthy = (cache = "healthy")
         \/ Finish(r) /\ healthy = ReportHealthy
<1> USE DEF Status
<1>1. ASSUME NEW s \in Requests, Arrive(s) \/ StartProbe(s)
      PROVE  FALSE
  BY <1>1 DEF Arrive, StartProbe, TypeOK
<1>2. ASSUME NEW s \in Requests, ServeCached(s)
      PROVE  Fresh /\ healthy = (cache = "healthy")
  BY <1>2 DEF ServeCached, Answer, TypeOK
<1>3. ASSUME NEW s \in Requests, Finish(s)
      PROVE  Finish(r) /\ healthy = ReportHealthy
  <2>1. s = r /\ pc'[s] = Status(ReportHealthy)
    BY <1>3 DEF Finish, Answer, TypeOK
  <2> QED
    BY <1>3, <2>1 DEF ReportHealthy
<1>4. ASSUME NEW s \in Requests, RequestTimesOut(s) \/ Disconnect(s)
      PROVE  FALSE
  BY <1>4 DEF RequestTimesOut, Disconnect, DropHandler, Answer, TypeOK
<1>5. ASSUME NEW c \in Components, ComponentNext(c)
      PROVE  FALSE
  BY <1>5 DEF ComponentNext, StageOk, StageFail, StageTimesOut, Flip
<1>6. ASSUME Tick
      PROVE  FALSE
  BY <1>6 DEF Tick, TypeOK
<1>7. CASE UNCHANGED vars
  BY <1>7 DEF vars
<1> QED
  BY <1>1, <1>2, <1>3, <1>4, <1>5, <1>6, <1>7 DEF Next, RequestNext

\* Whatever happened to requests and components before, a 200 is evidence that
\* every component worked less than RequestTimeout + CacheTtl ago.
LEMMA OkIsNotStale ==
  ASSUME IInv, [Next]_vars, NEW r \in Requests, pc'[r] = "ok", pc[r] # "ok",
         NEW c \in Components
  PROVE  DownFor(c) < Horizon
<1>1. DownFor(c) \in Nat /\ cacheAge \in Nat
  BY Bounds DEF IInv, TypeOK, DownFor
<1>2. \/ Fresh /\ cache = "healthy"
      \/ Finish(r) /\ ReportHealthy
  BY AnswersExplained DEF IInv, Status
<1>3. CASE Fresh /\ cache = "healthy"
  BY <1>1, <1>3, Bounds DEF IInv, AccuracyInv, Fresh
<1>4. CASE Finish(r) /\ ReportHealthy
  BY <1>1, <1>4, FinishAccurate, Bounds DEF IInv
<1> QED
  BY <1>2, <1>3, <1>4

\* A 503 is evidence that some component was down less than that ago.
LEMMA FailureIsNotStale ==
  ASSUME IInv, [Next]_vars, NEW r \in Requests,
         pc'[r] = "unavailable", pc[r] # "unavailable"
  PROVE  \E c \in Components : UpFor(c) < Horizon
<1>1. cacheAge \in Nat /\ \A c \in Components : UpFor(c) \in Nat
  BY Bounds DEF IInv, TypeOK, UpFor
<1>2. \/ Fresh /\ cache # "healthy"
      \/ Finish(r) /\ ~ReportHealthy
  BY AnswersExplained DEF IInv, Status
<1>3. CASE Fresh /\ cache # "healthy"
  BY <1>1, <1>3, Bounds DEF IInv, TypeOK, AccuracyInv, Fresh
<1>4. CASE Finish(r) /\ ~ReportHealthy
  BY <1>1, <1>4, FinishAccurate, Bounds DEF IInv
<1> QED
  BY <1>2, <1>3, <1>4

\* No answer, good or bad, is staler than a request timeout and the life of a report.
THEOREM AnswersAreNotStale == Spec => NoStaleAnswer
<1>1. IInv /\ [Next]_vars =>
        [\A r \in Requests :
           /\ pc'[r] = "ok" /\ pc[r] # "ok" =>
                \A c \in Components : DownFor(c) < Horizon
           /\ pc'[r] = "unavailable" /\ pc[r] # "unavailable" =>
                \E c \in Components : UpFor(c) < Horizon]_vars
  BY OkIsNotStale, FailureIsNotStale
<1> QED
  BY <1>1, Invariance, PTL DEF Spec, NoStaleAnswer

-----------------------------------------------------------------------------
(* Diagnostics implements ProbeGate.                                       *)

\* A step of the endpoint is a step of the gate or leaves it as it is.
LEMMA GateStep ==
  ASSUME IInv, [Next]_vars
  PROVE  [Gate!Next]_(Gate!vars)
<1> USE DEF Gate!vars, Gate!Next, IInv
<1>1. ASSUME NEW r \in Requests, Arrive(r)
      PROVE  UNCHANGED Gate!vars
  BY <1>1 DEF Arrive, cacheVars, TypeOK
<1>2. ASSUME NEW r \in Requests, ServeCached(r)
      PROVE  UNCHANGED Gate!vars
  <2>1. \A s \in Requests : pc[s] # "probing"
    BY <1>2, OneHolder, ProberHolds DEF ServeCached
  <2>2. \A s \in Requests : pc'[s] # "probing"
    BY <1>2, AnswerProbers DEF ServeCached, Status, Answers
  <2> QED
    BY <1>2, <2>1, <2>2 DEF ServeCached, cacheVars
<1>3. ASSUME NEW r \in Requests, StartProbe(r)
      PROVE  Gate!Begin
  <2>1. \A s \in Requests : pc[s] # "probing"
    BY <1>3, OneHolder, ProberHolds DEF StartProbe
  <2>2. pc'[r] = "probing"
    BY <1>3 DEF StartProbe, TypeOK
  <2>3. cache = "empty" \/ cacheAge = CacheTtl
    BY <1>3, Bounds DEF StartProbe, Fresh, TypeOK
  <2> QED
    BY <1>3, <2>1, <2>2, <2>3 DEF StartProbe, cacheVars, Gate!Begin
<1>4. ASSUME NEW r \in Requests, Finish(r)
      PROVE  Gate!Complete
  <2>1. pc[r] = "probing" /\ \A s \in Requests : pc'[s] # "probing"
    BY <1>4, AnswerProbers, ProberHolds DEF Finish, Status, Answers
  <2> QED
    BY <1>4, <2>1 DEF Finish, Gate!Complete, Gate!Verdicts
<1>5. ASSUME NEW r \in Requests, NEW status \in {"gateway_timeout", "gone"},
             DropHandler(r, status)
      PROVE  Gate!Abandon \/ UNCHANGED Gate!vars
  <2>1. Answer(r, status) /\ status \in Answers \cup {"gone"} /\ UNCHANGED cacheVars
    BY <1>5 DEF DropHandler, Answers
  <2>2. CASE pc[r] = "probing"
    <3>1. \A s \in Requests : pc'[s] # "probing"
      BY <2>1, <2>2, AnswerProbers, ProberHolds
    <3> QED
      BY <2>1, <2>2, <3>1 DEF cacheVars, Gate!Abandon
  <2>3. CASE pc[r] # "probing"
    <3>1. \A s \in Requests : pc'[s] = "probing" <=> pc[s] = "probing"
      BY <2>1, <2>3, AnswerProbers
    <3> QED
      BY <2>1, <3>1 DEF cacheVars
  <2> QED
    BY <2>2, <2>3
<1>6. ASSUME NEW c \in Components, ComponentNext(c)
      PROVE  UNCHANGED Gate!vars
  BY <1>6 DEF ComponentNext, StageOk, StageFail, StageTimesOut, Flip, cacheVars
<1>7. ASSUME Tick
      PROVE  Gate!Age \/ UNCHANGED Gate!vars
  <2>1. \A s \in Requests : pc'[s] = "probing" <=> pc[s] = "probing"
    BY <1>7 DEF Tick, TypeOK, Pending
  <2> QED
    BY <1>7, <2>1, Bounds DEF Tick, Later, Gate!Age, TypeOK
<1>8. CASE UNCHANGED vars
  BY <1>8 DEF vars
<1> QED
  BY <1>1, <1>2, <1>3, <1>4, <1>5, <1>6, <1>7, <1>8
     DEF Next, RequestNext, RequestTimesOut, Disconnect

\* The endpoint implements the gate: whoever asks and however often, the
\* components are probed one probe at a time, and not within CacheTtl of a
\* completed one.
THEOREM ImplementsGate == Spec => GateSpec
<1>1. Init => Gate!Init
  BY DEF Init, Gate!Init
<1>2. IInv /\ [Next]_vars => [Gate!Next]_(Gate!vars)
  BY GateStep
<1> QED
  BY <1>1, <1>2, Invariance, PTL DEF Spec, GateSpec, Gate!Spec

=============================================================================
