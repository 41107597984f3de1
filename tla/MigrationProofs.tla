-------------------------- MODULE MigrationProofs --------------------------
(***************************************************************************)
(* The migration command is safe for any number of jobs and roles, and     *)
(* implements an atomic upgrade of the schema.                             *)
(***************************************************************************)
EXTENDS Migration, TLAPS

\* Nothing has started at the beginning, and there is no schema.
LEMMA InitIInv == Init => IInv
<1> SUFFICES ASSUME Init PROVE IInv
  OBVIOUS
<1>1. TypeOK
  BY DEF Init, TypeOK, Locations, Statements
<1>2. LockInv
  BY MigrationAssumption DEF Init, LockInv, Exclusive, InTransaction
<1>3. SessionInv /\ SchemaInv
  BY DEF Init, SessionInv, SchemaInv, InTransaction
<1> QED
  BY <1>1, <1>2, <1>3 DEF IInv

\* A process that fails leaves the invariant alone, whatever it was doing, unless it
\* had not started.
LEMMA FailsStep ==
  ASSUME IInv, NEW m \in Migrators, pc[m] \in Running, Fails(m),
         UNCHANGED <<existing, compatible, calm>>
  PROVE  IInv'
<1> USE DEF Fails, Goto, database
<1>1. TypeOK'
  BY DEF IInv, TypeOK, Locations, Running
<1>2. LockInv'
  BY DEF IInv, LockInv
<1>3. SessionInv'
  BY DEF IInv, TypeOK, SessionInv, Running
<1>4. SchemaInv'
  BY DEF IInv, SchemaInv
<1> QED
  BY <1>1, <1>2, <1>3, <1>4 DEF IInv

\* Every step of a job preserves the invariant.
LEMMA JobStep ==
  ASSUME IInv, NEW m \in Migrators,
         \/ \E r \in Roles : Start(m, r)
         \/ Step(m) \/ Crash(m) \/ Hang(m) \/ EndSession(m)
  PROVE  IInv'
<1> USE DEF Goto, Send, Answered, Executes, database, environment
<1>0. TypeOK /\ LockInv /\ SessionInv /\ SchemaInv
  BY DEF IInv
<1>1. ASSUME NEW r \in Roles, Start(m, r)
      PROVE  IInv'
  <2>1. TypeOK'
    BY <1>0, <1>1 DEF Start, TypeOK, Locations, Running
  <2>2. LockInv' /\ SchemaInv'
    BY <1>0, <1>1 DEF Start, LockInv, SchemaInv
  <2>3. SessionInv'
    BY <1>0, <1>1 DEF Start, TypeOK, SessionInv
  <2> QED
    BY <2>1, <2>2, <2>3 DEF IInv
<1>2. CASE CheckServer(m)
  <2>1. CASE Fails(m)
    BY <1>2, <2>1, FailsStep DEF CheckServer, Running
  <2>2. CASE ~Fails(m)
    <3>1. TypeOK'
      BY <1>0, <1>2, <2>2 DEF CheckServer, TypeOK, Locations, Running
    <3>2. LockInv' /\ SchemaInv'
      BY <1>0, <1>2, <2>2 DEF CheckServer, LockInv, SchemaInv
    <3>3. SessionInv'
      BY <1>0, <1>2, <2>2 DEF CheckServer, TypeOK, SessionInv
    <3> QED
      BY <3>1, <3>2, <3>3 DEF IInv
  <2> QED
    BY <2>1, <2>2
<1>3. CASE Setup(m)
  <2>1. TypeOK'
    BY <1>0, <1>3 DEF Setup, TypeOK, Locations, Running, Statements
  <2>2. session[m] = "none"
    BY <1>0, <1>3 DEF Setup, SessionInv
  <2>3. LockInv' /\ SchemaInv'
    BY <1>0, <1>3, <2>2 DEF Setup, TypeOK, LockInv, SchemaInv, Exclusive, InTransaction
  <2>4. SessionInv'
    BY <1>0, <1>3 DEF Setup, TypeOK, SessionInv
  <2> QED
    BY <2>1, <2>3, <2>4 DEF IInv
<1>4. CASE Lock(m)
  <2>1. TypeOK'
    BY <1>0, <1>4 DEF Lock, TypeOK, Statements, Exclusive
  <2>2. LockInv'
    BY <1>0, <1>4, MigrationAssumption DEF Lock, TypeOK, LockInv, Exclusive
  <2>3. SessionInv' /\ SchemaInv'
    BY <1>0, <1>4 DEF Lock, TypeOK, SessionInv, SchemaInv, InTransaction
  <2> QED
    BY <2>1, <2>2, <2>3 DEF IInv
<1>5. CASE LockTimesOut(m)
  BY <1>5, FailsStep DEF LockTimesOut, Running
<1>6. CASE List(m)
  <2>1. CASE Fails(m)
    BY <1>6, <2>1, FailsStep DEF List, Running
  <2>2. CASE ~Fails(m)
    <3>1. TypeOK'
      BY <1>0, <1>6, <2>2 DEF List, TypeOK, Statements, Exclusive, InTransaction
    <3>2. LockInv'
      BY <1>0, <1>6, <2>2 DEF List, TypeOK, LockInv, Exclusive, InTransaction
    <3>3. SessionInv'
      BY <1>0, <1>6, <2>2 DEF List, TypeOK, SessionInv
    <3>4. version > 0 <=> 1 \in applied
      BY <1>0 DEF TypeOK, SchemaInv
    <3>5. SchemaInv'
      BY <1>0, <1>6, <2>2, <3>4 DEF List, TypeOK, SchemaInv, InTransaction
    <3> QED
      BY <3>1, <3>2, <3>3, <3>5 DEF IInv
  <2> QED
    BY <2>1, <2>2
<1>7. CASE CreateTable(m) \/ Grant(m)
  <2>1. CASE Fails(m)
    BY <1>7, <2>1, FailsStep DEF CreateTable, Grant, Running
  <2>2. CASE ~Fails(m)
    <3>1. TypeOK'
      BY <1>0, <1>7, <2>2 DEF CreateTable, Grant, TypeOK, Statements, Exclusive, InTransaction
    <3>2. LockInv'
      BY <1>0, <1>7, <2>2 DEF CreateTable, Grant, TypeOK, LockInv, Exclusive, InTransaction
    <3>3. SessionInv' /\ SchemaInv'
      BY <1>0, <1>7, <2>2 DEF CreateTable, Grant, TypeOK, SessionInv, SchemaInv, InTransaction
    <3> QED
      BY <3>1, <3>2, <3>3 DEF IInv
  <2> QED
    BY <2>1, <2>2
<1>8. CASE Commit(m)
  <2>1. TypeOK'
    BY <1>0, <1>8 DEF Commit, Committed, TypeOK, Statements, Exclusive
  <2>2. LockInv'
    BY <1>0, <1>8 DEF Commit, TypeOK, LockInv, Exclusive, InTransaction
  <2>3. SessionInv'
    BY <1>0, <1>8 DEF Commit, TypeOK, SessionInv
  <2>4. SchemaInv'
    <3>1. version = 0 /\ compatible
      BY <1>0, <1>8 DEF Commit, SchemaInv, SessionInv, InTransaction
    <3>2. applied' = 1 .. version' /\ granted' # {} /\ version' = 1 /\ compatible'
      BY <1>0, <1>8, <3>1 DEF Commit, Committed, SchemaInv
    <3>3. \A n \in Migrators : n # m => session'[n] = session[n] /\ session[n] \notin Exclusive
      <4>1. lock = m
        BY <1>0, <1>8 DEF Commit, LockInv, Exclusive, InTransaction
      <4> QED
        BY <1>0, <1>8, <4>1 DEF Commit, TypeOK, LockInv
    <3>4. session'[m] = "unlock"
      BY <1>0, <1>8 DEF Commit, TypeOK
    <3> QED
      BY <3>2, <3>3, <3>4 DEF SchemaInv, Exclusive, InTransaction
  <2> QED
    BY <2>1, <2>2, <2>3, <2>4 DEF IInv
<1>9. CASE Unlock(m)
  <2>1. TypeOK'
    BY <1>0, <1>9 DEF Unlock, TypeOK, Locations, Running, Statements
  <2>2. LockInv'
    BY <1>0, <1>9, MigrationAssumption DEF Unlock, TypeOK, LockInv, Exclusive, InTransaction
  <2>3. SessionInv' /\ SchemaInv'
    BY <1>0, <1>9 DEF Unlock, TypeOK, SessionInv, SchemaInv, InTransaction
  <2> QED
    BY <2>1, <2>2, <2>3 DEF IInv
<1>10. CASE ReadSchema(m) \/ Diagnose(m)
  <2>1. CASE Fails(m)
    BY <1>10, <2>1, FailsStep DEF ReadSchema, Diagnose, Running
  <2>2. CASE ~Fails(m)
    <3>1. /\ pc[m] \in {"diagnose", "report"} /\ m \notin hung
          /\ \/ pc' = [pc EXCEPT ![m] = "ok"] /\ answer' = answer
             \/ pc' = [pc EXCEPT ![m] = "report"] /\ answer' = [answer EXCEPT ![m] = version]
          /\ UNCHANGED <<role, session, hung, lock, database, environment>>
      BY <1>10, <2>2 DEF ReadSchema, Diagnose
    <3>2. TypeOK'
      <4>1. {"ok", "report"} \subseteq Locations /\ "report" \in Running
        BY DEF Locations, Running
      <4> QED
        BY <1>0, <3>1, <4>1 DEF TypeOK
    <3>3. LockInv' /\ SchemaInv'
      BY <1>0, <3>1 DEF LockInv, SchemaInv
    <3>4. session[m] = "none" /\ compatible
      BY <1>0, <3>1 DEF SessionInv
    <3>5. SessionInv'
      BY <1>0, <3>1, <3>4 DEF TypeOK, SessionInv
    <3> QED
      BY <3>2, <3>3, <3>5 DEF IInv
  <2> QED
    BY <2>1, <2>2
<1>11. CASE Expire(m) \/ Crash(m)
  <2>1. pc[m] \in Running
    BY <1>0, <1>11 DEF Expire, Crash, TypeOK
  <2> QED
    BY <1>11, <2>1, FailsStep DEF Expire, Crash
<1>12. CASE Hang(m)
  <2>1. TypeOK'
    BY <1>0, <1>12 DEF Hang, TypeOK
  <2>2. LockInv' /\ SessionInv' /\ SchemaInv'
    BY <1>0, <1>12 DEF Hang, LockInv, SessionInv, SchemaInv
  <2> QED
    BY <2>1, <2>2 DEF IInv
<1>13. CASE EndSession(m)
  <2>1. CASE UNCHANGED database
    <3>1. TypeOK'
      BY <1>0, <1>13, <2>1 DEF EndSession, TypeOK, Statements
    <3>2. LockInv'
      BY <1>0, <1>13, MigrationAssumption
         DEF EndSession, TypeOK, LockInv, Exclusive, InTransaction
    <3>3. SessionInv' /\ SchemaInv'
      BY <1>0, <1>13, <2>1 DEF EndSession, TypeOK, SessionInv, SchemaInv, InTransaction
    <3> QED
      BY <3>1, <3>2, <3>3 DEF IInv
  <2>2. CASE session[m] = "commit" /\ Committed(m)
    <3>1. TypeOK'
      BY <1>0, <1>13, <2>2 DEF EndSession, Committed, TypeOK, Statements
    <3>2. LockInv'
      BY <1>0, <1>13, MigrationAssumption
         DEF EndSession, TypeOK, LockInv, Exclusive, InTransaction
    <3>3. SessionInv'
      BY <1>0, <1>13 DEF EndSession, TypeOK, SessionInv
    <3>4. version = 0 /\ compatible
      BY <1>0, <2>2 DEF SchemaInv, SessionInv, InTransaction
    <3>5. applied' = 1 .. version' /\ granted' # {} /\ version' = 1 /\ compatible'
      BY <1>0, <1>13, <2>2, <3>4 DEF EndSession, Committed, SchemaInv
    <3>6. \A n \in Migrators : session'[n] \notin Exclusive
      BY <1>0, <1>13, <2>2 DEF EndSession, TypeOK, LockInv, Exclusive, InTransaction
    <3>7. SchemaInv'
      BY <3>5, <3>6 DEF SchemaInv, Exclusive, InTransaction
    <3> QED
      BY <3>1, <3>2, <3>3, <3>7 DEF IInv
  <2> QED
    BY <1>13, <2>1, <2>2 DEF EndSession
<1> QED
  BY <1>1, <1>2, <1>3, <1>4, <1>5, <1>6, <1>7, <1>8, <1>9, <1>10, <1>11, <1>12, <1>13
     DEF Step

\* Every step of the environment does.
LEMMA EnvironmentStep ==
  ASSUME IInv, (\E r \in Roles : CreateRole(r)) \/ LaterRelease \/ CalmDown
  PROVE  IInv'
<1> USE DEF database, environment
<1>0. TypeOK /\ LockInv /\ SessionInv /\ SchemaInv
  BY DEF IInv
<1>1. CASE (\E r \in Roles : CreateRole(r)) \/ CalmDown
  <2>1. TypeOK'
    BY <1>0, <1>1 DEF CreateRole, CalmDown, TypeOK
  <2>2. LockInv' /\ SessionInv' /\ SchemaInv'
    BY <1>0, <1>1 DEF CreateRole, CalmDown, LockInv, SessionInv, SchemaInv
  <2> QED
    BY <2>1, <2>2 DEF IInv
<1>2. CASE LaterRelease
  <2>1. TypeOK'
    BY <1>0, <1>2 DEF LaterRelease, TypeOK
  <2>2. LockInv' /\ SessionInv'
    BY <1>0, <1>2 DEF LaterRelease, LockInv, SessionInv
  <2>3. \A m \in Migrators : session[m] \notin Exclusive
    BY <1>0, <1>2, MigrationAssumption DEF LaterRelease, LockInv
  <2>4. applied' = 1 .. version'
    BY <1>0, <1>2 DEF LaterRelease, SchemaInv
  <2>5. SchemaInv'
    BY <1>0, <1>2, <2>3, <2>4 DEF LaterRelease, SchemaInv, Exclusive, InTransaction
  <2> QED
    BY <2>1, <2>2, <2>5 DEF IInv
<1> QED
  BY <1>1, <1>2

\* Every step preserves the invariant.
LEMMA NextIInv == IInv /\ [Next]_vars => IInv'
<1> SUFFICES ASSUME IInv, [Next]_vars PROVE IInv'
  OBVIOUS
<1>1. CASE UNCHANGED vars
  BY <1>1 DEF vars, database, environment, IInv, TypeOK, LockInv, SessionInv, SchemaInv
<1> QED
  BY <1>1, JobStep, EnvironmentStep DEF Next

-----------------------------------------------------------------------------
(* The theorems.                                                           *)

\* Locks, sessions and the schema fit together in every state, for any number of
\* jobs and roles.
THEOREM Invariance == Spec => []IInv
  BY InitIInv, NextIInv, PTL DEF Spec

\* Every state is well typed, and only a running process waits for an answer.
THEOREM TypeCorrect == Spec => []TypeOK
<1>1. IInv => TypeOK
  BY DEF IInv
<1> QED
  BY <1>1, Invariance, PTL

\* Two sessions are never in the migration at once.
THEOREM MigrationsExclude == Spec => []OneMigrationAtATime
<1>1. IInv => OneMigrationAtATime
  BY DEF IInv, LockInv, OneMigrationAtATime
<1> QED
  BY <1>1, Invariance, PTL

\* A server of another version is left alone.
THEOREM OtherServersUntouched == Spec => []IncompatibleIsUntouched
<1>1. IInv => IncompatibleIsUntouched
  BY DEF IInv, TypeOK, SessionInv, SchemaInv, IncompatibleIsUntouched
<1> QED
  BY <1>1, Invariance, PTL

\* What keeps a job from reporting a success that comes too late: the schema is of a later
\* release, and the job has not yet been told a version, or has been told that one.
Superseded(m) ==
  /\ version = 2
  /\ pc[m] # "ok"
  /\ pc[m] = "report" => answer[m] = 2

\* A schema that has been superseded does not go back, whoever migrates.
LEMMA SupersededStays ==
  ASSUME IInv, [Next]_vars, version = 2
  PROVE  version' = 2
<1> USE DEF Fails, database
<1>1. CASE UNCHANGED vars
  BY <1>1 DEF vars
<1>2. ASSUME NEW m \in Migrators,
             \/ \E r \in Roles : Start(m, r)
             \/ Step(m) \/ Crash(m) \/ Hang(m) \/ EndSession(m)
      PROVE  version' = 2
  <2>1. session[m] \notin InTransaction
    BY DEF IInv, SchemaInv
  <2>2. CASE Commit(m) \/ EndSession(m)
    BY <2>1, <2>2 DEF Commit, Executes, EndSession, InTransaction
  <2>3. CASE (\E r \in Roles : Start(m, r)) \/ Crash(m) \/ Hang(m) \/ Expire(m)
    BY <2>3 DEF Start, Crash, Hang, Expire
  <2>4. CASE \/ CheckServer(m) \/ Setup(m) \/ Lock(m) \/ LockTimesOut(m) \/ List(m)
             \/ CreateTable(m) \/ Grant(m) \/ Unlock(m) \/ ReadSchema(m) \/ Diagnose(m)
    BY <2>4 DEF CheckServer, Setup, Lock, LockTimesOut, List, CreateTable, Grant, Unlock,
                ReadSchema, Diagnose
  <2> QED
    BY <1>2, <2>2, <2>3, <2>4 DEF Step
<1>3. CASE (\E r \in Roles : CreateRole(r)) \/ LaterRelease \/ CalmDown
  BY <1>3 DEF CreateRole, LaterRelease, CalmDown
<1> QED
  BY <1>1, <1>2, <1>3 DEF Next

\* No step brings a job to a success, or to an answer of the version of this release.
LEMMA SupersededStep ==
  ASSUME IInv, [Next]_vars, NEW m \in Migrators, Superseded(m)
  PROVE  Superseded(m)'
<1> USE DEF Goto, Send, Fails, Answered, Executes, Superseded
<1>1. version' = 2
  BY SupersededStays
<1>2. TypeOK
  BY DEF IInv
<1>3. CASE UNCHANGED vars
  BY <1>3 DEF vars, database
<1>4. ASSUME NEW n \in Migrators,
             \/ \E r \in Roles : Start(n, r)
             \/ Step(n) \/ Crash(n) \/ Hang(n) \/ EndSession(n)
      PROVE  Superseded(m)'
  <2>1. CASE Fails(n)
    BY <1>1, <1>2, <2>1 DEF TypeOK
  <2>2. CASE ReadSchema(n) /\ ~Fails(n)
    <3>1. pc' = [pc EXCEPT ![n] = "report"] /\ answer' = [answer EXCEPT ![n] = version]
      BY <2>2 DEF ReadSchema
    <3> QED
      BY <1>1, <1>2, <3>1 DEF TypeOK
  <2>3. CASE Diagnose(n) /\ ~Fails(n)
    <3>1. /\ pc[n] = "report" /\ answer[n] = 1
          /\ pc' = [pc EXCEPT ![n] = "ok"] /\ answer' = answer
      BY <2>3 DEF Diagnose
    <3>2. m # n
      BY <3>1
    <3> QED
      BY <1>1, <1>2, <3>1, <3>2 DEF TypeOK
  <2>4. CASE (\E r \in Roles : Start(n, r)) \/ Hang(n) \/ EndSession(n)
    BY <1>1, <1>2, <2>4 DEF Start, Hang, EndSession, TypeOK
  <2>5. CASE /\ ~Fails(n)
             /\ CheckServer(n) \/ Setup(n) \/ Lock(n) \/ List(n) \/ CreateTable(n) \/ Grant(n)
    BY <1>1, <1>2, <2>5 DEF CheckServer, Setup, Lock, List, CreateTable, Grant, TypeOK
  <2>6. CASE Commit(n) \/ Unlock(n)
    BY <1>1, <1>2, <2>6 DEF Commit, Unlock, TypeOK
  <2> QED
    BY <1>4, <2>1, <2>2, <2>3, <2>4, <2>5, <2>6 DEF Step, LockTimesOut, Expire, Crash
<1>5. CASE (\E r \in Roles : CreateRole(r)) \/ LaterRelease \/ CalmDown
  BY <1>1, <1>5 DEF CreateRole, LaterRelease, CalmDown
<1> QED
  BY <1>3, <1>4, <1>5 DEF Next

\* No job reports success on a schema that a later release has migrated before the job
\* has read it, in no run and no retry, for any number of jobs.
THEOREM LaterReleaseIsNoticed == Spec => SupersededIsNoticed
<1> SUFFICES ASSUME NEW m \in Migrators
             PROVE  Spec => [](version = 2 /\ pc[m] \notin {"report", "ok"} => [](pc[m] # "ok"))
  BY DEF SupersededIsNoticed
<1>1. IInv /\ Superseded(m) /\ [Next]_vars => Superseded(m)'
  BY SupersededStep
<1>2. version = 2 /\ pc[m] \notin {"report", "ok"} => Superseded(m)
  BY DEF Superseded
<1>3. Superseded(m) => pc[m] # "ok"
  BY DEF Superseded
<1> QED
  BY <1>1, <1>2, <1>3, Invariance, PTL DEF Spec

\* The migration command implements an atomic upgrade: its first states are first
\* states, a commit is the upgrade, whether its process lives to see it or not, and
\* every other step changes nothing that an application relies on.
THEOREM ImplementsUpgrade == Spec => AtomicUpgrade
<1>1. Init => UpgradeSpec!Init
  BY DEF Init, UpgradeSpec!Init
<1>2. ASSUME IInv, NEW m \in Migrators, session[m] = "commit", Committed(m)
      PROVE  UpgradeSpec!Next
  <2>1. version = 0 /\ applied = {} /\ granted = {} /\ role[m] \in Roles
    BY <1>2 DEF IInv, TypeOK, SchemaInv, InTransaction
  <2>2. UpgradeSpec!Upgrade(role[m])
    BY <1>2, <2>1 DEF Committed, UpgradeSpec!Upgrade
  <2> QED
    BY <2>1, <2>2 DEF UpgradeSpec!Next
<1>3. IInv /\ [Next]_vars => [UpgradeSpec!Next]_UpgradeSpec!vars
  <2> SUFFICES ASSUME IInv, [Next]_vars, ~UNCHANGED database
               PROVE  UpgradeSpec!Next
    BY DEF UpgradeSpec!vars, database
  <2> USE DEF Fails, database
  <2>1. CASE UNCHANGED vars
    BY <2>1 DEF vars
  <2>2. ASSUME NEW m \in Migrators,
               \/ \E r \in Roles : Start(m, r)
               \/ Step(m) \/ Crash(m) \/ Hang(m) \/ EndSession(m)
        PROVE  UpgradeSpec!Next
    <3>1. CASE Commit(m) \/ EndSession(m)
      BY <1>2, <3>1 DEF Commit, Executes, EndSession
    <3>2. CASE (\E r \in Roles : Start(m, r)) \/ Crash(m) \/ Hang(m) \/ Expire(m)
      BY <3>2 DEF Start, Crash, Hang, Expire
    <3>3. CASE \/ CheckServer(m) \/ Setup(m) \/ Lock(m) \/ LockTimesOut(m) \/ List(m)
               \/ CreateTable(m) \/ Grant(m) \/ Unlock(m) \/ ReadSchema(m) \/ Diagnose(m)
      BY <3>3 DEF CheckServer, Setup, Lock, LockTimesOut, List, CreateTable, Grant, Unlock,
                  ReadSchema, Diagnose
    <3> QED
      BY <2>2, <3>1, <3>2, <3>3 DEF Step
  <2>3. CASE (\E r \in Roles : CreateRole(r)) \/ CalmDown
    BY <2>3 DEF CreateRole, CalmDown
  <2>4. CASE LaterRelease
    BY <2>4 DEF LaterRelease, UpgradeSpec!Next, UpgradeSpec!Supersede
  <2> QED
    BY <2>1, <2>2, <2>3, <2>4 DEF Next
<1> QED
  BY <1>1, <1>3, Invariance, PTL DEF Spec, AtomicUpgrade, UpgradeSpec!Spec

=============================================================================
