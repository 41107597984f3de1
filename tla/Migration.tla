----------------------------- MODULE Migration -----------------------------
(***************************************************************************)
(* `wikinext migrate': PostgresStore::migrate and ::diagnose of            *)
(* crates/store/src/postgres.rs and the one migration there is, run by     *)
(* several processes against one database.                                 *)
(*                                                                         *)
(* A process and its session in the server are two things: the process may *)
(* fail, crash or reach a deadline while the server still executes its     *)
(* last statement and still holds its locks.  A migration job whose        *)
(* process failed may be run again, for another application role.          *)
(***************************************************************************)
EXTENDS Naturals

CONSTANTS
  Migrators,  \* migration jobs
  Roles,      \* application roles they may be configured with
  Free        \* the holder of the migration lock when there is none

ASSUME MigrationAssumption == Free \notin Migrators

\* Where a process is in migrate(), and the results it may end with.
Running == {"server", "setup", "run", "diagnose", "report"}
Locations == {"idle"} \cup Running \cup {"ok", "failed"}

\* The statement that a session has been sent: the lock, the list of applied
\* migrations, and the migration's transaction; "none" for no session, or one that
\* holds nothing.
InTransaction == {"table", "grants", "commit"}
Exclusive == {"list"} \cup InTransaction \cup {"unlock"}
Statements == {"none", "lock"} \cup Exclusive

VARIABLES
  pc,          \* per job, where its process is
  role,        \* per job, the application role of its configuration
  session,     \* per job, the statement that its session executes
  answer,      \* per job, the schema version that its final probe has been told, or 0
  hung,        \* the jobs whose process waits for an answer that will not come
  lock,        \* the session that holds the advisory lock of the migrator
  version,     \* committed version in wikinext_schema_state, 0 if there is no table
  applied,     \* committed rows of the migrator's own table
  granted,     \* roles with committed grants
  existing,    \* roles that exist in the server
  compatible,  \* whether the server is of the expected version
  calm         \* no more failures

database == <<version, applied, granted>>
environment == <<existing, compatible, calm>>
vars == <<pc, role, session, answer, hung, lock, database, environment>>

Init ==
  /\ pc = [m \in Migrators |-> "idle"]
  /\ role \in [Migrators -> Roles]
  /\ session = [m \in Migrators |-> "none"]
  /\ answer = [m \in Migrators |-> 0]
  /\ hung = {}
  /\ lock = Free
  /\ version = 0
  /\ applied = {}
  /\ granted = {}
  /\ existing \in SUBSET Roles
  /\ compatible \in BOOLEAN
  /\ calm = FALSE

Goto(m, l) == pc' = [pc EXCEPT ![m] = l]

Send(m, statement) == session' = [session EXCEPT ![m] = statement]

\* The process is waiting for an answer of the server, and gets it.
Answered(m, l) == pc[m] = l /\ m \notin hung

\* The process has sent this statement, and gets its answer.
Executes(m, statement) == Answered(m, "run") /\ session[m] = statement

\* Mutant of Fails: what has failed is still waited for.
FailsWaiting(m) ==
  /\ Goto(m, "failed")
  /\ answer' = [answer EXCEPT ![m] = 0]
  /\ UNCHANGED <<role, session, hung, lock, database>>

\* The process returns an error.  Its session is left to find out by itself.
Fails(m) ==
  /\ Goto(m, "failed")
  /\ hung' = hung \ {m}
  /\ answer' = [answer EXCEPT ![m] = 0]
  /\ UNCHANGED <<role, session, lock, database>>

-----------------------------------------------------------------------------
(* The process.                                                            *)

\* The job's process starts, the first time or again.
Start(m, r) ==
  /\ pc[m] \in {"idle", "failed"}
  /\ session[m] = "none"
  /\ Goto(m, "server")
  /\ role' = [role EXCEPT ![m] = r]
  /\ UNCHANGED <<session, answer, hung, lock, database, environment>>

\* Mutant of CheckServer: the version of the server is not looked at.
CheckServerNever(m) ==
  /\ Answered(m, "server")
  /\ Goto(m, "setup")
  /\ UNCHANGED <<role, session, answer, hung, lock, database, environment>>

\* ensure_compatible_server(), before anything else.
CheckServer(m) ==
  /\ Answered(m, "server")
  /\ IF compatible
       THEN /\ Goto(m, "setup")
            /\ UNCHANGED <<role, session, answer, hung, lock, database>>
       ELSE Fails(m)
  /\ UNCHANGED environment

\* A connection, its timeouts, search path and application role.
Setup(m) ==
  /\ Answered(m, "setup")
  /\ Goto(m, "run")
  /\ Send(m, "lock")
  /\ UNCHANGED <<role, answer, hung, lock, database, environment>>

\* Mutant of Lock: the migrator does not lock.
LockNothing(m) ==
  /\ Executes(m, "lock")
  /\ lock' = m
  /\ Send(m, "list")
  /\ UNCHANGED <<pc, role, answer, hung, database, environment>>

\* The migrator takes its lock, for as long as the session lives.
Lock(m) ==
  /\ Executes(m, "lock")
  /\ lock = Free
  /\ lock' = m
  /\ Send(m, "list")
  /\ UNCHANGED <<pc, role, answer, hung, database, environment>>

\* lock_timeout, while another session has the lock.
LockTimesOut(m) ==
  /\ Executes(m, "lock")
  /\ lock # Free
  /\ Fails(m)
  /\ UNCHANGED environment

\* What has been applied already, and whether this release knows all of it.
List(m) ==
  /\ Executes(m, "list")
  /\ IF 2 \in applied THEN Fails(m)
     ELSE /\ Send(m, IF 1 \in applied THEN "unlock" ELSE "table")
          /\ UNCHANGED <<pc, role, answer, hung, lock, database>>
  /\ UNCHANGED environment

\* Mutant of CreateTable: the migration is not in a transaction.
CreateTableAtOnce(m) ==
  /\ Executes(m, "table")
  /\ IF version > 0 THEN Fails(m)
     ELSE /\ Send(m, "grants")
          /\ version' = 1
          /\ UNCHANGED <<pc, role, answer, hung, lock, applied, granted>>
  /\ UNCHANGED environment

\* The table of versions and its rows, not yet committed.
CreateTable(m) ==
  /\ Executes(m, "table")
  /\ IF version > 0 THEN Fails(m)
     ELSE /\ Send(m, "grants")
          /\ UNCHANGED <<pc, role, answer, hung, lock, database>>
  /\ UNCHANGED environment

\* The grants to the application role, not yet committed.
Grant(m) ==
  /\ Executes(m, "grants")
  /\ IF role[m] \notin existing THEN Fails(m)
     ELSE /\ Send(m, "commit")
          /\ UNCHANGED <<pc, role, answer, hung, lock, database>>
  /\ UNCHANGED environment

\* The transaction takes effect, with the record of the migration.
Committed(m) ==
  /\ version' = 1
  /\ applied' = applied \cup {1}
  /\ granted' = granted \cup {role[m]}

Commit(m) ==
  /\ Executes(m, "commit")
  /\ Committed(m)
  /\ Send(m, "unlock")
  /\ UNCHANGED <<pc, role, answer, hung, lock, environment>>

Unlock(m) ==
  /\ Executes(m, "unlock")
  /\ lock' = Free
  /\ Send(m, "none")
  /\ Goto(m, "diagnose")
  /\ UNCHANGED <<role, answer, hung, database, environment>>

\* diagnose(), by the migration role, which owns the table: the server, and the version
\* that the schema has when the query is executed there.
ReadSchema(m) ==
  /\ Answered(m, "diagnose")
  /\ IF compatible
       THEN /\ Goto(m, "report")
            /\ answer' = [answer EXCEPT ![m] = version]
            /\ UNCHANGED <<role, session, hung, lock, database>>
       ELSE Fails(m)
  /\ UNCHANGED environment

\* Mutant of Diagnose: any schema will do.
DiagnoseAny(m) ==
  /\ Answered(m, "report")
  /\ IF answer[m] > 0
       THEN /\ Goto(m, "ok")
            /\ UNCHANGED <<role, session, answer, hung, lock, database>>
       ELSE Fails(m)
  /\ UNCHANGED environment

\* The process gets the version, perhaps no longer that of the schema, and judges it.
Diagnose(m) ==
  /\ Answered(m, "report")
  /\ IF answer[m] = 1
       THEN /\ Goto(m, "ok")
            /\ UNCHANGED <<role, session, answer, hung, lock, database>>
       ELSE Fails(m)
  /\ UNCHANGED environment

-----------------------------------------------------------------------------
(* Failures.                                                               *)

\* An error of a connection or of the server, or the end of the process.
Crash(m) ==
  /\ ~calm
  /\ pc[m] \in Running
  /\ Fails(m)
  /\ UNCHANGED environment

\* An answer is lost, or a statement takes for ever.
Hang(m) ==
  /\ ~calm
  /\ pc[m] \in Running /\ m \notin hung
  /\ hung' = hung \cup {m}
  /\ UNCHANGED <<pc, role, session, answer, lock, database, environment>>

\* Mutant of Expire: only the probes have a deadline.
ExpireProbe(m) ==
  /\ m \in hung
  /\ pc[m] \in {"server", "diagnose", "report"}
  /\ Fails(m)
  /\ UNCHANGED environment

\* The deadlines: one for each of the two probes and one for all that is between.
Expire(m) ==
  /\ m \in hung
  /\ Fails(m)
  /\ UNCHANGED environment

\* The server notices that the process is gone: it finishes the statement that it
\* was executing, rolls back what is not committed and releases the lock.
EndSession(m) ==
  /\ pc[m] = "failed"
  /\ session[m] # "none"
  /\ Send(m, "none")
  /\ lock' = IF lock = m THEN Free ELSE lock
  /\ \/ UNCHANGED database
     \/ session[m] = "commit" /\ Committed(m)
  /\ UNCHANGED <<pc, role, answer, hung, environment>>

-----------------------------------------------------------------------------
(* The environment.                                                        *)

\* An administrator creates a role.
CreateRole(r) ==
  /\ r \notin existing
  /\ existing' = existing \cup {r}
  /\ UNCHANGED <<pc, role, session, answer, hung, lock, database, compatible, calm>>

\* A later release migrates the same database.
LaterRelease ==
  /\ lock = Free
  /\ version = 1
  /\ version' = 2
  /\ applied' = applied \cup {2}
  /\ UNCHANGED <<pc, role, session, answer, hung, lock, granted, environment>>

\* From here on nothing fails by itself.
CalmDown ==
  /\ ~calm
  /\ calm' = TRUE
  /\ UNCHANGED <<pc, role, session, answer, hung, lock, database, existing, compatible>>

Step(m) ==
  \/ CheckServer(m) \/ Setup(m) \/ Lock(m) \/ LockTimesOut(m) \/ List(m)
  \/ CreateTable(m) \/ Grant(m) \/ Commit(m) \/ Unlock(m)
  \/ ReadSchema(m) \/ Diagnose(m) \/ Expire(m)

Next ==
  \/ \E m \in Migrators :
       \/ \E r \in Roles : Start(m, r)
       \/ Step(m)
       \/ Crash(m) \/ Hang(m) \/ EndSession(m)
  \/ \E r \in Roles : CreateRole(r)
  \/ LaterRelease
  \/ CalmDown

Spec == Init /\ [][Next]_vars

\* The server answers or a deadline passes, sessions of dead processes end, and a
\* job that failed is run again.
Fairness ==
  \A m \in Migrators :
    /\ WF_vars(Step(m))
    /\ WF_vars(EndSession(m))
    /\ WF_vars(\E r \in Roles : Start(m, r))

FairSpec == Spec /\ Fairness

-----------------------------------------------------------------------------
(* Correctness.                                                            *)

TypeOK ==
  /\ pc \in [Migrators -> Locations]
  /\ role \in [Migrators -> Roles]
  /\ session \in [Migrators -> Statements]
  /\ answer \in [Migrators -> {0, 1, 2}]
  /\ hung \subseteq {m \in Migrators : pc[m] \in Running}
  /\ lock \in Migrators \cup {Free}
  /\ version \in {0, 1, 2}
  /\ applied \subseteq {1, 2}
  /\ granted \subseteq Roles
  /\ existing \subseteq Roles
  /\ compatible \in BOOLEAN
  /\ calm \in BOOLEAN

\* Two sessions are never in the migration at once, even if the process of one of
\* them is long gone and its job, or another, has been run since.
OneMigrationAtATime ==
  \A m, n \in Migrators : session[m] \in Exclusive /\ session[n] \in Exclusive => m = n

\* A server of another version is left alone: nobody waits for a lock on it, and
\* no schema is created.
IncompatibleIsUntouched ==
  ~compatible => version = 0 /\ \A m \in Migrators : session[m] = "none"

\* Once a later release has migrated the database no job reports success any more, in
\* the run it is in, wherever that is, or in any retry: the check for migrations that this
\* release does not know, or else the probe at the end, stops it.  Only an answer that
\* was given before still counts.
SupersededIsNoticed ==
  \A m \in Migrators :
    [](version = 2 /\ pc[m] \notin {"report", "ok"} => [](pc[m] # "ok"))

\* Crashes, lost answers, late commits, retries and concurrent jobs come to one
\* atomic change of the schema.
UpgradeSpec ==
  INSTANCE SchemaUpgrade WITH recorded <- applied, served <- granted
AtomicUpgrade == UpgradeSpec!Spec

\* A process that has been started ends, whatever the server does.
EveryMigrationEnds ==
  \A m \in Migrators : pc[m] \in Running ~> pc[m] \in {"ok", "failed"}

\* No crash leaves anything behind that keeps a retry from succeeding: once nothing
\* fails any more, all jobs succeed, unless the schema is of a later release.
RetriesSucceed ==
  (calm /\ compatible /\ existing = Roles)
    ~> (version = 2 \/ \A m \in Migrators : pc[m] = "ok")

\* docs/development.md:268-270: `migrate' grants the application role what it needs.
ApplicationIsServed == \A m \in Migrators : pc[m] = "ok" => role[m] \in granted

-----------------------------------------------------------------------------
(* The inductive invariant.                                                *)

\* The lock is held by the session that needs it, even after its process.
LockInv == \A m \in Migrators : session[m] \in Exclusive <=> lock = m

\* Statements are sent by running processes and outlive them.
SessionInv ==
  \A m \in Migrators :
    /\ pc[m] = "run" => session[m] # "none"
    /\ session[m] # "none" => pc[m] \in {"run", "failed"} /\ compatible
    /\ pc[m] \in {"setup", "diagnose", "report", "ok"} => compatible

\* The version, the record and the grants change together, and what a session
\* found out under the lock stays true.
SchemaInv ==
  /\ applied = 1 .. version
  /\ version = 0 <=> granted = {}
  /\ version > 0 => compatible
  /\ \A m \in Migrators :
       /\ session[m] \in InTransaction => version = 0
       /\ session[m] = "unlock" => version > 0

IInv == TypeOK /\ LockInv /\ SessionInv /\ SchemaInv

=============================================================================
