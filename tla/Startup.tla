------------------------------- MODULE Startup -------------------------------
(***************************************************************************)
(* The commands of crates/server/src/main.rs, one after the other on one   *)
(* machine: serve up to its open listener (AppServices::connect), doctor   *)
(* (run_doctor) and migrate, with their configuration (Configuration), the *)
(* search probe (SearchProbe), a database and a data directory.            *)
(*                                                                         *)
(* Within a command its parts run beside each other, as the futures under  *)
(* join! do.  What Migration and Storage have in detail is taken here at   *)
(* the size of what they promise: one step applies a migration, and a      *)
(* preparation completes a tree in two.                                    *)
(***************************************************************************)
EXTENDS Configuration, SearchProbe

CONSTANTS
  Roles,    \* names of application roles
  Secrets,  \* values that the migration's variable may have for one command, None among them
  MaxFaults \* bound on interventions and kills

ASSUME StartupAssumption == None \in Secrets /\ MaxFaults \in Nat

VARIABLES
  command,   \* the command in progress, or the last one
  secret,    \* the migration's variable in its environment
  pc,        \* "idle", "loading", "starting", "binding" or "serving"
  exit,      \* how it has ended, or "none"
  db,        \* the future of its database: "off", "connecting", "connected", "ok" or "failed"
  st,        \* the future of its storage: "off", "preparing", "prepared", "ok" or "failed"
  database,  \* the database: "down", "foreign" (of another version), "outdated" or "current"
  granted,   \* the roles that may read its schema version
  tree,      \* the data directory: "absent", "partial", "ready" or "unfit"
  seen,      \* history: which of the command's dependencies have been in order while it started
  green,     \* history: doctor has been "asked", and has said "yes", and nothing has changed since
  migrated,  \* history: the database is as a migration of this deployment has left it
  faults     \* number of faults so far

worldVars == <<deployment, database, granted, tree>>
historyVars == <<green, migrated, faults>>
commandVars == <<command, secret>>
vars == <<worldVars, commandVars, pc, exit, db, st, searchVars, seen, historyVars>>

\* What the command finds.
Given == WithSecret(deployment, secret)

\* The role that serve and doctor connect as.
RuntimeRole == RuntimeConfig(Given)["database_url"].role.name

\* What a diagnosis of the database finds, and one of the storage.
DatabaseFits(role) == database = "current" /\ role \in granted
StorageFits == tree = "ready"

\* What must be in order for a server.
Facts ==
  {f \in {"database"} : command # "migrate" /\ DatabaseFits(RuntimeRole)}
    \cup {f \in {"storage"} : StorageFits}

\* An outdated database has not yet granted anything to anybody.
Databases ==
  [state : {"current"}, granted : SUBSET Roles] \cup [state : {"down", "foreign", "outdated"}, granted : {{}}]

Trees == {"absent", "partial", "ready", "unfit"}

Init ==
  /\ deployment \in Deployments
  /\ \E d \in Databases : database = d.state /\ granted = d.granted
  /\ tree \in Trees
  /\ command = "migrate" /\ secret = None
  /\ pc = "idle" /\ exit = "none"
  /\ db = "off" /\ st = "off"
  /\ SearchInit
  /\ seen = {}
  /\ green = "no" /\ migrated = FALSE /\ faults = 0

-----------------------------------------------------------------------------
(* A command begins and ends.                                              *)

\* An operator gives a command, and perhaps the migration's secret with it.
Begin(c, s) ==
  /\ pc = "idle"
  /\ command' = c /\ secret' = s
  /\ pc' = "loading" /\ exit' = "none"
  /\ db' = "off" /\ st' = "off"
  /\ SearchReset
  /\ green' = IF c = "doctor" THEN "asked" ELSE IF green = "asked" THEN "no" ELSE green
  /\ UNCHANGED <<worldVars, migrated, faults>>

\* The process ends, and drops what it has.
End(result) ==
  /\ pc' = "idle" /\ exit' = result
  /\ request' = "none" /\ phase' = "idle" /\ announced' = Unannounced /\ body' = 0
  /\ UNCHANGED <<commandVars, db, st, sent, said, search>>

\* Config::load() and init_tracing() succeed, or MigrationConfig::load() does.
Accepted ==
  IF command = "migrate"
    THEN MigrationAccepts(Given) /\ TracingStarts(MigrationDatabase(Given))
    ELSE RuntimeAccepts(Given) /\ TracingStarts(RuntimeConfig(Given))

Refuse ==
  /\ pc = "loading"
  /\ ~Accepted
  /\ End("refused")
  /\ UNCHANGED <<worldVars, historyVars>>

\* serve: a search client is built before anything is connected.
StartServe ==
  /\ pc = "loading" /\ command = "serve" /\ Accepted
  /\ IF ClientBuilds(RuntimeConfig(Given))
       THEN /\ pc' = "starting" /\ db' = "connecting" /\ st' = "preparing"
            /\ UNCHANGED <<commandVars, exit, searchVars>>
       ELSE End("startup")
  /\ UNCHANGED <<worldVars, historyVars>>

\* doctor: the search client belongs to one of three futures.
StartDoctor ==
  /\ pc = "loading" /\ command = "doctor" /\ Accepted
  /\ pc' = "starting" /\ db' = "connecting" /\ st' = "preparing"
  /\ IF ClientBuilds(RuntimeConfig(Given))
       THEN Probe
       ELSE search' = "failed" /\ UNCHANGED <<request, phase, announced, body, sent, said>>
  /\ UNCHANGED <<worldVars, commandVars, exit, historyVars>>

StartMigrate ==
  /\ pc = "loading" /\ command = "migrate" /\ Accepted
  /\ pc' = "starting" /\ db' = "connecting"
  /\ UNCHANGED <<worldVars, commandVars, exit, st, searchVars, historyVars>>

Load == Refuse \/ StartServe \/ StartDoctor \/ StartMigrate

-----------------------------------------------------------------------------
(* The database.                                                           *)

\* PostgresStore::connect(): a first connection within acquire_timeout.
Connect ==
  /\ pc = "starting" /\ db = "connecting"
  /\ db' = IF database = "down" THEN "failed" ELSE "connected"
  /\ UNCHANGED <<worldVars, commandVars, pc, exit, st, searchVars, historyVars>>

\* Mutant of Diagnose: doctor takes a connection for a diagnosis.
DiagnoseNot ==
  /\ pc = "starting" /\ db = "connected" /\ command # "migrate"
  /\ command = "serve" => st \in {"ok", "failed"}
  /\ db' = IF command = "doctor" \/ DatabaseFits(RuntimeRole) THEN "ok" ELSE "failed"
  /\ UNCHANGED <<worldVars, commandVars, pc, exit, st, searchVars, historyVars>>

\* diagnose(); serve joins its two futures before, doctor has it in one of its three.
Diagnose ==
  /\ pc = "starting" /\ db = "connected" /\ command # "migrate"
  /\ command = "serve" => st \in {"ok", "failed"}
  /\ db' = IF DatabaseFits(RuntimeRole) THEN "ok" ELSE "failed"
  /\ UNCHANGED <<worldVars, commandVars, pc, exit, st, searchVars, historyVars>>

\* migrate(): applied once; on a current database it does nothing.  It may fail, and
\* also once the migration is committed, for want of an answer.
Migrate ==
  /\ pc = "starting" /\ db = "connected" /\ command = "migrate"
  /\ \/ /\ database = "outdated"
        /\ db' \in {"ok", "failed"}
        /\ database' = "current"
        /\ granted' = {ApplicationRole(Given).name}
        /\ migrated' = TRUE
     \/ /\ database = "current" /\ db' = "ok"
        /\ UNCHANGED <<database, granted, migrated>>
     \/ /\ db' = "failed"
        /\ UNCHANGED <<database, granted, migrated>>
  /\ UNCHANGED <<deployment, tree, commandVars, pc, exit, st, searchVars, green, faults>>

DatabaseStep == Connect \/ Diagnose \/ Migrate

-----------------------------------------------------------------------------
(* The storage.                                                            *)

\* Mutant of Prepare: what is incomplete is refused.
PrepareNew ==
  /\ pc = "starting" /\ st = "preparing"
  /\ \/ /\ tree = "absent"
        /\ tree' \in {"partial", "ready"}
        /\ UNCHANGED st
     \/ /\ tree = "ready"
        /\ st' = IF command = "doctor" THEN "prepared" ELSE "ok"
        /\ UNCHANGED tree
     \/ /\ tree \in {"partial", "unfit"}
        /\ st' = "failed" /\ UNCHANGED tree
  /\ UNCHANGED <<deployment, database, granted, commandVars, pc, exit, db, searchVars, historyVars>>

\* LocalStorage::prepare() completes what is incomplete and refuses what is unfit.
Prepare ==
  /\ pc = "starting" /\ st = "preparing"
  /\ \/ /\ StorageAcceptsPath(RuntimeConfig(Given)["data_dir"]) /\ tree \in {"absent", "partial"}
        /\ tree' = IF tree = "absent" THEN "partial" ELSE "ready"
        /\ UNCHANGED st
     \/ /\ StorageAcceptsPath(RuntimeConfig(Given)["data_dir"]) /\ tree = "ready"
        /\ st' = IF command = "doctor" THEN "prepared" ELSE "ok"
        /\ UNCHANGED tree
     \/ /\ StorageAcceptsPath(RuntimeConfig(Given)["data_dir"]) => tree = "unfit"
        /\ st' = "failed"
        /\ UNCHANGED tree
  /\ UNCHANGED <<deployment, database, granted, commandVars, pc, exit, db, searchVars, historyVars>>

\* doctor inspects it once more.
Status ==
  /\ pc = "starting" /\ st = "prepared"
  /\ st' = IF StorageFits THEN "ok" ELSE "failed"
  /\ UNCHANGED <<worldVars, commandVars, pc, exit, db, searchVars, historyVars>>

StorageStep == Prepare \/ Status

-----------------------------------------------------------------------------
(* The search, and the end.                                                *)

OnlySearch == UNCHANGED <<worldVars, commandVars, pc, exit, db, st, historyVars>>

Search == SearchServer /\ OnlySearch
SearchTimer == TimesOut /\ OnlySearch

Finished(future) == future \in {"ok", "failed"}

\* Mutant of Connected: the result of the storage is left in its future.
ConnectedDatabase ==
  /\ pc = "starting" /\ command = "serve"
  /\ Finished(db) /\ Finished(st)
  /\ IF db = "ok"
       THEN pc' = "binding" /\ UNCHANGED <<commandVars, exit, db, st, searchVars>>
       ELSE End("startup")
  /\ UNCHANGED <<worldVars, historyVars>>

\* connect() returns the services, or the error of the database or else of the storage.
Connected ==
  /\ pc = "starting" /\ command = "serve"
  /\ Finished(db) /\ Finished(st)
  /\ IF db = "ok" /\ st = "ok"
       THEN pc' = "binding" /\ UNCHANGED <<commandVars, exit, db, st, searchVars>>
       ELSE End("startup")
  /\ UNCHANGED <<worldVars, historyVars>>

\* serve() opens its listener, or cannot.
Bind ==
  /\ pc = "binding"
  /\ \/ pc' = "serving" /\ UNCHANGED <<commandVars, exit, db, st, searchVars>>
     \/ End("server")
  /\ UNCHANGED <<worldVars, historyVars>>

\* serve() returns, with or without an error.
Stop ==
  /\ pc = "serving"
  /\ End("ok") \/ End("server")
  /\ UNCHANGED <<worldVars, historyVars>>

Report ==
  /\ pc = "starting" /\ command = "doctor"
  /\ Finished(db) /\ Finished(st) /\ search # "none"
  /\ LET healthy == db = "ok" /\ st = "ok" /\ search = "ok" IN
       /\ End(IF healthy THEN "ok" ELSE "doctor")
       /\ green' = IF healthy /\ green = "asked" THEN "yes" ELSE "no"
  /\ UNCHANGED <<worldVars, migrated, faults>>

MigrateEnds ==
  /\ pc = "starting" /\ command = "migrate" /\ Finished(db)
  /\ End(IF db = "ok" THEN "ok" ELSE "startup")
  /\ UNCHANGED <<worldVars, historyVars>>

Finish == Connected \/ Bind \/ Report \/ MigrateEnds

-----------------------------------------------------------------------------
(* Faults.                                                                 *)

Fault == faults < MaxFaults /\ faults' = faults + 1

Kill ==
  /\ Fault
  /\ pc # "idle"
  /\ End("killed")
  /\ UNCHANGED <<worldVars, green, migrated>>

ChangeDatabase(d) ==
  /\ Fault
  /\ database' = d.state /\ granted' = d.granted
  /\ green' = "no" /\ migrated' = FALSE
  /\ UNCHANGED <<deployment, tree, commandVars, pc, exit, db, st, searchVars>>

ChangeTree(t) ==
  /\ Fault
  /\ tree' = t
  /\ green' = "no"
  /\ UNCHANGED <<deployment, database, granted, commandVars, pc, exit, db, st, searchVars, migrated>>

\* What is in order while a command starts.
Observe ==
  seen' = CASE pc' = "loading"  -> {}
            [] pc' = "starting" -> seen \cup Facts'
            [] OTHER            -> seen

Next ==
  /\ \/ \E c \in {"serve", "doctor", "migrate"}, s \in Secrets : Begin(c, s)
     \/ Load \/ DatabaseStep \/ StorageStep \/ Search \/ SearchTimer \/ Finish \/ Stop \/ Kill
     \/ \E d \in Databases : ChangeDatabase(d)
     \/ \E t \in Trees : ChangeTree(t)
  /\ Observe

Spec == Init /\ [][Next]_vars

\* Every future goes on, and a request meets its timeout if nothing else ends it.  Calls of
\* the database end by their deadlines; those of the filesystem have none and are taken to
\* return.
Fairness ==
  /\ WF_vars(Load /\ Observe) /\ WF_vars(Finish /\ Observe)
  /\ WF_vars(DatabaseStep /\ Observe) /\ WF_vars(StorageStep /\ Observe)
  /\ WF_vars(SearchTimer /\ Observe)

FairSpec == Spec /\ Fairness

-----------------------------------------------------------------------------
(* Correctness.                                                            *)

\* The values of the state; MaxFaults bounds the faults.
TypeOK ==
  /\ command \in {"serve", "doctor", "migrate"} /\ secret \in Secrets
  /\ pc \in {"idle", "loading", "starting", "binding", "serving"}
  /\ exit \in {"none", "ok", "refused", "startup", "server", "doctor", "killed"}
  /\ db \in {"off", "connecting", "connected", "ok", "failed"}
  /\ st \in {"off", "preparing", "prepared", "ok", "failed"}
  /\ SearchTypeOK
  /\ database \in {"down", "foreign", "outdated", "current"} /\ tree \in Trees
  /\ seen \subseteq {"database", "storage"}
  /\ green \in {"no", "asked", "yes"} /\ migrated \in BOOLEAN
  /\ faults \in 0 .. MaxFaults

\* Good news is true: the database and the storage of a command that serves, or of a
\* doctor that finds nothing wrong, were in order while it started; doctor has also
\* heard both answers of the search; and no server has the migration's secret.
GoodNewsIsTrue ==
  /\ pc \in {"binding", "serving"} => seen = {"database", "storage"} /\ secret = None
  /\ command = "doctor" /\ exit = "ok" =>
       seen = {"database", "storage"} /\ {"available", "expected"} \subseteq said

\* After a doctor that finds nothing wrong a server starts, if nothing has been changed
\* since the doctor was asked: neither the configuration nor a connection stops it.
GreenMeansGo ==
  green = "yes" /\ command = "serve" /\ secret = None => exit \notin {"refused", "startup"}

\* A database that a migration of this deployment has brought up to date, whoever it
\* connected as, does not refuse the deployment's server or doctor.
MigratedMeansServed ==
  migrated /\ command \in {"serve", "doctor"} => db # "failed"

\* Every command comes to an end, or serves, however the search server behaves, if the
\* filesystem's calls return: prepare() has no deadline.
CommandsEnd == pc \in {"loading", "starting"} ~> pc \in {"idle", "serving"}

Sound(d) == RuntimeAccepts(d) /\ TracingStarts(RuntimeConfig(d)) /\ ClientBuilds(RuntimeConfig(d))

\* Failed and killed starts leave nothing behind that would spoil a later one: if the
\* database is in order in the end and the storage not unfit, a server that is started
\* again and again gets as far as its listener again and again.
StartsOnceRepaired ==
  Sound(WithSecret(deployment, None)) /\ <>[](DatabaseFits(RuntimeRole) /\ tree # "unfit") =>
    ([]<>(pc = "loading" /\ command = "serve" /\ secret = None) => []<>(pc = "binding"))

=============================================================================
