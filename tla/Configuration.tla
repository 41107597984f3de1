---------------------------- MODULE Configuration ----------------------------
(***************************************************************************)
(* Config::load and MigrationConfig::load of crates/app/src/config.rs:     *)
(* what a deployment, a file and an environment, comes to for the three    *)
(* commands, and whether they accept it.                                   *)
(*                                                                         *)
(* Loading reads everything once, before anything else happens, and has no *)
(* effect but its result, so it is a function of the deployment.  Which of *)
(* several defects an error names is not told apart.                       *)
(***************************************************************************)
EXTENDS Naturals, Sequences

CONSTANTS
  None,         \* a field or a variable that is not set
  Garbage,      \* a value that is not of its field's type
  NotUnicode,   \* the value of a variable that is not text
  Deployments,  \* the deployments to begin with
  Alternatives  \* per field, other values that a file may give to it

VARIABLE deployment  \* the file and the environment that a command starts with

\* The fields of the configuration; each has a variable of its own.
Numbers ==
  {"request_timeout_ms", "shutdown_timeout_seconds", "max_connections", "acquire_timeout_ms",
   "search_timeout_ms"}
Fields ==
  Numbers \cup {"name", "bind", "database_url", "search_url", "api_key", "data_dir", "filter", "format"}

\* Those that MigrationConfigFile has.
MigrationFields == {"database_url", "max_connections", "acquire_timeout_ms", "filter", "format"}

\* Variables are texts: some are parsed, all others taken as they are.
Parsed == Numbers \cup {"bind", "format"}

\* The DSN of the migration, and the thirteen PG... variables taken as one.
Variables == Fields \cup {"migration_url", "ambient"}

Highest ==
  [request_timeout_ms |-> 120000, shutdown_timeout_seconds |-> 300, max_connections |-> 128,
   acquire_timeout_ms |-> 60000, search_timeout_ms |-> 60000]

Defaults ==
  [request_timeout_ms |-> 10000, shutdown_timeout_seconds |-> 20, max_connections |-> 16,
   acquire_timeout_ms |-> 5000, search_timeout_ms |-> 2000, filter |-> "directives", format |-> "pretty"]

\* A deployment says something of every field and of every variable; a file that is read
\* is text, a variable that is not parsed never garbage, and the query of a URL a list of
\* parameters.
IsDeployment(d) ==
  /\ d = [file |-> [size |-> d.file.size, stray |-> d.file.stray,
                    values |-> [f \in Fields |-> d.file.values[f]]],
          env |-> [v \in Variables |-> d.env[v]]]
  /\ \A f \in Fields : d.file.values[f] # NotUnicode
  /\ \A v \in Variables \ Parsed : d.env[v] # Garbage
  /\ \A u \in {d.file.values["database_url"], d.env["database_url"], d.env["migration_url"]} :
       u \notin {None, Garbage, NotUnicode} => u.query \in Seq([key : STRING, value : STRING])

ASSUME ConfigurationAssumption ==
  /\ None # Garbage /\ None # NotUnicode
  /\ \A d \in Deployments : IsDeployment(d)
  /\ DOMAIN Alternatives = Fields
  /\ \A f \in Fields : Alternatives[f] \cap {None, Garbage, NotUnicode} = {}

-----------------------------------------------------------------------------
(* Sources.  A deployment d has a file with a size, or None if it cannot   *)
(* be read, the places of keys that no structure knows ("used" in a        *)
(* section that the migration reads too, "elsewhere"), and its values; and *)
(* a value or None for each variable.                                      *)

MaxConfigBytes == 1024 * 1024

\* read_bounded() takes one byte more than the file may have.
Readable(d) ==
  /\ d.file.size # None
  /\ (IF d.file.size > MaxConfigBytes + 1 THEN MaxConfigBytes + 1 ELSE d.file.size) <= MaxConfigBytes

FromFile(d, f) ==
  IF d.file.values[f] = None /\ f \in DOMAIN Defaults THEN Defaults[f] ELSE d.file.values[f]

\* toml::from_str() with the fields of one of the structures.
FileParses(d, fields, known) ==
  /\ d.file.stray \subseteq known
  /\ \A f \in fields : FromFile(d, f) \notin {None, Garbage}

\* apply_environment(), when it succeeds, ...
VariablesParse(d, fields) ==
  \A f \in fields : d.env[f] # NotUnicode /\ (f \in Parsed => d.env[f] # Garbage)

\* ... and what it makes of the configuration.
Loaded(d, fields) ==
  [f \in fields |-> IF d.env[f] = None THEN FromFile(d, f) ELSE d.env[f]]

-----------------------------------------------------------------------------
(* Validation.  A DSN is a record of its parts; its query is a sequence of *)
(* keys and values.  A search URL is its scheme, its host and the further  *)
(* parts it has; a path is the set of the kinds of its components.         *)

InRange(c, f) == c[f] \in 1 .. Highest[f]

\* url_host_is_loopback(): a name or a literal address.
IsLoopback(host) == host \in {"localhost", "loopback address"}

\* Mutant of QueryIsPlain: a repeated parameter is not noticed.
QueryIsPlainRepeated(u) == \A i \in DOMAIN u.query : u.query[i].key = "sslmode"

\* The loop over the query: nothing but sslmode, and that once.
QueryIsPlain(u) ==
  /\ \A i \in DOMAIN u.query : u.query[i].key = "sslmode"
  /\ Len(u.query) <= 1

ValidDsn(u) ==
  /\ u.scheme = "postgres"
  /\ u.host # "none"
  /\ u.password = "given"
  /\ u.database = "given"
  /\ u.fragment = "none"
  /\ QueryIsPlain(u)
  /\ IsLoopback(u.host) \/ (u.query # <<>> /\ u.query[1].value = "verify-full")

\* database_role(): a simple identifier, beginning with a letter or an underscore.
ValidRole(role) == role.length \in 1 .. 63 /\ role.start = "letter" /\ role.plain

ValidDatabase(c) ==
  /\ InRange(c, "max_connections")
  /\ InRange(c, "acquire_timeout_ms")
  /\ ValidDsn(c["database_url"])
  /\ ValidRole(c["database_url"].role)

ValidSearchUrl(u) ==
  /\ u.scheme \in {"http", "https"}
  /\ u.parts \cap {"username", "password", "query", "fragment"} = {}
  /\ u.scheme = "http" => IsLoopback(u.host)

\* A path without a normal component is empty, the root or the current directory.
ValidDataDir(path) == "parent" \notin path /\ "normal" \in path

\* A filter may be blank, directives, or neither.
ValidObservability(c) == c["filter"] # "blank"

Validates(c) ==
  /\ c["name"] \in 1 .. 80
  /\ InRange(c, "request_timeout_ms")
  /\ InRange(c, "shutdown_timeout_seconds")
  /\ ValidDatabase(c)
  /\ ValidSearchUrl(c["search_url"])
  /\ c["api_key"].length >= 16
  /\ InRange(c, "search_timeout_ms")
  /\ ValidDataDir(c["data_dir"])
  /\ ValidObservability(c)

-----------------------------------------------------------------------------
(* The two loaders.                                                        *)

NoAmbient(d) == d.env["ambient"] = None

\* The configuration of serve and doctor.
RuntimeConfig(d) == Loaded(d, Fields)

\* Mutant of RuntimeAccepts: what the file says is validated as well.
RuntimeAcceptsEarly(d) ==
  /\ d.env["migration_url"] = None
  /\ NoAmbient(d)
  /\ Readable(d)
  /\ FileParses(d, Fields, {})
  /\ Validates([f \in Fields |-> FromFile(d, f)])
  /\ VariablesParse(d, Fields)
  /\ Validates(RuntimeConfig(d))

\* Config::load()
RuntimeAccepts(d) ==
  /\ d.env["migration_url"] = None
  /\ NoAmbient(d)
  /\ Readable(d)
  /\ FileParses(d, Fields, {})
  /\ VariablesParse(d, Fields)
  /\ Validates(RuntimeConfig(d))

\* Mutant of MigrationDatabase: the variables are forgotten.
MigrationDatabaseOfFile(d) == [f \in MigrationFields |-> FromFile(d, f)]

\* The configuration of migrate, ...
MigrationDatabase(d) == Loaded(d, MigrationFields)

\* ... the DSN that it connects with, ...
MigrationUrl(d) ==
  IF d.env["migration_url"] = None THEN MigrationDatabase(d)["database_url"] ELSE d.env["migration_url"]

\* ... and the role that it grants rights to.
ApplicationRole(d) == MigrationDatabase(d)["database_url"].role

\* MigrationConfig::load()
MigrationAccepts(d) ==
  /\ NoAmbient(d)
  /\ Readable(d)
  /\ FileParses(d, MigrationFields, {"elsewhere"})
  /\ VariablesParse(d, MigrationFields)
  /\ d.env["migration_url"] # NotUnicode
  /\ ValidDatabase(MigrationDatabase(d))
  /\ ValidDsn(MigrationUrl(d)) /\ ValidRole(MigrationUrl(d).role)
  /\ ValidObservability(MigrationDatabase(d))

-----------------------------------------------------------------------------
(* What others make of an accepted configuration.                          *)

\* normalize_base_url() of the search client, ...
ClientAcceptsUrl(u) ==
  /\ u.scheme \in {"http", "https"}
  /\ ~(u.scheme = "http" /\ ~IsLoopback(u.host))
  /\ {"username", "password", "query", "fragment"} \cap u.parts = {}

\* ... SearchClient::new(), which needs a key that a header can carry, ...
ClientBuilds(c) == ClientAcceptsUrl(c["search_url"]) /\ c["api_key"].sendable

\* ... absolute_storage_path(), and EnvFilter in init_tracing().
StorageAcceptsPath(path) == "parent" \notin path /\ "normal" \in path
TracingStarts(c) == c["filter"] = "directives"

\* The last of some parameters in a DSN's query: the driver reads them in their order,
\* and each overrides what the URL says before it.
LastOf(u, keys, otherwise) ==
  LET at == {i \in DOMAIN u.query : u.query[i].key \in keys} IN
    IF at = {} THEN otherwise ELSE u.query[CHOOSE i \in at : \A j \in at : j <= i].value

DriverHost(u) == LastOf(u, {"host", "hostaddr"}, u.host)
DriverSslMode(u) == LastOf(u, {"sslmode", "ssl-mode"}, "prefer")
DriverUser(u) == LastOf(u, {"user"}, u.role.name)

-----------------------------------------------------------------------------
(* Correctness.                                                            *)

\* The deployment with another value of the migration's variable or of the file.
WithSecret(d, u) == [d EXCEPT !.env["migration_url"] = u]
WithFileValue(d, f, v) == [d EXCEPT !.file.values[f] = v]

UsedDsns(d) ==
  (IF RuntimeAccepts(d) THEN {RuntimeConfig(d)["database_url"]} ELSE {})
    \cup (IF MigrationAccepts(d) THEN {MigrationUrl(d)} ELSE {})

\* Whichever of file, environment and migration secret a DSN comes from, the driver
\* that reads it again in its own way connects to a remote server only if it verifies
\* it, and as the role that the validation has seen.
DriverVerifiesRemote ==
  \A u \in UsedDsns(deployment) :
    /\ DriverHost(u) = "remote" => DriverSslMode(u) = "verify-full"
    /\ DriverUser(u) = u.role.name

\* A deployment that the server can run in can be migrated, with any valid DSN given
\* as the migration's secret or without one, and the rights go to the role that the
\* server then connects as.
MigrationAgrees ==
  RuntimeAccepts(deployment) =>
    \A u \in Alternatives["database_url"] \cup {None} :
      u = None \/ (ValidDsn(u) /\ ValidRole(u.role)) =>
        LET d == WithSecret(deployment, u) IN
          /\ MigrationAccepts(d)
          /\ ApplicationRole(d) = RuntimeConfig(deployment)["database_url"].role
          /\ u = None => MigrationUrl(d) = RuntimeConfig(deployment)["database_url"]

\* What the validation accepts, the layers that check again do not refuse: neither the
\* search client its URL nor the storage its path.
LaterLayersAgree ==
  RuntimeAccepts(deployment) =>
    /\ ClientAcceptsUrl(RuntimeConfig(deployment)["search_url"])
    /\ StorageAcceptsPath(RuntimeConfig(deployment)["data_dir"])

\* Whoever reads an accepted value again reads it as it was validated: the driver, the
\* search client and the storage.
LaterReadersAgree == DriverVerifiesRemote /\ LaterLayersAgree

\* Only values in use count: what a file says for a field that the environment
\* overrides, if it is of the field's type, neither saves nor spoils a deployment.
OverriddenDoesNotMatter ==
  \A f \in Fields :
    deployment.env[f] # None /\ FromFile(deployment, f) \notin {None, Garbage} =>
      \A v \in Alternatives[f] :
        RuntimeAccepts(WithFileValue(deployment, f, v)) <=> RuntimeAccepts(deployment)

=============================================================================
