-------------------------- MODULE ConfigurationProofs --------------------------
(***************************************************************************)
(* What the configuration promises, for every deployment: whatever the     *)
(* file and the environment say, and whatever else they might say.         *)
(***************************************************************************)
EXTENDS Configuration, SequenceTheorems, TLAPS

\* A deployment with another secret has the same file and the same other variables.
LEMMA SecretIsApart ==
  ASSUME NEW d \in Deployments, NEW u
  PROVE  /\ WithSecret(d, u).file = d.file
         /\ WithSecret(d, u).env["migration_url"] = u
         /\ \A v \in Variables \ {"migration_url"} : WithSecret(d, u).env[v] = d.env[v]
<1>1. IsDeployment(d)
  BY ConfigurationAssumption
<1>2. "migration_url" \in Variables
  BY DEF Variables
<1>3. d = [file |-> d.file, env |-> [v \in Variables |-> d.env[v]]]
  BY <1>1 DEF IsDeployment
<1>4. WithSecret(d, u) = [file |-> d.file,
                          env |-> [v \in Variables |-> IF v = "migration_url" THEN u ELSE d.env[v]]]
  BY <1>2, <1>3 DEF WithSecret
<1> QED
  BY <1>2, <1>4

\* The fields do not depend on the secret, and the migration's are the server's.
LEMMA SameFields ==
  ASSUME NEW d \in Deployments, NEW u, NEW f \in MigrationFields
  PROVE  /\ MigrationDatabase(WithSecret(d, u))[f] = RuntimeConfig(d)[f]
         /\ RuntimeConfig(WithSecret(d, u))[f] = RuntimeConfig(d)[f]
<1>1. f \in Fields /\ f \in Variables \ {"migration_url"}
  BY DEF MigrationFields, Fields, Numbers, Variables
<1>2. WithSecret(d, u).env[f] = d.env[f] /\ FromFile(WithSecret(d, u), f) = FromFile(d, f)
  BY <1>1, SecretIsApart DEF FromFile
<1> QED
  BY <1>1, <1>2 DEF MigrationDatabase, RuntimeConfig, Loaded

\* A list of no more than one element is empty or has just the first.
LEMMA AtMostOne ==
  ASSUME NEW S, NEW q \in Seq(S), Len(q) <= 1
  PROVE  /\ Len(q) \in {0, 1}
         /\ DOMAIN q = 1 .. Len(q)
         /\ q # <<>> => Len(q) = 1
<1>1. Len(q) \in Nat /\ DOMAIN q = 1 .. Len(q)
  BY LenProperties, Zenon
<1>2. q # <<>> => Len(q) \in Nat \ {0}
  BY EmptySeq, Zenon
<1> DEFINE n == Len(q)
<1>3. n \in {0, 1} /\ (n \in Nat \ {0} => n = 1)
  <2>1. n \in Nat /\ n <= 1
    BY <1>1
  <2> HIDE DEF n
  <2> QED
    BY <2>1
<1> QED
  BY <1>1, <1>2, <1>3, Zenon

\* A query that the validation accepts says to the driver what the URL says.
LEMMA DriverReadsTheSame ==
  ASSUME NEW u, u.query \in Seq([key : STRING, value : STRING]), ValidDsn(u)
  PROVE  /\ DriverHost(u) = u.host
         /\ DriverUser(u) = u.role.name
         /\ u.host = "remote" => DriverSslMode(u) = "verify-full"
<1> DEFINE q == u.query
<1>0. q \in Seq([key : STRING, value : STRING]) /\ Len(q) <= 1
  BY DEF ValidDsn, QueryIsPlain
<1>1. Len(q) \in {0, 1} /\ DOMAIN q = 1 .. Len(q) /\ (q # <<>> => Len(q) = 1)
  BY <1>0, AtMostOne, Zenon
<1>2. \A i \in DOMAIN u.query : u.query[i].key = "sslmode"
  BY DEF ValidDsn, QueryIsPlain
<1>3. DriverHost(u) = u.host /\ DriverUser(u) = u.role.name
  <2>1. {i \in DOMAIN u.query : u.query[i].key \in {"host", "hostaddr"}} = {}
    BY <1>2
  <2>2. {i \in DOMAIN u.query : u.query[i].key \in {"user"}} = {}
    BY <1>2
  <2> QED
    BY <2>1, <2>2 DEF DriverHost, DriverUser, LastOf
<1>4. ASSUME u.host = "remote" PROVE DriverSslMode(u) = "verify-full"
  <2>1. u.query # <<>> /\ u.query[1].value = "verify-full"
    BY <1>4 DEF ValidDsn, IsLoopback
  <2>2. DOMAIN u.query = {1}
    <3>1. Len(q) = 1 /\ DOMAIN q = 1 .. 1
      BY <1>1, <2>1
    <3> QED
      BY <3>1
  <2> DEFINE at == {i \in DOMAIN u.query : u.query[i].key \in {"sslmode", "ssl-mode"}}
  <2>3. at = {1}
    BY <1>2, <2>2
  <2>4. (CHOOSE i \in at : \A j \in at : j <= i) = 1
    BY <2>3
  <2> QED
    BY <2>1, <2>3, <2>4 DEF DriverSslMode, LastOf
<1> QED
  BY <1>3, <1>4

\* For every deployment: whichever source a DSN comes from, what the driver makes of it
\* is a verified connection, or one to this machine, as the role that was validated.
LEMMA RemoteIsVerified ==
  ASSUME deployment \in Deployments
  PROVE  DriverVerifiesRemote
<1> DEFINE d == deployment
<1>1. IsDeployment(d)
  BY ConfigurationAssumption
<1>2. "database_url" \in Fields /\ "database_url" \in MigrationFields
  BY DEF Fields, MigrationFields
<1>3. "database_url" \in Variables \ Parsed /\ "migration_url" \in Variables \ Parsed
  BY DEF Variables, Fields, Parsed, Numbers
<1>4. "database_url" \notin DOMAIN Defaults
  BY DEF Defaults
<1>5. ASSUME NEW fields, "database_url" \in fields, NEW known,
             FileParses(d, fields, known), VariablesParse(d, fields)
      PROVE  Loaded(d, fields)["database_url"].query \in Seq([key : STRING, value : STRING])
  <2>1. d.file.values["database_url"] \notin {None, Garbage}
    BY <1>4, <1>5 DEF FileParses, FromFile
  <2>2. d.env["database_url"] \notin {Garbage, NotUnicode}
    BY <1>1, <1>3, <1>5 DEF VariablesParse, IsDeployment
  <2>3. Loaded(d, fields)["database_url"]
          = IF d.env["database_url"] = None THEN d.file.values["database_url"] ELSE d.env["database_url"]
    BY <1>4, <1>5 DEF Loaded, FromFile
  <2>4. d.file.values["database_url"] # NotUnicode
    BY <1>1, <1>2 DEF IsDeployment
  <2>5. Loaded(d, fields)["database_url"] \notin {None, Garbage, NotUnicode}
    BY <2>1, <2>2, <2>3, <2>4
  <2> QED
    BY <1>1, <2>3, <2>5 DEF IsDeployment
<1>6. ASSUME RuntimeAccepts(d)
      PROVE  /\ RuntimeConfig(d)["database_url"].query \in Seq([key : STRING, value : STRING])
             /\ ValidDsn(RuntimeConfig(d)["database_url"])
  <2>1. FileParses(d, Fields, {}) /\ VariablesParse(d, Fields) /\ ValidDatabase(RuntimeConfig(d))
    BY <1>6 DEF RuntimeAccepts, Validates
  <2> QED
    BY <1>2, <1>5, <2>1 DEF RuntimeConfig, ValidDatabase
<1>7. ASSUME MigrationAccepts(d)
      PROVE  /\ MigrationUrl(d).query \in Seq([key : STRING, value : STRING])
             /\ ValidDsn(MigrationUrl(d))
  <2>1. /\ FileParses(d, MigrationFields, {"elsewhere"})
        /\ VariablesParse(d, MigrationFields)
        /\ d.env["migration_url"] # NotUnicode
        /\ ValidDsn(MigrationUrl(d))
    BY <1>7 DEF MigrationAccepts
  <2>2. CASE d.env["migration_url"] = None
    BY <1>2, <1>5, <2>1, <2>2 DEF MigrationDatabase, MigrationUrl
  <2>3. CASE d.env["migration_url"] # None
    <3>1. d.env["migration_url"] \notin {None, Garbage, NotUnicode}
      BY <1>1, <1>3, <2>1, <2>3 DEF IsDeployment
    <3> QED
      BY <1>1, <2>1, <2>3, <3>1 DEF IsDeployment, MigrationUrl
  <2> QED
    BY <2>2, <2>3
<1>8. ASSUME NEW u \in UsedDsns(d)
      PROVE  u.query \in Seq([key : STRING, value : STRING]) /\ ValidDsn(u)
  <2>1. CASE RuntimeAccepts(d) /\ u = RuntimeConfig(d)["database_url"]
    BY <1>6, <2>1
  <2>2. CASE MigrationAccepts(d) /\ u = MigrationUrl(d)
    BY <1>7, <2>2
  <2> QED
    BY <1>8, <2>1, <2>2 DEF UsedDsns
<1> QED
  BY <1>8, DriverReadsTheSame DEF DriverVerifiesRemote

\* For every deployment: the server's settings are good for a migration with any valid
\* DSN, which grants rights to the server's role.
THEOREM ServerCanBeMigrated ==
  ASSUME deployment \in Deployments
  PROVE  MigrationAgrees
<1> DEFINE c == RuntimeConfig(deployment)
<1> SUFFICES ASSUME RuntimeAccepts(deployment),
                    NEW u \in Alternatives["database_url"] \cup {None},
                    u = None \/ (ValidDsn(u) /\ ValidRole(u.role))
             PROVE  LET d == WithSecret(deployment, u) IN
                      /\ MigrationAccepts(d)
                      /\ ApplicationRole(d) = c["database_url"].role
                      /\ u = None => MigrationUrl(d) = c["database_url"]
  BY DEF MigrationAgrees
<1> DEFINE d == WithSecret(deployment, u)
           m == MigrationDatabase(d)
<1>1. \A f \in MigrationFields : m[f] = c[f]
  BY SameFields
<1>2. /\ d.file = deployment.file
      /\ d.env["migration_url"] = u
      /\ \A v \in Variables \ {"migration_url"} : d.env[v] = deployment.env[v]
  BY SecretIsApart
<1>3. /\ {"database_url", "max_connections", "acquire_timeout_ms", "filter"} \subseteq MigrationFields
      /\ MigrationFields \subseteq Fields
      /\ Fields \subseteq Variables \ {"migration_url"}
      /\ "ambient" \in Variables \ {"migration_url"}
      /\ "database_url" \in Fields
  BY DEF MigrationFields, Fields, Numbers, Variables
<1>4. NoAmbient(d) /\ Readable(d)
  BY <1>2, <1>3 DEF RuntimeAccepts, NoAmbient, Readable
<1>5. FileParses(d, MigrationFields, {"elsewhere"})
  <2>1. FileParses(deployment, Fields, {})
    BY DEF RuntimeAccepts
  <2>2. d.file.stray \subseteq {"elsewhere"}
    BY <1>2, <2>1 DEF FileParses
  <2>3. \A f \in MigrationFields : FromFile(d, f) \notin {None, Garbage}
    BY <1>2, <1>3, <2>1 DEF FileParses, FromFile
  <2> QED
    BY <2>2, <2>3 DEF FileParses
<1>6. VariablesParse(d, MigrationFields)
  BY <1>2, <1>3 DEF RuntimeAccepts, VariablesParse
<1>7. d.env["migration_url"] # NotUnicode
  BY <1>2, <1>3, ConfigurationAssumption
<1>8. ValidDatabase(m) /\ ValidObservability(m)
  <2>1. ValidDatabase(c) /\ ValidObservability(c)
    BY DEF RuntimeAccepts, Validates
  <2> QED
    BY <1>1, <1>3, <2>1 DEF ValidDatabase, ValidObservability, InRange
<1>9. /\ ValidDsn(MigrationUrl(d)) /\ ValidRole(MigrationUrl(d).role)
      /\ u = None => MigrationUrl(d) = c["database_url"]
  BY <1>1, <1>2, <1>3, <1>8 DEF MigrationUrl, ValidDatabase
<1>10. ApplicationRole(d) = c["database_url"].role
  BY <1>1, <1>3 DEF ApplicationRole
<1> HIDE DEF d, m, c
<1>11. MigrationAccepts(d)
  BY <1>4, <1>5, <1>6, <1>7, <1>8, <1>9 DEF MigrationAccepts, m
<1> QED
  BY <1>9, <1>10, <1>11 DEF d

\* For every deployment: a URL and a path that are accepted are not refused later.
LEMMA NothingIsRefusedLater == LaterLayersAgree
BY DEF LaterLayersAgree, RuntimeAccepts, Validates, ValidSearchUrl, ClientAcceptsUrl,
       ValidDataDir, StorageAcceptsPath

\* For every deployment: the driver, the search client and the storage read what is
\* accepted as the validation has read it.
THEOREM ReadersAgree ==
  ASSUME deployment \in Deployments
  PROVE  LaterReadersAgree
BY RemoteIsVerified, NothingIsRefusedLater DEF LaterReadersAgree

\* For every deployment: a value in the file that the environment overrides can be any
\* other of its type.
THEOREM OverriddenIsFree ==
  ASSUME deployment \in Deployments
  PROVE  OverriddenDoesNotMatter
<1> SUFFICES ASSUME NEW f \in Fields,
                    deployment.env[f] # None, FromFile(deployment, f) \notin {None, Garbage},
                    NEW v \in Alternatives[f]
             PROVE  RuntimeAccepts(WithFileValue(deployment, f, v)) <=> RuntimeAccepts(deployment)
  BY DEF OverriddenDoesNotMatter
<1> DEFINE d == WithFileValue(deployment, f, v)
<1>1. IsDeployment(deployment) /\ v \notin {None, Garbage}
  BY ConfigurationAssumption
<1>2. /\ deployment.file = [size |-> deployment.file.size, stray |-> deployment.file.stray,
                           values |-> [g \in Fields |-> deployment.file.values[g]]]
      /\ deployment = [file |-> deployment.file, env |-> deployment.env]
  BY <1>1 DEF IsDeployment
<1>3. d = [file |-> [size |-> deployment.file.size, stray |-> deployment.file.stray,
                     values |-> [g \in Fields |-> IF g = f THEN v ELSE deployment.file.values[g]]],
           env |-> deployment.env]
  BY <1>2 DEF WithFileValue
<1>4. /\ d.env = deployment.env
      /\ d.file.size = deployment.file.size
      /\ d.file.stray = deployment.file.stray
      /\ \A g \in Fields : d.file.values[g] = IF g = f THEN v ELSE deployment.file.values[g]
  BY <1>3
<1> HIDE DEF d
<1>5. \A g \in Fields \ {f} : FromFile(d, g) = FromFile(deployment, g)
  BY <1>4 DEF FromFile
<1>6. FromFile(d, f) = v
  BY <1>1, <1>4 DEF FromFile
<1>7. FileParses(d, Fields, {}) <=> FileParses(deployment, Fields, {})
  BY <1>1, <1>4, <1>5, <1>6 DEF FileParses
<1>8. RuntimeConfig(d) = RuntimeConfig(deployment)
  BY <1>4, <1>5 DEF RuntimeConfig, Loaded
<1>9. /\ NoAmbient(d) <=> NoAmbient(deployment)
      /\ Readable(d) <=> Readable(deployment)
      /\ VariablesParse(d, Fields) <=> VariablesParse(deployment, Fields)
      /\ d.env["migration_url"] = deployment.env["migration_url"]
  BY <1>4 DEF NoAmbient, Readable, VariablesParse
<1> QED
  BY <1>7, <1>8, <1>9 DEF RuntimeAccepts, d

=============================================================================
