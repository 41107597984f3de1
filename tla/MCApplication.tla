---------------------------- MODULE MCApplication ----------------------------
(***************************************************************************)
(* Configuration and Password instantiated for TLC: neither has anything   *)
(* to do with the other, so one of them is at its default while the other  *)
(* goes through its inputs.                                                *)
(***************************************************************************)
EXTENDS Configuration, Password

CONSTANTS none, garbage, notUnicode, missing

Role(name) == [name |-> name, start |-> "letter", plain |-> TRUE, length |-> 12]

BaseDsn ==
  [scheme |-> "postgres", role |-> Role("app"), password |-> "given", host |-> "loopback address",
   database |-> "given", query |-> <<>>, fragment |-> "none"]

Parameter(key, value) == [key |-> key, value |-> value]
Verified == Parameter("sslmode", "verify-full")
Remote(query) == [BaseDsn EXCEPT !.host = "remote", !.query = query]

Dsns ==
  { BaseDsn, [BaseDsn EXCEPT !.host = "localhost"], [BaseDsn EXCEPT !.role = Role("other")],
    Remote(<<>>), Remote(<<Verified>>), Remote(<<Parameter("sslmode", "require")>>),
    Remote(<<Verified, Parameter("sslmode", "disable")>>),
    Remote(<<Verified, Parameter("ssl-mode", "disable")>>),
    Remote(<<Parameter("user", "other"), Verified>>),
    [BaseDsn EXCEPT !.query = <<Parameter("host", "remote")>>],
    [BaseDsn EXCEPT !.query = <<Parameter("sslmode", "disable")>>],
    [BaseDsn EXCEPT !.scheme = "mysql"], [BaseDsn EXCEPT !.host = "none"],
    [BaseDsn EXCEPT !.password = "empty"], [BaseDsn EXCEPT !.database = "none"],
    [BaseDsn EXCEPT !.fragment = "given"],
    [BaseDsn EXCEPT !.role.length = 0], [BaseDsn EXCEPT !.role.length = 64],
    [BaseDsn EXCEPT !.role.start = "digit"], [BaseDsn EXCEPT !.role.plain = FALSE] }

SearchUrl(scheme, host, parts) == [scheme |-> scheme, host |-> host, parts |-> parts]

SearchUrls ==
  { SearchUrl("http", "localhost", {}), SearchUrl("http", "remote", {}), SearchUrl("https", "remote", {}),
    SearchUrl("ftp", "localhost", {}), SearchUrl("https", "remote", {"username"}),
    SearchUrl("https", "localhost", {"path", "query"}), SearchUrl("http", "loopback address", {"path"}) }

Around(f) == {0, 1, Highest[f], Highest[f] + 1}

SomeValues ==
  [f \in Fields |->
     CASE f \in Numbers        -> Around(f)
       [] f = "name"           -> {0, 8, 80, 81}
       [] f = "bind"           -> {"address"}
       [] f = "database_url"   -> Dsns
       [] f = "search_url"     -> SearchUrls
       [] f = "api_key"        -> {[length |-> n, sendable |-> s] : n \in {15, 16}, s \in BOOLEAN}
       [] f = "data_dir"       -> {{}, {"root"}, {"current"}, {"normal", "parent"}, {"root", "normal"}}
       [] f = "filter"         -> {"blank", "directives", "neither"}
       [] f = "format"         -> {"pretty", "json"}]

BaseValues ==
  [f \in Fields |->
     CASE f = "name"           -> 8
       [] f = "bind"           -> "address"
       [] f = "database_url"   -> BaseDsn
       [] f = "search_url"     -> SearchUrl("http", "loopback address", {})
       [] f = "api_key"        -> [length |-> 16, sendable |-> TRUE]
       [] f = "data_dir"       -> {"current", "normal"}
       [] OTHER                -> none]

BaseFile == [size |-> 300, stray |-> {}, values |-> BaseValues]
BaseEnvironment == [v \in Variables |-> none]
Base == [file |-> BaseFile, env |-> BaseEnvironment]

\* Files with one peculiarity.
Files ==
  {BaseFile}
    \cup {[BaseFile EXCEPT !.size = n] : n \in {none, MaxConfigBytes, MaxConfigBytes + 1, 2 * MaxConfigBytes}}
    \cup {[BaseFile EXCEPT !.stray = {place}] : place \in {"used", "elsewhere"}}
    \cup UNION {{[BaseFile EXCEPT !.values[f] = v] : v \in SomeValues[f] \cup {none, garbage}} : f \in Fields}

\* Environments with one variable.
Environments ==
  {BaseEnvironment}
    \cup {[BaseEnvironment EXCEPT ![v] = notUnicode] : v \in Variables}
    \cup {[BaseEnvironment EXCEPT ![f] = garbage] : f \in Parsed}
    \cup {[BaseEnvironment EXCEPT !["ambient"] = "text"]}
    \cup {[BaseEnvironment EXCEPT !["migration_url"] = u] : u \in Dsns}
    \cup UNION {{[BaseEnvironment EXCEPT ![f] = v] : v \in SomeValues[f]} : f \in Fields}

SomeDeployments == [file : Files, env : Environments]

SomePasswords == {[length |-> n, name |-> a] : n \in {0, 1, 1024, 1025}, a \in {"one", "another"}}

Right == [length |-> 1024, name |-> "one"]

\* Hashes with their costs around each bound, and with something missing.
PlainHashes ==
  { h \in [length : {97, 513}, parses : BOOLEAN, algorithm : {"argon2id", "argon2i"},
           version : {missing, 16, 17, 19}, m : {missing, 7, 8, 19456, 262144, 262145},
           t : {missing, 0, 1, 2, 10, 11}, p : {missing, 0, 1, 8, 9}, salt : {missing, 10, 11, 22},
           output : {missing, 16, 32}, accepted : {TRUE}, decodes : {TRUE}, keyed : {FALSE},
           password : {Right}] :
      (h.length = 513 => h.parses) /\ (~h.parses => h.algorithm = "argon2i" /\ h.version = missing) }

\* Some of them also with something that only argon2 looks at.
SomeHashes ==
  PlainHashes
    \cup UNION {{[h EXCEPT !.accepted = FALSE], [h EXCEPT !.decodes = FALSE], [h EXCEPT !.keyed = TRUE],
                 [h EXCEPT !.accepted = FALSE, !.decodes = FALSE, !.keyed = TRUE]} :
                  h \in {g \in PlainHashes : g.m = 19456 /\ g.p = 1}}

ApplicationInit ==
  \/ deployment \in Deployments /\ stored = Hashed(Right) /\ made = TRUE
  \/ deployment = Base /\ PasswordInit

ApplicationNext == deployment = Base /\ PasswordNext /\ UNCHANGED deployment

ApplicationSpec == ApplicationInit /\ [][ApplicationNext]_<<deployment, passwordVars>>

=============================================================================
