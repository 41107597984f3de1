------------------------------ MODULE MCStartup ------------------------------
(***************************************************************************)
(* Startup instantiated for TLC with a few deployments.                    *)
(***************************************************************************)
EXTENDS Startup

CONSTANTS none, garbage, notUnicode, unannounced

Dsn(role, host) ==
  [scheme |-> "postgres", role |-> [name |-> role, start |-> "letter", plain |-> TRUE, length |-> 12],
   password |-> "given", host |-> host, database |-> "given", query |-> <<>>, fragment |-> "none"]

Values(role, host) ==
  [f \in Fields |->
     CASE f = "name"         -> 8
       [] f = "bind"         -> "address"
       [] f = "database_url" -> Dsn(role, host)
       [] f = "search_url"   -> [scheme |-> "http", host |-> "localhost", parts |-> {}]
       [] f = "api_key"      -> [length |-> 16, sendable |-> TRUE]
       [] f = "data_dir"     -> {"normal"}
       [] OTHER              -> none]

Deployed(values, variables) ==
  [file |-> [size |-> 300, stray |-> {}, values |-> values],
   env |-> [v \in Variables |-> IF v \in DOMAIN variables THEN variables[v] ELSE none]]

App == Values("app", "localhost")

\* A sound deployment, one whose role comes from the environment; a key that no header
\* can carry, a filter that is none; a remote database without TLS, and a file that is
\* only good for the migration.
SomeDeployments ==
  { Deployed(App, <<>>),
    Deployed(Values("other", "localhost"), [database_url |-> Dsn("app", "localhost")]),
    Deployed([App EXCEPT !["api_key"] = [length |-> 16, sendable |-> FALSE]], <<>>),
    Deployed(App, [filter |-> "neither"]),
    Deployed(Values("app", "remote"), <<>>),
    Deployed([App EXCEPT !["search_url"] = none], <<>>) }

\* Not used to check anything here.
NoAlternatives == [f \in Fields |-> {}]

TwoRoles == {"app", "other"}
SomeSecrets == {none, Dsn("migrator", "localhost")}

=============================================================================
