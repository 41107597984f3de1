--------------------------- MODULE SchemaUpgrade ---------------------------
(***************************************************************************)
(* What the applications that share a database may rely on: its schema is  *)
(* brought up to date in one step, which happens at most once, leaves a    *)
(* record behind and gives one application role access; and it never goes  *)
(* back.  No sessions, locks, failures or retries.                         *)
(***************************************************************************)
EXTENDS Naturals

CONSTANT Roles  \* application roles

VARIABLES
  version,   \* the schema version that can be read, 0 before there is any
  recorded,  \* the migrations on record
  served     \* the roles that may read the schema version

vars == <<version, recorded, served>>

Init == version = 0 /\ recorded = {} /\ served = {}

\* The migration of this release, on behalf of one role.
Upgrade(r) ==
  /\ version = 0
  /\ version' = 1
  /\ recorded' = {1}
  /\ served' = {r}

\* The migration of a later release.
Supersede ==
  /\ version = 1
  /\ version' = 2
  /\ recorded' = recorded \cup {2}
  /\ UNCHANGED served

Next == (\E r \in Roles : Upgrade(r)) \/ Supersede

Spec == Init /\ [][Next]_vars

=============================================================================
