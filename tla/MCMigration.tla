---------------------------- MODULE MCMigration ----------------------------
(***************************************************************************)
(* Migration instantiated for TLC.                                         *)
(***************************************************************************)
EXTENDS Migration

CONSTANTS m1, m2, app, other, free

Jobs == {m1, m2}
BothRoles == {app, other}

=============================================================================
