---------------------------- MODULE MCHttpServer ----------------------------
(***************************************************************************)
(* HttpServer instantiated for TLC.                                        *)
(***************************************************************************)
EXTENDS HttpServer

CONSTANTS c1, c2

TwoConnections == {c1, c2}
OneConnection == {c1}

=============================================================================
