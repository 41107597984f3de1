--------------------------- MODULE MCDiagnostics ---------------------------
(***************************************************************************)
(* Diagnostics instantiated for TLC as GET /readyz: PostgreSQL (the server *)
(* version, then the schema version, each with PROBE_TIMEOUT) and the      *)
(* local storage (one call without a deadline).                            *)
(***************************************************************************)
EXTENDS Diagnostics, TLC

CONSTANTS r1, r2, r3, postgresql, storage

TwoRequests   == {r1, r2}
ThreeRequests == {r1, r2, r3}

ReadinessComponents == {postgresql, storage}

ReadinessStages == [c \in ReadinessComponents |-> IF c = postgresql THEN 2 ELSE 1]

\* A deadline of two ticks for each query.
ReadinessStageTimeout ==
  [c \in ReadinessComponents |-> IF c = postgresql THEN 2 ELSE 0]

\* Requests are interchangeable in the runs that check no liveness.
RequestSymmetry == Permutations(Requests)

=============================================================================
