----------------------------- MODULE ProbeGate -----------------------------
(***************************************************************************)
(* What the cache of a health endpoint promises to the services that the   *)
(* endpoint probes, whoever asks for it and however often: one probe at a  *)
(* time, and none for CacheTtl after one has completed.  A probe that is   *)
(* abandoned leaves the report as it was, and the next one may begin at    *)
(* once.                                                                   *)
(***************************************************************************)
EXTENDS Naturals

CONSTANT CacheTtl   \* DIAGNOSTIC_CACHE_TTL

VARIABLES
  probing,    \* a probe is running
  report,     \* the verdict of the last completed probe
  reportAge   \* its age, up to CacheTtl

vars == <<probing, report, reportAge>>

Verdicts == {"healthy", "unhealthy"}

Init ==
  /\ probing = FALSE
  /\ report = "empty"
  /\ reportAge = 0

\* A probe begins: there is no report, or it has expired.
Begin ==
  /\ ~probing
  /\ report = "empty" \/ reportAge = CacheTtl
  /\ probing' = TRUE
  /\ UNCHANGED <<report, reportAge>>

\* The probe completes and replaces the report.
Complete ==
  /\ probing
  /\ probing' = FALSE
  /\ report' \in Verdicts
  /\ reportAge' = 0

\* The probe is abandoned.
Abandon ==
  /\ probing
  /\ probing' = FALSE
  /\ UNCHANGED <<report, reportAge>>

\* The report ages.
Age ==
  /\ report # "empty"
  /\ reportAge < CacheTtl
  /\ reportAge' = reportAge + 1
  /\ UNCHANGED <<probing, report>>

Next == Begin \/ Complete \/ Abandon \/ Age

Spec == Init /\ [][Next]_vars

=============================================================================
