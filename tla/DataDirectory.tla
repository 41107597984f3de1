--------------------------- MODULE DataDirectory ---------------------------
(***************************************************************************)
(* What the users of one data directory may rely on, and what Startup      *)
(* takes of Storage: users complete a directory in two stages and never    *)
(* spoil it, and as long as nobody interferes with a directory that was    *)
(* fit to begin with, they say of it only that it is in order, and only    *)
(* when it is.  No paths, modes, probe files or order of the calls.        *)
(***************************************************************************)
CONSTANT Users

VARIABLES
  tree,        \* "absent", "partial", "ready", or "unfit" for use
  interfered,  \* it was unfit, or somebody has changed it, or a call has failed
  use          \* per user: none, at work, or the result of the last use

vars == <<tree, interfered, use>>

Conditions == {"absent", "partial", "ready", "unfit"}

Init ==
  /\ tree \in Conditions
  /\ interfered = (tree = "unfit")
  /\ use = [u \in Users |-> "none"]

\* One stage of its completion, or a part of one.
Completes ==
  \/ tree' = tree
  \/ tree = "absent" /\ tree' = "partial"
  \/ tree = "partial" /\ tree' = "ready"

Becomes(u, what) == use' = [use EXCEPT ![u] = what]

Begin(u) ==
  /\ use[u] # "at work"
  /\ Becomes(u, "at work")
  /\ UNCHANGED <<tree, interfered>>

Work(u) ==
  /\ use[u] = "at work"
  /\ Completes
  /\ UNCHANGED <<interfered, use>>

\* A user is satisfied.
Succeed(u) ==
  /\ use[u] = "at work"
  /\ ~interfered => tree = "ready"
  /\ Becomes(u, "ok")
  /\ UNCHANGED <<tree, interfered>>

\* Only what is not in order is refused.
Refuse(u) ==
  /\ use[u] = "at work"
  /\ interfered
  /\ Becomes(u, "refused")
  /\ UNCHANGED <<tree, interfered>>

\* A user gives up, or dies, and what it was doing at that time is done or not.
Leave(u) ==
  /\ \/ use[u] = "at work" /\ Completes
     \/ UNCHANGED tree
  /\ Becomes(u, "none")
  /\ UNCHANGED interfered

\* A call of a user fails.
Fail(u) ==
  /\ use[u] = "at work"
  /\ Becomes(u, "refused")
  /\ interfered' = TRUE
  /\ UNCHANGED tree

Interfere ==
  /\ tree' \in Conditions
  /\ interfered' = TRUE
  /\ UNCHANGED use

Next ==
  \/ \E u \in Users : Begin(u) \/ Work(u) \/ Succeed(u) \/ Refuse(u) \/ Leave(u) \/ Fail(u)
  \/ Interfere

Spec == Init /\ [][Next]_vars

=============================================================================
