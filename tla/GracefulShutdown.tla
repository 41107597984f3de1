-------------------------- MODULE GracefulShutdown --------------------------
(***************************************************************************)
(* What an operator may rely on when a server is told to stop: from then   *)
(* on no time passes in which it takes new connections, and it ends well   *)
(* once nobody is connected any more, or badly at its deadline, neither    *)
(* earlier nor later.  Only then, or when it is killed, are connections    *)
(* cut.  No signals, tasks, requests or storage.                           *)
(***************************************************************************)
EXTENDS Naturals

CONSTANTS
  Connections,
  Deadline  \* how long after the notice

VARIABLES
  phase,    \* "serving", "stopping", then "ok" or "late"; or "killed"
  elapsed,  \* time since the notice
  open,     \* the connections that are open
  cut       \* those that have been cut

vars == <<phase, elapsed, open, cut>>

Init ==
  /\ phase = "serving"
  /\ elapsed = 0
  /\ open = {}
  /\ cut = {}

Connect(c) ==
  /\ phase \in {"serving", "stopping"} /\ elapsed = 0
  /\ c \notin cut
  /\ open' = open \cup {c}
  /\ UNCHANGED <<phase, elapsed, cut>>

\* A connection is closed by either side, with nothing left to say.
Close(c) ==
  /\ phase \in {"serving", "stopping"}
  /\ open' = open \ {c}
  /\ UNCHANGED <<phase, elapsed, cut>>

Notice ==
  /\ phase = "serving"
  /\ phase' = "stopping"
  /\ UNCHANGED <<elapsed, open, cut>>

Pass ==
  /\ phase = "stopping"
  /\ elapsed < Deadline
  /\ elapsed' = elapsed + 1
  /\ UNCHANGED <<phase, open, cut>>

EndWell ==
  /\ phase = "stopping"
  /\ open = {}
  /\ phase' = "ok"
  /\ UNCHANGED <<elapsed, open, cut>>

EndLate ==
  /\ phase = "stopping"
  /\ elapsed = Deadline
  /\ phase' = "late"
  /\ UNCHANGED <<elapsed, open, cut>>

CutAll == open' = {} /\ cut' = cut \cup open

\* Who is still connected at the deadline is cut.
Abort ==
  /\ phase = "late"
  /\ CutAll
  /\ UNCHANGED <<phase, elapsed>>

Kill ==
  /\ phase # "killed"
  /\ phase' = "killed"
  /\ CutAll
  /\ UNCHANGED elapsed

Next ==
  \/ \E c \in Connections : Connect(c) \/ Close(c)
  \/ Notice \/ Pass \/ EndWell \/ EndLate \/ Abort \/ Kill

Spec == Init /\ [][Next]_vars

=============================================================================
