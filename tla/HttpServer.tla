----------------------------- MODULE HttpServer -----------------------------
(***************************************************************************)
(* The life of `wikinext serve' from the open listener to the end of the   *)
(* process: serve() and the functions it waits for in                      *)
(* crates/server/src/lib.rs, and main() in crates/server/src/main.rs.      *)
(*                                                                         *)
(* A task waits for a signal and notifies two others: the server, which    *)
(* stops accepting and drains its connections, and a deadline.  serve()    *)
(* returns on the first that ends; then the runtime is dropped, which cuts *)
(* the tasks that are left and waits for the storage calls that run on its *)
(* blocking threads, since those cannot be cut.                            *)
(*                                                                         *)
(* Time passes in ticks, and only when no task of the runtime can run.     *)
(***************************************************************************)
EXTENDS Naturals, FiniteSets

CONSTANTS
  Connections,     \* the connections, each open or not, with one request at a time
  RequestTimeout,  \* server.request_timeout
  ShutdownTimeout  \* server.shutdown_timeout

ASSUME TimeoutsAssumption ==
  RequestTimeout \in Nat \ {0} /\ ShutdownTimeout \in Nat \ {0}

Signals == {"interrupt", "terminate"}

VARIABLES
  handler,      \* per signal: the default, a handler, one that has seen it, or an error
  notified,     \* the value of the watch channel
  server,       \* axum's server: accepting, draining or finished
  conn,         \* per connection, what it is doing
  age,          \* ticks since its request reached the handler
  calls,        \* the connections whose request has a storage call on a blocking thread
  storageHangs, \* environment: storage calls do not return
  draining,     \* ticks since the notification
  outcome,      \* what serve() has returned
  process       \* running, dropping its runtime, ended, or killed by a signal

connVars == <<conn, age>>
vars == <<handler, notified, server, conn, age, calls, storageHangs, draining, outcome, process>>

Open == {"idle", "reading", "handling", "writing"}

Alive == process \in {"running", "dropping"}

Init ==
  /\ handler = [s \in Signals |-> "default"]
  /\ notified = FALSE
  /\ server = "accepting"
  /\ conn = [c \in Connections |-> "closed"]
  /\ age = [c \in Connections |-> 0]
  /\ calls = {}
  /\ storageHangs = FALSE
  /\ draining = 0
  /\ outcome = "none"
  /\ process = "running"

-----------------------------------------------------------------------------
(* Signals.                                                                *)

\* The task registers a handler, with or without success, unless it has ended.
Install(s) ==
  /\ process = "running"
  /\ ~notified
  /\ handler[s] = "default"
  /\ \E result \in {"installed", "failed"} : handler' = [handler EXCEPT ![s] = result]
  /\ UNCHANGED <<notified, server, connVars, calls, storageHangs, draining, outcome, process>>

Cut == conn' = [c \in Connections |-> IF conn[c] \in Open THEN "cut" ELSE conn[c]]

\* A signal arrives.  One that has no handler kills the process.
Signal(s) ==
  /\ Alive
  /\ IF handler[s] \in {"default", "failed"}
       THEN process' = "killed" /\ Cut /\ UNCHANGED handler
       ELSE handler' = [handler EXCEPT ![s] = "received"] /\ UNCHANGED <<process, conn>>
  /\ UNCHANGED <<notified, server, age, calls, storageHangs, draining, outcome>>

\* Mutant of WaitIsOver: only Ctrl+C is waited for.
InterruptIsOver == handler["interrupt"] \in {"received", "failed"}

\* wait_for_shutdown_signal() returns: on either signal, and on the failure to
\* register for Ctrl+C, while the failure to register for SIGTERM waits for ever.
WaitIsOver == handler["interrupt"] \in {"received", "failed"} \/ handler["terminate"] = "received"

Notify ==
  /\ process = "running"
  /\ ~notified
  /\ WaitIsOver
  /\ notified' = TRUE
  /\ UNCHANGED <<handler, server, connVars, calls, storageHangs, draining, outcome, process>>

-----------------------------------------------------------------------------
(* Connections, under axum's server.                                       *)

Move(c, from, to) ==
  /\ process = "running"
  /\ conn[c] = from
  /\ conn' = [conn EXCEPT ![c] = to]
  /\ age' = [age EXCEPT ![c] = 0]
  /\ UNCHANGED <<handler, notified, server, calls, storageHangs, draining, outcome, process>>

Accept(c) == server = "accepting" /\ Move(c, "closed", "idle")

\* The first bytes of a request arrive, and its last ones.  There is one storage
\* call for each connection, so a request whose predecessor has left one waits.
BeginRequest(c) == Move(c, "idle", "reading")
EndRequest(c) == c \notin calls /\ Move(c, "reading", "handling")

\* The handler makes a storage call.
CallStorage(c) ==
  /\ process = "running"
  /\ conn[c] = "handling"
  /\ c \notin calls
  /\ calls' = calls \cup {c}
  /\ UNCHANGED <<handler, notified, server, connVars, storageHangs, draining, outcome, process>>

\* Its thread is done with it, whether or not anybody waits for the result.
ReturnStorage(c) ==
  /\ Alive
  /\ c \in calls
  /\ ~storageHangs
  /\ calls' = calls \ {c}
  /\ UNCHANGED <<handler, notified, server, connVars, storageHangs, draining, outcome, process>>

\* Mutant of Expired: the request timeout is off by one.
ExpiredLate(c) == conn[c] = "handling" /\ age[c] = RequestTimeout + 1

Expired(c) == conn[c] = "handling" /\ age[c] = RequestTimeout

\* The handler responds, or is dropped by the timeout layer, which does: a storage
\* call goes on without it.
Respond(c) == c \notin calls /\ Move(c, "handling", "writing")
TimeOut(c) == Expired(c) /\ Move(c, "handling", "writing")

\* The client has read the response; the connection is kept only while serving.
EndResponse(c) == Move(c, "writing", IF server = "accepting" THEN "idle" ELSE "closed")

\* A connection without a request is closed when the server drains.
CloseIdle(c) == server = "draining" /\ Move(c, "idle", "closed")

\* The client closes the connection.
Hangup(c) == \E from \in Open : Move(c, from, "closed")

\* The server has seen the notification: it closes the listener.
Drain ==
  /\ process = "running"
  /\ notified
  /\ server = "accepting"
  /\ server' = "draining"
  /\ UNCHANGED <<handler, notified, connVars, calls, storageHangs, draining, outcome, process>>

\* Mutant of Drained: the server does not wait for its connections.
DrainedAtOnce == server = "draining"

Drained == server = "draining" /\ \A c \in Connections : conn[c] \notin Open

-----------------------------------------------------------------------------
(* serve() and main().                                                     *)

\* Mutant of Late: the deadline is off by one.
LateTooEarly == notified /\ draining = ShutdownTimeout - 1

\* The deadline, which runs from the notification.
Late == notified /\ draining = ShutdownTimeout

\* Mutant of Return: serve() waits for the server alone.
ReturnWhenDrained ==
  /\ process = "running"
  /\ Drained
  /\ outcome' = "ok"
  /\ process' = "dropping"
  /\ server' = "finished"
  /\ UNCHANGED <<handler, notified, connVars, calls, storageHangs, draining>>

\* The select: the end of the server or the deadline, in any order if both are due.
Return ==
  /\ process = "running"
  /\ \/ Drained /\ outcome' = "ok"
     \/ Late /\ outcome' = "shutdown_timeout"
  /\ process' = "dropping"
  /\ server' = "finished"
  /\ UNCHANGED <<handler, notified, connVars, calls, storageHangs, draining>>

\* The runtime cuts its tasks, and ends when its blocking threads do.
DropRuntime ==
  /\ process = "dropping"
  /\ Cut
  /\ process' = IF calls = {} THEN "ended" ELSE "dropping"
  /\ UNCHANGED <<handler, notified, server, age, calls, storageHangs, draining, outcome>>

-----------------------------------------------------------------------------
(* The environment and time.                                               *)

\* The storage hangs, or gets over it.
FlipStorage ==
  /\ Alive
  /\ storageHangs' = ~storageHangs
  /\ UNCHANGED <<handler, notified, server, connVars, calls, draining, outcome, process>>

\* Some task of the runtime can run, and does before a timer fires.
Ready ==
  \/ \E s \in Signals : ~notified /\ handler[s] = "default"
  \/ ~notified /\ WaitIsOver
  \/ notified /\ server = "accepting"
  \/ Drained \/ Late
  \/ \E c \in Connections :
       \/ Expired(c)
       \/ conn[c] = "idle" /\ server = "draining"

Tick ==
  /\ process = "running"
  /\ ~Ready
  /\ age' = [c \in Connections |-> IF conn[c] = "handling" THEN age[c] + 1 ELSE age[c]]
  /\ draining' = IF notified THEN draining + 1 ELSE draining
  /\ UNCHANGED <<handler, notified, server, conn, calls, storageHangs, outcome, process>>

Task(c) == Respond(c) \/ TimeOut(c) \/ CloseIdle(c)

Next ==
  \/ \E s \in Signals : Install(s) \/ Signal(s)
  \/ \E c \in Connections :
       \/ Task(c) \/ CallStorage(c) \/ ReturnStorage(c)
       \/ Accept(c) \/ BeginRequest(c) \/ EndRequest(c) \/ EndResponse(c) \/ Hangup(c)
  \/ Notify \/ Drain \/ Return \/ DropRuntime
  \/ FlipStorage \/ Tick

Spec == Init /\ [][Next]_vars

\* Tasks that can run do, time passes, and a storage call returns unless the
\* storage hangs from some time on.  Clients may stop in the middle of anything.
Fairness ==
  /\ \A s \in Signals : WF_vars(Install(s))
  /\ \A c \in Connections : WF_vars(Task(c)) /\ SF_vars(ReturnStorage(c))
  /\ WF_vars(Notify) /\ WF_vars(Drain) /\ WF_vars(Return) /\ WF_vars(DropRuntime)
  /\ WF_vars(Tick)

FairSpec == Spec /\ Fairness

-----------------------------------------------------------------------------
(* Correctness.                                                            *)

TypeOK ==
  /\ handler \in [Signals -> {"default", "installed", "received", "failed"}]
  /\ notified \in BOOLEAN
  /\ server \in {"accepting", "draining", "finished"}
  /\ conn \in [Connections -> {"closed", "cut"} \cup Open]
  /\ age \in [Connections -> 0 .. RequestTimeout]
  /\ calls \subseteq Connections
  /\ storageHangs \in BOOLEAN
  /\ draining \in 0 .. ShutdownTimeout
  /\ outcome \in {"none", "ok", "shutdown_timeout"}
  /\ process \in {"running", "dropping", "ended", "killed"}

\* A graceful end cuts nobody: when serve() returns Ok, every connection, those
\* accepted at the last moment included, has been served and closed.
GracefulEndCutsNobody ==
  outcome = "ok" /\ process # "killed" => \A c \in Connections : conn[c] # "cut"

\* If the server may take longer to shut down than a request to be handled, a
\* request that was being handled when the signal came is answered: what the
\* deadline cuts reached its handler afterwards, from a client that had begun
\* to send it.
StartedHandlersFinish ==
  [][ShutdownTimeout > RequestTimeout =>
       \A c \in Connections :
         conn[c] = "handling" /\ conn'[c] = "cut" /\ process' # "killed" =>
           age[c] < draining]_vars

\* serve() returns after a signal, whatever clients and the storage do.
ServeReturns == notified ~> (outcome # "none" \/ process = "killed")

\* A signal ends the process, if the storage does not hang for ever.
SignalEndsProcess ==
  []<>~storageHangs =>
    \A s \in Signals : handler[s] = "received" ~> process \in {"ended", "killed"}

\* crates/server/src/lib.rs:120: at the deadline the process is ended by force.
DeadlineEndsProcess ==
  outcome = "shutdown_timeout" ~> process \in {"ended", "killed"}

\* What of it an operator sees.
Phase ==
  IF process = "killed" THEN "killed"
  ELSE IF outcome = "none" THEN IF notified THEN "stopping" ELSE "serving"
  ELSE IF outcome = "ok" THEN "ok" ELSE "late"

InState(states) == {c \in Connections : conn[c] \in states}

\* Between the signal and the end no time passes in which new connections are taken; Ok
\* comes only when nobody is connected, the error at the deadline exactly, and nobody is
\* cut before it except by a kill.
Shutdown ==
  INSTANCE GracefulShutdown
    WITH Deadline <- ShutdownTimeout, phase <- Phase, elapsed <- draining,
         open <- InState(Open), cut <- InState({"cut"})
ShutdownSpec == Shutdown!Spec

-----------------------------------------------------------------------------
(* The inductive invariant behind the safety properties.                   *)

\* The deadline counts from the notification; serve() has an outcome exactly when
\* it is over: Ok with no connection open, or the whole deadline with some to cut.
OutcomeInv ==
  /\ ~notified => draining = 0
  /\ process = "running" => outcome = "none"
  /\ process \in {"dropping", "ended"} => outcome # "none"
  /\ outcome = "ok" => \A c \in Connections : conn[c] \notin Open
  /\ outcome = "shutdown_timeout" => draining = ShutdownTimeout
  /\ \A c \in Connections : conn[c] = "cut" => process = "killed" \/ outcome = "shutdown_timeout"

\* The listener is closed on the notification, and before any time has passed since.
ListenerInv ==
  /\ server = "accepting" => draining = 0
  /\ server = "draining" => notified

IInv == TypeOK /\ OutcomeInv

=============================================================================
