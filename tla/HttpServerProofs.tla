-------------------------- MODULE HttpServerProofs --------------------------
(***************************************************************************)
(* The shutdown of the server is graceful for any number of connections    *)
(* and any two timeouts, and implements GracefulShutdown.                  *)
(***************************************************************************)
EXTENDS HttpServer, TLAPS

\* Nothing is open and nothing has been decided at the beginning.
LEMMA InitIInv == Init => IInv
<1> SUFFICES ASSUME Init PROVE IInv
  OBVIOUS
<1>1. TypeOK
  <2>1. 0 \in 0 .. RequestTimeout /\ 0 \in 0 .. ShutdownTimeout
    BY TimeoutsAssumption
  <2>2. age \in [Connections -> 0 .. RequestTimeout]
    BY <2>1 DEF Init
  <2>3. handler \in [Signals -> {"default", "installed", "received", "failed"}]
    BY DEF Init
  <2>4. conn \in [Connections -> {"closed", "cut"} \cup Open]
    BY DEF Init
  <2> QED
    BY <2>1, <2>2, <2>3, <2>4 DEF Init, TypeOK
<1>2. OutcomeInv
  BY DEF Init, OutcomeInv
<1> QED
  BY <1>1, <1>2 DEF IInv

\* A connection that moves while the process runs preserves the invariant.
LEMMA MoveStep ==
  ASSUME IInv, NEW c \in Connections, NEW from \in Open \cup {"closed"},
         NEW to \in Open \cup {"closed"}, Move(c, from, to)
  PROVE  IInv'
<1>1. TypeOK /\ OutcomeInv
  BY DEF IInv
<1>2. TypeOK'
  BY <1>1, TimeoutsAssumption DEF Move, TypeOK, Open
<1>3. outcome = "none"
  BY <1>1 DEF Move, OutcomeInv
<1>4. \A d \in Connections : conn'[d] # "cut"
  BY <1>1, <1>3 DEF Move, TypeOK, OutcomeInv, Open
<1>5. OutcomeInv'
  BY <1>1, <1>3, <1>4 DEF Move, OutcomeInv
<1> QED
  BY <1>2, <1>5 DEF IInv

\* Every step of a connection and of its storage call preserves the invariant.
LEMMA ConnectionStep ==
  ASSUME IInv, NEW c \in Connections,
         \/ Task(c) \/ CallStorage(c) \/ ReturnStorage(c)
         \/ Accept(c) \/ BeginRequest(c) \/ EndRequest(c) \/ EndResponse(c) \/ Hangup(c)
  PROVE  IInv'
<1>1. CASE CallStorage(c) \/ ReturnStorage(c)
  BY <1>1 DEF CallStorage, ReturnStorage, IInv, TypeOK, OutcomeInv, connVars
<1>2. CASE Task(c)
  BY <1>2, MoveStep DEF Task, Respond, TimeOut, CloseIdle, Open
<1>3. CASE Accept(c) \/ BeginRequest(c) \/ EndRequest(c)
  BY <1>3, MoveStep DEF Accept, BeginRequest, EndRequest, Open
<1>4. CASE EndResponse(c)
  BY <1>4, MoveStep DEF EndResponse, Open
<1>5. CASE Hangup(c)
  BY <1>5, MoveStep DEF Hangup
<1> QED
  BY <1>1, <1>2, <1>3, <1>4, <1>5

\* Time passes only while nothing is due, so no age passes its bound.
LEMMA TickStep == ASSUME IInv, Tick PROVE IInv'
<1>1. TypeOK /\ OutcomeInv
  BY DEF IInv
<1>2. \A c \in Connections : conn[c] = "handling" => age[c] # RequestTimeout
  BY DEF Tick, Ready, Expired
<1>3. notified => draining # ShutdownTimeout
  BY DEF Tick, Ready, Late
<1>4. age' \in [Connections -> 0 .. RequestTimeout]
  BY <1>1, <1>2, TimeoutsAssumption DEF Tick, TypeOK
<1>5. draining' \in 0 .. ShutdownTimeout
  BY <1>1, <1>3, TimeoutsAssumption DEF Tick, TypeOK
<1>6. TypeOK'
  BY <1>1, <1>4, <1>5 DEF Tick, TypeOK
<1>7. OutcomeInv'
  BY <1>1 DEF Tick, OutcomeInv
<1> QED
  BY <1>6, <1>7 DEF IInv

\* Every step preserves the invariant.
LEMMA NextIInv == IInv /\ [Next]_vars => IInv'
<1> SUFFICES ASSUME IInv, [Next]_vars PROVE IInv'
  OBVIOUS
<1>0. TypeOK /\ OutcomeInv
  BY DEF IInv
<1>1. CASE UNCHANGED vars
  BY <1>0, <1>1 DEF vars, connVars, IInv, TypeOK, OutcomeInv
<1>2. ASSUME NEW s \in Signals, Install(s) PROVE IInv'
  BY <1>0, <1>2 DEF Install, connVars, IInv, TypeOK, OutcomeInv
<1>3. ASSUME NEW s \in Signals, Signal(s) PROVE IInv'
  <2>1. TypeOK'
    BY <1>0, <1>3 DEF Signal, Cut, TypeOK
  <2>2. OutcomeInv'
    BY <1>0, <1>3 DEF Signal, Cut, TypeOK, OutcomeInv, Open, Alive
  <2> QED
    BY <2>1, <2>2 DEF IInv
<1>4. CASE Notify \/ Drain \/ FlipStorage
  <2>1. TypeOK'
    BY <1>0, <1>4 DEF Notify, Drain, FlipStorage, connVars, TypeOK
  <2>2. OutcomeInv'
    BY <1>0, <1>4 DEF Notify, Drain, FlipStorage, connVars, OutcomeInv
  <2> QED
    BY <2>1, <2>2 DEF IInv
<1>5. CASE Return
  <2>1. TypeOK'
    BY <1>0, <1>5 DEF Return, connVars, TypeOK
  <2>2. OutcomeInv'
    BY <1>0, <1>5 DEF Return, Drained, Late, connVars, OutcomeInv
  <2> QED
    BY <2>1, <2>2 DEF IInv
<1>6. CASE DropRuntime
  <2>1. TypeOK'
    BY <1>0, <1>6 DEF DropRuntime, Cut, TypeOK
  <2>2. outcome = "ok" => conn' = conn
    BY <1>0, <1>6 DEF DropRuntime, Cut, TypeOK, OutcomeInv
  <2>3. OutcomeInv'
    BY <1>0, <1>6, <2>2 DEF DropRuntime, Cut, TypeOK, OutcomeInv, Open
  <2> QED
    BY <2>1, <2>3 DEF IInv
<1> QED
  BY <1>1, <1>2, <1>3, <1>4, <1>5, <1>6, ConnectionStep, TickStep DEF Next

\* The invariant holds in every state.
LEMMA Invariance == Spec => []IInv
  BY InitIInv, NextIInv, PTL DEF Spec

\* Every state of the server is well typed: no age passes the timeout that ends it.
THEOREM TypeCorrect == Spec => []TypeOK
<1>1. IInv => TypeOK
  BY DEF IInv
<1> QED
  BY <1>1, Invariance, PTL

\* When serve() returns Ok no connection has been cut, however many there were.
THEOREM GracefulEndIsClean == Spec => []GracefulEndCutsNobody
<1>1. IInv => GracefulEndCutsNobody
  BY DEF IInv, OutcomeInv, GracefulEndCutsNobody
<1> QED
  BY <1>1, Invariance, PTL

\* A request that was in its handler when the signal came is not cut by the deadline,
\* whatever the two timeouts are, if the deadline is the longer one.
THEOREM HandlersFinish == Spec => StartedHandlersFinish
<1> DEFINE CutLate(c) ==
      conn[c] = "handling" /\ conn'[c] = "cut" /\ process' # "killed" => age[c] < draining
<1>1. ASSUME IInv, [Next]_vars, ShutdownTimeout > RequestTimeout, NEW c \in Connections
      PROVE  CutLate(c)
  <2> SUFFICES ASSUME conn[c] = "handling", conn'[c] = "cut", process' # "killed"
               PROVE  age[c] < draining
    OBVIOUS
  <2>0. TypeOK /\ OutcomeInv
    BY <1>1 DEF IInv
  <2>1. CASE DropRuntime
    <3>1. outcome = "shutdown_timeout" /\ draining = ShutdownTimeout
      BY <2>0, <2>1 DEF DropRuntime, TypeOK, OutcomeInv, Open
    <3> QED
      BY <1>1, <2>0, <3>1, TimeoutsAssumption DEF TypeOK
  <2>2. CASE UNCHANGED conn
    BY <2>2
  <2>3. ASSUME NEW s \in Signals, Signal(s) PROVE FALSE
    BY <2>3 DEF Signal
  <2>4. ASSUME NEW d \in Connections, NEW from, NEW to \in Open \cup {"closed"}, Move(d, from, to)
        PROVE  FALSE
    BY <2>0, <2>4 DEF Move, TypeOK, Open
  <2>5. ASSUME NEW d \in Connections,
               \/ Task(d) \/ Accept(d) \/ BeginRequest(d) \/ EndRequest(d)
               \/ EndResponse(d) \/ Hangup(d)
        PROVE  FALSE
    BY <2>4, <2>5 DEF Task, Respond, TimeOut, CloseIdle, Accept, BeginRequest, EndRequest,
                      EndResponse, Hangup, Open
  <2>6. CASE \/ \E s \in Signals : Install(s)
             \/ \E d \in Connections : CallStorage(d) \/ ReturnStorage(d)
             \/ Notify \/ Drain \/ Return \/ FlipStorage \/ Tick \/ UNCHANGED vars
    BY <2>2, <2>6 DEF Install, CallStorage, ReturnStorage, Notify, Drain, Return, FlipStorage,
                      Tick, connVars, vars
  <2> QED
    BY <1>1, <2>1, <2>3, <2>5, <2>6 DEF Next
<1>2. IInv /\ [Next]_vars =>
        [ShutdownTimeout > RequestTimeout => \A c \in Connections : CutLate(c)]_vars
  BY <1>1
<1> QED
  BY <1>2, Invariance, PTL DEF Spec, StartedHandlersFinish

-----------------------------------------------------------------------------
(* The abstract shutdown.                                                  *)

\* The listener is closed before any time has passed since the notification.
LEMMA ListenerIsClosed == Spec => []ListenerInv
<1>1. Init => ListenerInv
  BY DEF Init, ListenerInv
<1>2. ASSUME IInv, ListenerInv, [Next]_vars PROVE ListenerInv'
  <2>1. CASE Tick
    <3>1. ~(notified /\ server = "accepting") /\ server' = server
      BY <2>1 DEF Tick, Ready
    <3> QED
      BY <1>2, <2>1, <3>1 DEF Tick, ListenerInv
  <2>2. CASE UNCHANGED <<server, draining>> /\ (notified => notified')
    BY <1>2, <2>2 DEF ListenerInv
  <2>3. CASE Drain \/ Return
    BY <2>3 DEF Drain, Return, ListenerInv
  <2>4. ASSUME NEW c \in Connections,
               \/ Task(c) \/ CallStorage(c) \/ ReturnStorage(c)
               \/ Accept(c) \/ BeginRequest(c) \/ EndRequest(c) \/ EndResponse(c) \/ Hangup(c)
        PROVE  UNCHANGED <<server, draining>> /\ (notified => notified')
    BY <2>4 DEF Task, Respond, TimeOut, CloseIdle, CallStorage, ReturnStorage, Accept, BeginRequest,
      EndRequest, EndResponse, Hangup, Move
  <2>5. ASSUME \/ \E s \in Signals : Install(s) \/ Signal(s)
               \/ Notify \/ DropRuntime \/ FlipStorage \/ UNCHANGED vars
        PROVE  UNCHANGED <<server, draining>> /\ (notified => notified')
    BY <2>5 DEF Install, Signal, Notify, DropRuntime, FlipStorage, vars
  <2> QED
    BY <1>2, <2>1, <2>2, <2>3, <2>4, <2>5 DEF Next
<1> QED
  BY <1>1, <1>2, Invariance, PTL DEF Spec

\* A connection that moves is opened, closed, or as open as before.
LEMMA MoveIsShared ==
  ASSUME IInv, NEW c \in Connections, NEW from \in Open \cup {"closed"},
         NEW to \in Open \cup {"closed"}, Move(c, from, to),
         from = "closed" => draining = 0
  PROVE  [Shutdown!Next]_(Shutdown!vars)
<1>1. TypeOK /\ OutcomeInv
  BY DEF IInv
<1>2. /\ process = "running" /\ outcome = "none" /\ Phase \in {"serving", "stopping"}
      /\ UNCHANGED <<Phase, draining>>
  BY <1>1 DEF Move, OutcomeInv, Phase
<1>3. /\ conn[c] = from
      /\ \A d \in Connections : conn'[d] = IF d = c THEN to ELSE conn[d]
  BY <1>1 DEF Move, TypeOK
<1>4. InState({"cut"})' = InState({"cut"}) /\ c \notin InState({"cut"})
  BY <1>3 DEF InState, Open
<1>5. CASE to = "closed"
  <2>1. InState(Open)' = InState(Open) \ {c}
    BY <1>3, <1>5 DEF InState, Open
  <2>2. Shutdown!Close(c)
    BY <1>2, <1>4, <2>1 DEF Shutdown!Close
  <2> QED
    BY <2>2 DEF Shutdown!Next
<1>6. CASE from = "closed" /\ to # "closed"
  <2>1. InState(Open)' = InState(Open) \cup {c}
    BY <1>3, <1>6 DEF InState
  <2>2. Shutdown!Connect(c)
    BY <1>2, <1>4, <1>6, <2>1 DEF Shutdown!Connect
  <2> QED
    BY <2>2 DEF Shutdown!Next
<1>7. CASE from # "closed" /\ to # "closed"
  <2>1. InState(Open)' = InState(Open)
    BY <1>3, <1>7 DEF InState
  <2> QED
    BY <1>2, <1>4, <2>1 DEF Shutdown!vars
<1> QED
  BY <1>5, <1>6, <1>7

\* So are the steps of a connection and of its storage call.
LEMMA ConnectionIsShared ==
  ASSUME IInv, ListenerInv, NEW c \in Connections,
         \/ Task(c) \/ CallStorage(c) \/ ReturnStorage(c)
         \/ Accept(c) \/ BeginRequest(c) \/ EndRequest(c) \/ EndResponse(c) \/ Hangup(c)
  PROVE  [Shutdown!Next]_(Shutdown!vars)
<1>1. CASE CallStorage(c) \/ ReturnStorage(c)
  BY <1>1 DEF CallStorage, ReturnStorage, connVars, Shutdown!vars, Phase, InState
<1>2. CASE Task(c)
  BY <1>2, MoveIsShared DEF Task, Respond, TimeOut, CloseIdle, Open
<1>3. CASE Accept(c)
  BY <1>3, MoveIsShared DEF Accept, ListenerInv, Open
<1>4. CASE BeginRequest(c) \/ EndRequest(c)
  BY <1>4, MoveIsShared DEF BeginRequest, EndRequest, Open
<1>5. CASE EndResponse(c)
  BY <1>5, MoveIsShared DEF EndResponse, Open
<1>6. CASE Hangup(c)
  BY <1>6, MoveIsShared DEF Hangup, Open
<1> QED
  BY <1>1, <1>2, <1>3, <1>4, <1>5, <1>6

\* What is cut is what was open.
LEMMA CutIsShared ==
  ASSUME TypeOK, Cut
  PROVE  Shutdown!CutAll
<1>1. \A c \in Connections : conn'[c] = IF conn[c] \in Open THEN "cut" ELSE conn[c]
  BY DEF Cut, TypeOK
<1>2. InState(Open)' = {} /\ InState({"cut"})' = InState({"cut"}) \cup InState(Open)
  BY <1>1 DEF InState, Open
<1> QED
  BY <1>2 DEF Shutdown!CutAll

\* Every step is one that an operator sees, or does not show.
LEMMA NextIsShared == IInv /\ ListenerInv /\ [Next]_vars => [Shutdown!Next]_(Shutdown!vars)
<1> SUFFICES ASSUME IInv, ListenerInv, [Next]_vars PROVE [Shutdown!Next]_(Shutdown!vars)
  OBVIOUS
<1>0. TypeOK /\ OutcomeInv
  BY DEF IInv
<1>1. CASE UNCHANGED <<process, outcome, notified, draining, conn>>
  BY <1>1 DEF Shutdown!vars, Phase, InState
<1>2. CASE UNCHANGED vars \/ Drain \/ FlipStorage \/ \E s \in Signals : Install(s)
  BY <1>1, <1>2 DEF vars, connVars, Drain, FlipStorage, Install
<1>3. ASSUME NEW s \in Signals, Signal(s) PROVE [Shutdown!Next]_(Shutdown!vars)
  <2>1. CASE process' = "killed" /\ Cut
    <3>1. Phase # "killed" /\ Phase' = "killed" /\ draining' = draining
      BY <1>3, <2>1 DEF Signal, Alive, Phase
    <3>2. Shutdown!Kill
      BY <1>0, <2>1, <3>1, CutIsShared DEF Shutdown!Kill
    <3> QED
      BY <3>2 DEF Shutdown!Next
  <2> QED
    BY <1>1, <1>3, <2>1 DEF Signal
<1>4. CASE Notify
  <2>1. Phase = "serving" /\ Phase' = "stopping"
    BY <1>0, <1>4 DEF Notify, OutcomeInv, Phase
  <2>2. Shutdown!Notice
    BY <1>4, <2>1 DEF Notify, connVars, Shutdown!Notice, InState
  <2> QED
    BY <2>2 DEF Shutdown!Next
<1>5. CASE Tick
  <2>1. process = "running" /\ outcome = "none" /\ Phase' = Phase /\ conn' = conn
    BY <1>0, <1>5 DEF Tick, OutcomeInv, Phase
  <2>2. CASE notified
    <3>1. draining # ShutdownTimeout
      BY <1>5, <2>2 DEF Tick, Ready, Late
    <3>2. draining < ShutdownTimeout /\ draining' = draining + 1
      BY <1>0, <1>5, <2>2, <3>1, TimeoutsAssumption DEF Tick, TypeOK
    <3>3. Phase = "stopping"
      BY <2>1, <2>2 DEF Phase
    <3>4. Shutdown!Pass
      BY <2>1, <3>2, <3>3 DEF Shutdown!Pass, InState
    <3> QED
      BY <3>4 DEF Shutdown!Next
  <2>3. CASE ~notified
    BY <2>1, <2>3, <1>5 DEF Tick, Shutdown!vars, InState
  <2> QED
    BY <2>2, <2>3
<1>6. CASE Return
  <2>1. /\ process = "running" /\ outcome = "none" /\ process' = "dropping"
        /\ UNCHANGED <<draining, conn>>
    BY <1>0, <1>6 DEF Return, OutcomeInv, connVars
  <2>2. CASE Drained /\ outcome' = "ok"
    <3>1. notified
      BY <2>2 DEF ListenerInv, Drained
    <3>2. Phase = "stopping" /\ Phase' = "ok" /\ InState(Open) = {}
      BY <2>1, <2>2, <3>1 DEF Phase, Drained, InState
    <3>3. Shutdown!EndWell
      BY <2>1, <3>2 DEF Shutdown!EndWell, InState
    <3> QED
      BY <3>3 DEF Shutdown!Next
  <2>3. CASE Late /\ outcome' = "shutdown_timeout"
    <3>1. Phase = "stopping" /\ Phase' = "late"
      BY <2>1, <2>3 DEF Phase, Late
    <3>2. Shutdown!EndLate
      BY <2>1, <2>3, <3>1 DEF Shutdown!EndLate, Late, InState
    <3> QED
      BY <3>2 DEF Shutdown!Next
  <2> QED
    BY <1>6, <2>2, <2>3 DEF Return
<1>7. CASE DropRuntime
  <2>1. /\ process = "dropping" /\ process' # "killed" /\ outcome # "none"
        /\ Phase' = Phase /\ draining' = draining /\ Cut
    BY <1>0, <1>7 DEF DropRuntime, OutcomeInv, Phase
  <2>2. CASE outcome = "ok"
    <3>1. conn' = conn
      BY <1>0, <2>1, <2>2 DEF Cut, TypeOK, OutcomeInv
    <3> QED
      BY <2>1, <3>1 DEF Shutdown!vars, InState
  <2>3. CASE outcome # "ok"
    <3>1. Phase = "late"
      BY <2>1, <2>3 DEF Phase
    <3>2. Shutdown!Abort
      BY <1>0, <2>1, <3>1, CutIsShared DEF Shutdown!Abort
    <3> QED
      BY <3>2 DEF Shutdown!Next
  <2> QED
    BY <2>2, <2>3
<1> QED
  BY <1>2, <1>3, <1>4, <1>5, <1>6, <1>7, ConnectionIsShared DEF Next

\* However many connections there are and whatever the timeouts, serve() implements the
\* graceful shutdown that an operator relies on.
THEOREM ImplementsShutdown == Spec => ShutdownSpec
<1>1. Init => Shutdown!Init
  BY DEF Init, Shutdown!Init, Phase, InState, Open
<1> QED
  BY <1>1, NextIsShared, Invariance, ListenerIsClosed, PTL DEF Spec, ShutdownSpec, Shutdown!Spec

=============================================================================
