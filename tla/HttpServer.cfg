CONSTANTS
  c1 = c1
  c2 = c2
  Connections <- TwoConnections
  RequestTimeout = 2
  ShutdownTimeout = 3
SPECIFICATION FairSpec
CHECK_DEADLOCK FALSE
INVARIANT TypeOK
PROPERTY ShutdownSpec
PROPERTY StartedHandlersFinish
PROPERTY ServeReturns
PROPERTY SignalEndsProcess
