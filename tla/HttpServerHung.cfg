CONSTANTS
  c1 = c1
  c2 = c2
  Connections <- OneConnection
  RequestTimeout = 2
  ShutdownTimeout = 3
SPECIFICATION FairSpec
CHECK_DEADLOCK FALSE
PROPERTY DeadlineEndsProcess
