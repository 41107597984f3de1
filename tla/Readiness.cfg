CONSTANTS
  r1 = r1
  r2 = r2
  r3 = r3
  postgresql = postgresql
  storage = storage
  Requests <- ThreeRequests
  Components <- ReadinessComponents
  Stages <- ReadinessStages
  StageTimeout <- ReadinessStageTimeout
  AnswerTime = 1
  CacheTtl = 2
  RequestTimeout = 3
SYMMETRY RequestSymmetry
SPECIFICATION Spec
INVARIANT TypeOK
INVARIANT LockNeverLost
PROPERTY NoStaleAnswer
PROPERTY GateSpec
