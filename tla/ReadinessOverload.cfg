CONSTANTS
  r1 = r1
  r2 = r2
  r3 = r3
  postgresql = postgresql
  storage = storage
  Requests <- TwoRequests
  Components <- ReadinessComponents
  Stages <- ReadinessStages
  StageTimeout <- ReadinessStageTimeout
  AnswerTime = 1
  CacheTtl = 1
  RequestTimeout = 3
SPECIFICATION FairSpec
PROPERTY ReportsReady
