CONSTANTS
  m1 = m1
  m2 = m2
  app = app
  other = other
  free = free
  Migrators <- Jobs
  Roles <- BothRoles
  Free <- free
SPECIFICATION FairSpec
CHECK_DEADLOCK FALSE
INVARIANT TypeOK
INVARIANT OneMigrationAtATime
INVARIANT IncompatibleIsUntouched
PROPERTY SupersededIsNoticed
PROPERTY AtomicUpgrade
PROPERTY EveryMigrationEnds
PROPERTY RetriesSucceed
