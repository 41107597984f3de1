CONSTANTS
  m1 = m1
  m2 = m2
  app = app
  other = other
  free = free
  Migrators <- Jobs
  Roles <- BothRoles
  Free <- free
SPECIFICATION Spec
CHECK_DEADLOCK FALSE
INVARIANT ApplicationIsServed
