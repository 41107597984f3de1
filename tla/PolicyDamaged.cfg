CONSTANTS
  GroupId <- Ids
  Inputs <- DamagedPolicies
  Subjects <- Askers
  Asked <- AskedActions
SPECIFICATION Spec
CHECK_DEADLOCK FALSE
INVARIANT InvalidIsDenied
