CONSTANTS
  GroupId <- Ids
  Inputs <- Policies
  Subjects <- Askers
  Asked <- AskedActions
SPECIFICATION Spec
CHECK_DEADLOCK FALSE
INVARIANT TypeOK
INVARIANT ComputesResolved
INVARIANT FailsClosed
INVARIANT RolesOnlyAdd
INVARIANT LockHolds
