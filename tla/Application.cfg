CONSTANTS
  none = none
  garbage = garbage
  notUnicode = notUnicode
  missing = missing
  None = none
  Garbage = garbage
  NotUnicode = notUnicode
  Missing = missing
  Deployments <- SomeDeployments
  Alternatives <- SomeValues
  Passwords <- SomePasswords
  Hashes <- SomeHashes
SPECIFICATION ApplicationSpec
INVARIANT LaterReadersAgree
INVARIANT MigrationAgrees
INVARIANT OverriddenDoesNotMatter
 
CHECK_DEADLOCK FALSE
