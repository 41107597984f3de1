CONSTANTS
  none = none
  garbage = garbage
  notUnicode = notUnicode
  unannounced = unannounced
  None = none
  Garbage = garbage
  NotUnicode = notUnicode
  Unannounced = unannounced
  Deployments <- SomeDeployments
  Alternatives <- NoAlternatives
  Limit = 2
  Modulus = 4
  MaxChunk = 2
  Roles <- TwoRoles
  Secrets <- SomeSecrets
  MaxFaults = 2
SPECIFICATION FairSpec
INVARIANT TypeOK
INVARIANT GoodNewsIsTrue
INVARIANT GreenMeansGo
INVARIANT MigratedMeansServed
INVARIANT LimitHolds
PROPERTY CommandsEnd
PROPERTY StartsOnceRepaired
