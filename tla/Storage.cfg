CONSTANTS
  p1 = p1
  p2 = p2
  Processes <- TwoProcesses
  Trees <- SomeTrees
  MaxFaults = 2
SPECIFICATION FairSpec
INVARIANT TypeOK
PROPERTY SharedDirectory
INVARIANT FilesHaveOwners
PROPERTY SuccessWasSo
PROPERTY CreatesOnlyInside
PROPERTY FitIsUsed
