SPECIFICATION FairSpec
CONSTANTS
  Objects <- MCObjects
  MaxSpecs = 2
  Wanted <- MCWanted
  NoHost <- MCNoHost
  InPlace <- MCInPlace
  Fixed <- MCFixed
  None = None
  MaxLag = 1
  MaxFaults = 1
INVARIANTS
  TypeOK
  RunningIsApplied
  DeletionIsComplete
  NothingForgotten
PROPERTY DeletionCompletes
CHECK_DEADLOCK FALSE
