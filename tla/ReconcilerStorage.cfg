SPECIFICATION Spec
CONSTANTS
  Objects <- CoreObjects
  MaxSpecs = 2
  Wanted <- CoreWanted
  NoHost <- ReadyNoHost
  InPlace <- StorageInPlace
  Fixed <- MCFixed
  None = None
  MaxLag = 1
  MaxFaults = 0
INVARIANT
  ObservedIsReconciled
CHECK_DEADLOCK FALSE
