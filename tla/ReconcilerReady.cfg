SPECIFICATION Spec
CONSTANTS
  Objects <- MCObjects
  MaxSpecs = 1
  Wanted <- MCWanted
  NoHost <- ReadyNoHost
  InPlace <- MCInPlace
  Fixed <- MCFixed
  None = None
  MaxLag = 1
  MaxFaults = 1
INVARIANT
  SettledReadyIsTrue
CHECK_DEADLOCK FALSE
