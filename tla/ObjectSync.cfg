SPECIFICATION FairSpec
CONSTANTS
  Keys <- MCKeys
  SystemKeys <- MCSystemKeys
  NoObject = NoObject
  MaxRev = 4
  MaxFaults = 2
INVARIANTS
  TypeOK
  Coherent
  SameIncarnation
PROPERTIES
  ImplementsMirror
  WritesArrive
CHECK_DEADLOCK FALSE
