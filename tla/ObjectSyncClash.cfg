SPECIFICATION Spec
CONSTANTS
  Keys <- ClashKeys
  SystemKeys <- NoKeys
  NoObject = NoObject
  MaxRev = 3
  MaxFaults = 0
INVARIANT ResourcesAppear
CHECK_DEADLOCK FALSE
