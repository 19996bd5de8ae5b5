SPECIFICATION FairSpec
CONSTANTS
  Nodes = {n1}
  NoNode = NoNode
  NoPod = NoPod
  MaxUids = 2
  MaxEdits = 1
  MaxLevel = 1
  MaxEvict = 1
  MaxFaults = 1
INVARIANTS
  TypeOK
  RemovalHandled
  HostPodsInOrder
PROPERTIES
  StatusMovesForward
  EventuallyMirrored
CHECK_DEADLOCK FALSE
